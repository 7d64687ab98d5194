----------------------------- MODULE ElementLog -----------------------------
(***************************************************************************)
(* What a worker writes to an instance's event log, and what the API reads *)
(* back from it: the elements it waits on, their runs, and what each run   *)
(* changed.  bpmn-engine is external: a token may come to any idle element *)
(* while a run is in progress.                                             *)
(*                                                                         *)
(* Rows are captured in order and written behind the run, so a crash keeps *)
(* a prefix of them.  A row the database refuses is dropped in silence and *)
(* the run goes on: a hole, which no reader sees, stands where it would be.*)
(* A run that crashes or fails goes back to what was saved; the rows of    *)
(* the life that was lost stay in the log, and a run that lost its lease   *)
(* while it lives may still add to them.  Each task has one process        *)
(* variable of its own, 0 while it is absent.                              *)
(***************************************************************************)
EXTENDS Naturals, Sequences, FiniteSets

CONSTANTS Element,    \* tasks of the process, of three kinds:
          Waiter,     \* they wait for a signal or a timer
          Service,    \* they call a service
          Script,     \* they may set variables while they execute
          NoElement,  \* rows of the process itself
          MaxValue,   \* bound: values of a variable
          MaxEvents,  \* bound: elements started, lives lost and times rows are refused, together
          MaxLost,    \* bound: runs that crash, fail or lose their lease
          MaxLate,    \* bound: rows a run still writes after it lost its lease
          MaxRetriers \* bound: retries in flight

ASSUME Kinds == /\ Waiter \subseteq Element /\ Service \subseteq Element /\ Script \subseteq Element
                /\ IsFiniteSet(Element) /\ NoElement \notin Element
ASSUME LogBounds == {MaxValue, MaxEvents, MaxLost, MaxLate, MaxRetriers} \subseteq Nat

VARIABLES
  log, flushed,   \* the rows captured, and how many of them are surely written
  phase,          \* of the instance: running while a worker has it
  saved,          \* columns state and variables
  \* one run: the engine's elements and data, and what InstanceRun remembers
  at, data, replayed, logged, called,
  retriers,       \* retries that have read the instance as failed
  late,           \* rows that runs which lost their lease may still write
  \* ghosts: the runs as they really were, the data each began with, how many
  \* elements were started, lives lost and times rows refused
  truth, began, starts, lost, refused,
  \* the elements of rows that were refused, and whether the last snapshot was;
  \* the elements whose waits a lost life or a row that was refused has left
  \* wrong in the log; the last rows of the lives that failed
  missed, gap, stray, failures

runVars   == <<at, data, replayed, logged, called>>
rowVars   == <<refused, missed, gap, stray>>
ghostVars == <<truth, began, starts, lost, rowVars, failures>>
vars == <<log, flushed, phase, saved, runVars, retriers, late, ghostVars>>

----------------------------------------------------------------------------
Value == 0..MaxValue
Data  == [Element -> Value]
Empty == [e \in Element |-> 0]
Quiet == [e \in Element |-> "idle"]

Snapshot(e, d) == [type |-> "variables", el |-> e, data |-> d, late |-> FALSE]
Row(type, e)   == [type |-> type, el |-> e, data |-> Empty, late |-> FALSE]
Hole           == Row("hole", NoElement)

Logged(type, e) == {n \in DOMAIN log : log[n].type = type /\ log[n].el = e}

Ends    == {"end", "error", "discard"}
Telling == {"wait"} \cup Ends

\* waitingActivities: waits that nothing later has ended.
Waits(l) ==
  {e \in Element : \E n \in DOMAIN l :
     /\ l[n].type = "wait" /\ l[n].el = e
     /\ \A m \in DOMAIN l : m > n =>
          l[m].type # "cancel" /\ ~(l[m].el = e /\ l[m].type \in Ends)}

\* Mutant: a resumed engine's waits are all taken for new ones.
NothingLogged(l) == {}

\* #replayedWaits: the waits the log already has.
Known(l) == Waits(l)

\* The elements a state is parked on.
ParkedOn(a) == {e \in Element : a[e] = "waiting"}

\* Elements in any order.
Orders(S) == {o \in [1..Cardinality(S) -> S] : \A e \in S : \E n \in DOMAIN o : o[n] = e}

----------------------------------------------------------------------------
Init ==
  /\ log = << >> /\ flushed = 0 /\ phase = "new" /\ retriers = 0 /\ late = 0
  /\ saved = << >>
  /\ at = Quiet /\ data = Empty
  /\ replayed = {} /\ logged = Empty /\ called = FALSE
  /\ truth = [e \in Element |-> << >>] /\ began = Empty
  /\ starts = 0 /\ lost = 0 /\ refused = 0
  /\ missed = {} /\ gap = FALSE /\ stray = {} /\ failures = {}

MoreEvents == starts + lost + refused < MaxEvents

\* The rows are captured, to be written later in this order; the database will
\* take those of K and refuse the others.
Insert(rows, K) ==
  /\ log' = log \o [n \in DOMAIN rows |-> IF n \in K THEN rows[n] ELSE Hole]
  /\ \/ K = DOMAIN rows /\ refused' = refused
     \/ K # DOMAIN rows /\ MoreEvents /\ refused' = refused + 1

\* #record: a refused insert is swallowed, "an unrecordable event must not take
\* down a running process".  The elements of S are the stray ones but for these
\* rows.
Record(rows, S) == \E K \in SUBSET DOMAIN rows :
  LET out       == DOMAIN rows \ K
      tell      == {n \in DOMAIN rows : rows[n].type \in Telling}
      snapshots == {n \in DOMAIN rows : rows[n].type = "variables"}
  IN
  /\ Insert(rows, K)
  /\ stray' = (S \ {rows[n].el : n \in tell}) \cup {rows[n].el : n \in tell \cap out}
  /\ missed' = IF lost > 0 THEN missed ELSE missed \cup {rows[n].el : n \in out}
  /\ gap' = IF lost > 0 \/ snapshots = {} THEN gap
            ELSE \E n \in snapshots \cap out : \A m \in snapshots : m <= n

\* A row is part of the run it belongs to, as long as no life was lost.
Note(e, run) ==
  truth' = IF lost > 0 THEN truth ELSE [truth EXCEPT ![e][Len(truth[e])] = run]

\* InstanceRun.run without a saved state: a new engine on the original
\* variables; "process.start" takes a first snapshot.
Begin ==
  /\ phase = "new"
  /\ phase' = "running"
  /\ at' = Quiet /\ data' = Empty
  /\ replayed' = {} /\ called' = FALSE
  /\ logged' = Empty
  /\ Record(<<Snapshot(NoElement, Empty)>>, stray)
  /\ UNCHANGED <<flushed, saved, retriers, late, truth, began, starts, lost, failures>>

\* ... and with one: the restored waits are announced again, and those the log
\* has are not repeated.
Resume ==
  /\ phase \in {"parked", "due"}
  /\ phase' = "running"
  /\ at' = saved.at /\ data' = saved.data
  /\ called' = FALSE
  /\ logged' = saved.data
  /\ replayed' = Known(log) \ ParkedOn(saved.at)
  /\ \E order \in Orders(ParkedOn(saved.at) \ Known(log)) :
       Record([n \in DOMAIN order |-> Row("wait", order[n])], stray \ ParkedOn(saved.at))
  /\ UNCHANGED <<flushed, saved, retriers, late, truth, began, starts, lost, failures>>

\* run: after the first rest a wait is a new one.
Settle ==
  /\ phase = "running" /\ replayed # {}
  /\ \A e \in Element : at[e] \in {"idle", "waiting"}
  /\ replayed' = {}
  /\ UNCHANGED <<log, flushed, phase, saved, at, data, logged, called, retriers, late,
                 ghostVars>>

----------------------------------------------------------------------------
(***************************************************************************)
(* The engine's events, as #listener and taskResults log them.             *)
(***************************************************************************)

Start(e) ==
  /\ phase = "running" /\ at[e] = "idle"
  /\ MoreEvents /\ starts' = starts + 1
  /\ at' = [at EXCEPT ![e] = "started"]
  /\ Record(<<Row("start", e)>>, stray)
  /\ began' = IF lost > 0 THEN began ELSE [began EXCEPT ![e] = data[e]]
  /\ truth' = IF lost > 0 THEN truth
              ELSE [truth EXCEPT ![e] = Append(@, [waited |-> 0, state |-> "open",
                                                   change |-> {}, unsure |-> FALSE])]
  /\ UNCHANGED <<flushed, phase, saved, data, replayed, logged, called, retriers, late, lost,
                 failures>>

\* "activity.wait"
Wait(e) ==
  /\ phase = "running" /\ at[e] = "started" /\ e \in Waiter
  /\ at' = [at EXCEPT ![e] = "waiting"]
  /\ replayed' = replayed \ {e}
  /\ Record(IF e \in replayed THEN << >> ELSE <<Row("wait", e)>>,
            IF e \in replayed \ Waits(log) THEN stray \cup {e} ELSE stray \ {e})
  /\ Note(e, [truth[e][Len(truth[e])] EXCEPT !.waited = Len(log) + 1])
  /\ UNCHANGED <<flushed, phase, saved, data, logged, called, retriers, late, began, starts, lost,
                 failures>>

\* How one variable came from one value to another.
Change(e, was, now) ==
  IF was = now THEN {} ELSE
  {[name |-> e, before |-> was, after |-> now,
    kind |-> IF was = 0 THEN "added" ELSE IF now = 0 THEN "removed" ELSE "changed"]}

\* #snapshotVariables: a row only when the data differs from the last one.
SnapshotOf(e, was, now) == IF was = now THEN << >> ELSE <<Snapshot(e, now)>>

\* Mutant: the result is applied without a snapshot of its own.
EndSnapshot(e, mine, v) == SnapshotOf(e, logged, mine)

\* "activity.end" takes a snapshot of the data as the element left it, and the
\* result that is then applied takes another.
EndSnapshots(e, mine, v) ==
  SnapshotOf(e, logged, mine) \o SnapshotOf(e, mine, [mine EXCEPT ![e] = v])

\* The data an element leaves: a script may have set a variable itself.
Left(e) == IF e \in Script THEN {[data EXCEPT ![e] = v] : v \in Value} ELSE {data}

\* The run that ends.
Ended(e, mine, v) ==
  [truth[e][Len(truth[e])] EXCEPT !.state = "ended", !.change = Change(e, began[e], v),
                                  !.unsure = gap \/ (data # mine /\ mine[e] # v)]

\* An element ends, by itself, by a signal or by a timer, and leaves.
End(e) ==
  /\ phase = "running" /\ at[e] = IF e \in Waiter THEN "waiting" ELSE "started"
  /\ \E mine \in Left(e), v \in Value :
       /\ data' = [mine EXCEPT ![e] = v]
       /\ logged' = data'
       /\ Record(<<Row("end", e)>> \o EndSnapshots(e, mine, v), stray)
       /\ Note(e, Ended(e, mine, v))
  /\ at' = [at EXCEPT ![e] = "idle"]
  /\ called' = (called \/ e \in Service)
  /\ UNCHANGED <<flushed, phase, saved, replayed, retriers, late, began, starts, lost, failures>>

\* Mutant: nothing is logged of an element that is cut short.
Silent(e) == << >>

\* Mutant: the engine's event is logged under its own name.
Unnamed(e) == <<Row("leave", e)>>

\* "activity.leave" of an element that has not ended.
Discarded(e) == <<Row("discard", e)>>

\* It leaves without ending: an interrupting boundary event took the token.
CutShort(e) ==
  /\ phase = "running" /\ at[e] \in {"started", "waiting"}
  /\ at' = [at EXCEPT ![e] = "idle"]
  /\ Record(Discarded(e), stray)
  /\ Note(e, [truth[e][Len(truth[e])] EXCEPT !.state = "cut"])
  /\ UNCHANGED <<flushed, phase, saved, data, replayed, logged, called, retriers, late, began,
                 starts, lost, failures>>

----------------------------------------------------------------------------
(***************************************************************************)
(* Saving, and the ends of a run.                                          *)
(***************************************************************************)

\* After a service call that succeeded: the state is saved, the rows behind it
\* need not be written yet.
Checkpoint ==
  /\ phase = "running" /\ called
  /\ called' = FALSE
  /\ saved' = [at |-> at, data |-> data]
  /\ UNCHANGED <<log, flushed, phase, at, data, replayed, logged, retriers, late, ghostVars>>

\* The run is over: its rows are written (flush), and its engine is gone.
RunEnds ==
  /\ flushed' = Len(log')
  /\ at' = Quiet /\ data' = Empty /\ logged' = Empty
  /\ replayed' = {} /\ called' = FALSE

\* At rest, or out of time with a step in flight.
Park ==
  /\ phase = "running"
  /\ \E e \in Element : at[e] # "idle"
  /\ phase' = IF \E e \in Element : at[e] = "started" THEN "due" ELSE "parked"
  /\ saved' = [at |-> at, data |-> data]
  /\ log' = log /\ RunEnds
  /\ UNCHANGED <<retriers, late, ghostVars>>

Complete ==
  /\ phase = "running" /\ \A e \in Element : at[e] = "idle"
  /\ phase' = "completed"
  /\ log' = log /\ RunEnds
  /\ UNCHANGED <<saved, retriers, late, ghostVars>>

\* What the next run begins from.
Again == IF saved = << >> THEN "new" ELSE "due"

\* The rows of the life that ends here stay, what it did does not.
LoseLife ==
  /\ lost < MaxLost /\ MoreEvents /\ lost' = lost + 1
  /\ truth' = [e \in Element |-> << >>] /\ began' = Empty
  /\ missed' = {} /\ gap' = FALSE
  /\ stray' = Waits(log') \ (IF saved = << >> THEN {} ELSE ParkedOn(saved.at))

\* An element fails, or the run does for a reason of its own (a mapping, a
\* checkpoint that was refused).
Fail(rows) ==
  /\ phase = "running"
  /\ phase' = "failed"
  /\ \E K \in SUBSET DOMAIN rows : Insert(rows, K)
  /\ RunEnds
  /\ failures' = failures \cup {Len(log')}
  /\ LoseLife
  /\ UNCHANGED <<saved, retriers, late, starts>>

ElementFails(e) == at[e] = "started" /\ Fail(<<Row("error", e)>>)
RunFails        == Fail(<< >>)

\* The process dies, and rows that were not written are gone with it; or its
\* lease lapses and another worker takes the instance: the run goes on where
\* nothing it saves counts any more, but its rows do (#record asks for no lease).
Crash ==
  /\ phase = "running"
  /\ phase' = Again
  /\ \E n \in flushed..Len(log) : log' = SubSeq(log, 1, n)
  /\ \E more \in 0..MaxLate : late' = late + more
  /\ LoseLife
  /\ RunEnds
  /\ UNCHANGED <<saved, retriers, starts, refused, failures>>

\* A row comes behind those already written, before those still to be.
Between(n, row) ==
  /\ log' = SubSeq(log, 1, n) \o <<row>> \o SubSeq(log, n + 1, Len(log))
  /\ flushed' = n + 1

\* A run that lost its lease writes one more row, whatever it has come to (of the
\* data in it nothing is said).
LateRow ==
  /\ late > 0 /\ late' = late - 1
  /\ \E e \in Element, type \in {"start", "variables"} \cup Telling, n \in flushed..Len(log) :
       /\ Between(n, [Row(type, e) EXCEPT !.late = TRUE])
       /\ stray' = IF type \in Telling THEN stray \cup {e} ELSE stray
  /\ UNCHANGED <<phase, saved, runVars, retriers, truth, began, starts, lost, refused, missed, gap,
                 failures>>

\* #release of a cancel, and its row in the same transaction.
Cancel ==
  /\ phase \in {"new", "parked", "due"}
  /\ phase' = "canceled"
  /\ log' = Append(log, Row("cancel", NoElement))
  /\ flushed' = Len(log')
  /\ UNCHANGED <<saved, runVars, retriers, late, ghostVars>>

\* retry: reads that the instance failed ...
RetryCheck ==
  /\ phase = "failed" /\ retriers < MaxRetriers
  /\ retriers' = retriers + 1
  /\ UNCHANGED <<log, flushed, phase, saved, runVars, late, ghostVars>>

\* Mutant: the row is left to the worker's log.
NoSeam(n) == UNCHANGED <<log, flushed>>

\* The row process.retry, in the transaction that makes the instance due.
Seam(n) == Between(n, Row("retry", NoElement))

\* ... makes it due unless another retry has, and logs process.retry.
RetryCommit ==
  /\ retriers > 0
  /\ retriers' = retriers - 1
  /\ \E n \in flushed..Len(log) : Seam(n)
  /\ phase' = IF phase = "failed" THEN Again ELSE phase
  /\ UNCHANGED <<saved, runVars, late, ghostVars>>

----------------------------------------------------------------------------
(***************************************************************************)
(* The read side: elementRuns and elementProgress.                         *)
(***************************************************************************)

Least(S)  == CHOOSE n \in S : \A m \in S : n <= m
Latest(S) == CHOOSE n \in S : \A m \in S : m <= n

Starts(e)       == Logged("start", e)
NextStart(e, n) == Least({m \in Starts(e) : m > n} \cup {Len(log) + 1})

\* The rows of the run of e that began with row n.
RowsOf(e, n, type) == {m \in Logged(type, e) : n < m /\ m < NextStart(e, n)}

\* The snapshot a run took when it ended, which only it can have taken.
Own(e, n) == {m \in RowsOf(e, n, "variables") : m > Latest(RowsOf(e, n, "end"))}

SnapshotsBefore(n) == {m \in 1..(n - 1) : log[m].type = "variables"}

\* variableChanges
VariableChanges(was, now) == UNION {Change(e, was[e], now[e]) : e \in Element}

Before(n) == LET S == SnapshotsBefore(n) IN IF S = {} THEN Empty ELSE log[Latest(S)].data

\* What a run changed: its own snapshot against the one just before.
Changes(e, n) ==
  IF RowsOf(e, n, "end") = {} \/ Own(e, n) = {} THEN {}
  ELSE LET own == Least(Own(e, n)) IN
       VariableChanges(Before(own), log[own].data)

ElementRun(e, n) ==
  [waited |-> LET w == RowsOf(e, n, "wait") IN IF w = {} THEN 0 ELSE Latest(w),
   state  |-> IF RowsOf(e, n, "discard") # {} THEN "cut"
              ELSE IF RowsOf(e, n, "end") # {} THEN "ended" ELSE "open",
   change |-> Changes(e, n)]

\* One entry per start, oldest first.
ElementRuns(e) ==
  [k \in 1..Cardinality(Starts(e)) |->
     ElementRun(e, CHOOSE n \in Starts(e) : Cardinality({m \in Starts(e) : m <= n}) = k)]

\* elementProgress
Progress(e) == [done |-> Logged("end", e) # {}, failed |-> Logged("error", e) # {},
                runs |-> Cardinality(Starts(e))]

----------------------------------------------------------------------------
Engine == \/ \E e \in Element : \/ Start(e) \/ Wait(e) \/ End(e)
                                \/ CutShort(e) \/ ElementFails(e)
          \/ RunFails

Next == Begin \/ Resume \/ Settle \/ Engine \/ Checkpoint \/ Park \/ Complete
        \/ Crash \/ LateRow \/ Cancel \/ RetryCheck \/ RetryCommit

Spec == Init /\ [][Next]_vars

----------------------------------------------------------------------------
(***************************************************************************)
(* Properties.                                                             *)
(***************************************************************************)

Rows == [type : {"start", "variables", "cancel", "retry", "hole"} \cup Telling,
         el : Element \cup {NoElement}, data : Data, late : BOOLEAN]
AnyChange == UNION {Change(e, v, w) : e \in Element, v \in Value, w \in Value}
Runs == [waited : Nat, state : {"open", "ended", "cut"}, change : SUBSET AnyChange, unsure : BOOLEAN]

\* Every variable stays in its set: the log holds only rows of the types the
\* read side knows.
TypeOK ==
  /\ log \in Seq(Rows) /\ flushed \in 0..Len(log)
  /\ phase \in {"new", "running", "parked", "due", "failed", "completed", "canceled"}
  /\ saved = << >> \/ saved \in [at : [Element -> {"idle", "started", "waiting"}], data : Data]
  /\ at \in [Element -> {"idle", "started", "waiting"}]
  /\ data \in Data /\ logged \in Data /\ began \in Data
  /\ {replayed, stray} \subseteq SUBSET Element
  /\ called \in BOOLEAN /\ gap \in BOOLEAN /\ missed \subseteq Element \cup {NoElement}
  /\ {starts, refused} \subseteq 0..MaxEvents /\ lost \in 0..MaxLost /\ late \in Nat
  /\ retriers \in 0..MaxRetriers
  /\ truth \in [Element -> Seq(Runs)]
  /\ failures \subseteq 0..Len(log)

\* An instance at rest waits on exactly the elements the log says, whichever
\* processes ran it and however often it was resumed, retried or taken over
\* ("right no matter which process ran it", event-feed.ts:102-105), but for
\* those a lost life, a run that went on without its lease or a row that was
\* refused has left wrong and the instance has not come to again.  When it is
\* over it waits on nothing else, and a cancelled one only on what a run without
\* a lease has written since.
WaitsAreTrue ==
  /\ phase = "parked" => Waits(log) \ stray = ParkedOn(saved.at) \ stray
  /\ phase \in {"completed", "canceled"} => Waits(log) \subseteq stray
  /\ (phase = "canceled" /\ lost = 0) => Waits(log) = {}

\* Until a life is lost, the log tells the runs of each element apart, but for
\* the elements of rows that were refused, and says of each when it began to
\* wait and how it ended, whatever branches ran beside it and however often the
\* instance was parked in between (elementRuns, elementProgress).
RunsAreTrue ==
  lost = 0 => \A e \in Element \ missed :
    /\ Progress(e).runs = Len(truth[e]) /\ ~Progress(e).failed
    /\ Progress(e).done = \E k \in DOMAIN truth[e] : truth[e][k].state = "ended"
    /\ Len(ElementRuns(e)) = Len(truth[e])
    /\ \A k \in DOMAIN truth[e] :
         /\ ElementRuns(e)[k].waited = truth[e][k].waited
         /\ ElementRuns(e)[k].state = truth[e][k].state

\* What a run is said to have changed is what its result changed: never a
\* parallel branch's writes, nor what happened while the instance was parked
\* ("the process variables this run added, changed or removed",
\* process-engine.ts:84).  Left out are the runs of elements whose rows were
\* refused; those that end when the last snapshot was, whose change the next
\* one also tells; and those of a script that sets a variable itself and has a
\* result that changes it again, which takes two snapshots, the first of them
\* taken for its own.
ChangesAreOwn ==
  lost = 0 => \A e \in Element \ missed : \A k \in DOMAIN truth[e] :
    (truth[e][k].state = "ended" /\ ~truth[e][k].unsure) => ElementRuns(e)[k].change = truth[e][k].change

\* Behind a failed attempt no row of the next one comes before process.retry,
\* however many callers retry at once: only those of a run that lost its lease.
SeamMarked ==
  \A n \in failures : \A m \in (n + 1)..Len(log) :
    log[m].late \/ \E k \in (n + 1)..m : log[k].type = "retry"
=============================================================================
