----------------------------- MODULE EventFeed -----------------------------
(***************************************************************************)
(* The event log and a subscription that tails it (WatchInstance, the SSE  *)
(* stream).  A row takes its id at insert and is visible at commit, so a   *)
(* lower id may show up after a higher one was read; each poll therefore   *)
(* also re-reads the rows of the last LOOK_BACK_MS.                        *)
(*                                                                         *)
(* Time is abstract: a row is stale once its createdAt lies before the     *)
(* window that ends now.  The feed counts on a row to stay in the window   *)
(* until a poll has seen it committed: LOOK_BACK_MS is many polls.  With   *)
(* Backlog a row may be stale from the start.                              *)
(***************************************************************************)
EXTENDS Naturals, Sequences, FiniteSets

CONSTANTS Writer,      \* runs, and the API's transactions, that log events
          Instances,   \* the writers of each instance that may be watched
          MaxRow,      \* bound: rows ever inserted
          Batch,       \* BATCH
          MaxResumes,  \* bound: reconnects of the reader
          Backlog      \* a row may be written long after it was stamped

ASSUME InstancesType == Instances \subseteq SUBSET Writer
ASSUME FeedBounds == MaxRow \in Nat /\ Batch \in Nat \ {0} /\ MaxResumes \in Nat
ASSUME BacklogType == Backlog \in BOOLEAN

VARIABLES
  \* process_events: the id sequence, each row's fate, its writer, its age;
  \* those inserted stale
  nextId, row, owner, stale, slow,
  \* EventFeed.subscribe; scope: whose rows it is for
  scope, phase, asked, page, floor, cursor, recent, since,
  \* ghosts: the rows some poll began after; what this subscription yielded
  met, sent,
  \* the reader, over all of its subscriptions: what it has
  shown, resumes

logVars    == <<nextId, row, owner, stale, slow>>
pollVars   == <<phase, asked, page, since, met>>
readerVars == <<scope, shown, resumes>>
vars       == <<logVars, pollVars, floor, cursor, recent, sent, readerVars>>

----------------------------------------------------------------------------
Row         == 1..MaxRow
Committed   == {r \in Row : row[r] = "committed"}
InScope(r)  == owner[r] \in scope
Least(S)    == {r \in S : \A q \in S : r <= q}
Greatest(S) == {r \in S : \A q \in S : q <= r}

Init ==
  /\ nextId = 1
  /\ row = [r \in Row |-> "none"]
  /\ owner = [r \in Row |-> CHOOSE w \in Writer : TRUE]
  /\ stale = {} /\ slow = {}
  /\ phase = "closed" /\ asked = {} /\ page = {} /\ since = {} /\ met = {}
  /\ floor = 0 /\ cursor = 0 /\ recent = {} /\ sent = << >>
  /\ scope = {} /\ shown = {} /\ resumes = 0

----------------------------------------------------------------------------
(***************************************************************************)
(* The log.                                                                *)
(***************************************************************************)

\* Mutant: writes are not chained.
Unchained(w) == TRUE

\* A writer inserts its next event only once the one before is settled.
Chained(w) == \A r \in Row : row[r] = "open" => owner[r] # w

\* #record: the insert draws the id.  The row was stamped when the event was
\* captured, which is long ago when the writes before it were slow.
Insert(w) ==
  /\ nextId <= MaxRow /\ Chained(w)
  /\ nextId' = nextId + 1
  /\ row' = [row EXCEPT ![nextId] = "open"]
  /\ owner' = [owner EXCEPT ![nextId] = w]
  /\ \/ UNCHANGED <<stale, slow, since>>
     \/ /\ Backlog
        /\ stale' = stale \cup {nextId} /\ since' = since \cup {nextId}
        /\ slow' = slow \cup {nextId}
  /\ UNCHANGED <<phase, asked, page, met, floor, cursor, recent, sent, readerVars>>

\* It commits, or fails and is given up: its id is never seen.
Finish(r) ==
  /\ row[r] = "open"
  /\ \E fate \in {"committed", "lost"} : row' = [row EXCEPT ![r] = fate]
  /\ UNCHANGED <<nextId, owner, stale, slow, pollVars, floor, cursor, recent, sent, readerVars>>

\* A row leaves the look-back window.
Age(r) ==
  /\ r \in Committed \ stale
  /\ phase = "closed" \/ r \in met
  /\ stale' = stale \cup {r}
  /\ UNCHANGED <<nextId, row, owner, slow, pollVars, floor, cursor, recent, sent, readerVars>>

----------------------------------------------------------------------------
(***************************************************************************)
(* EventFeed.subscribe.                                                    *)
(***************************************************************************)

\* Mutant: one past the newest row.
NextSeq == {nextId}

\* EventFeed.latestSeq: the newest row's id, or 0.
LatestSeq == IF Committed = {} THEN {0} ELSE Greatest(Committed)

\* A subscription to these writers' rows after one of these ids.
Open(writers, after) ==
  /\ phase = "closed"
  /\ phase' = "idle"
  /\ scope' = writers
  /\ floor' \in after
  /\ cursor' = floor'
  /\ UNCHANGED <<logVars, asked, page, since, met, recent, sent, shown, resumes>>

\* watchInstance replays an instance's log from its start, then follows it.
Watch == \E writers \in Instances : Open(writers, {0})

\* GET /events/stream: a new stream begins at the end of the log.
Stream == Open(Writer, LatestSeq)

\* The look-back begins where the window does now; both queries are sent.
Poll ==
  /\ phase = "idle"
  /\ phase' = "polling"
  /\ since' = stale
  /\ asked' = {"late", "fresh"}
  /\ met' = met \cup Committed
  /\ UNCHANGED <<logVars, page, floor, cursor, recent, sent, readerVars>>

\* Mutant: the cursor alone.
NoLookBack == {}

\* WHERE id > floor AND id <= cursor AND created_at >= since
LateRows == {r \in Committed : InScope(r) /\ floor < r /\ r <= cursor /\ r \notin since}

\* WHERE id > cursor
NewRows == {r \in Committed : InScope(r) /\ cursor < r}

\* Mutant: the window applies to new rows as well.
RecentRows == {r \in NewRows \ since : Cardinality({q \in NewRows \ since : q <= r}) <= Batch}

\* ... ORDER BY id LIMIT BATCH
FreshRows == {r \in NewRows : Cardinality({q \in NewRows : q <= r}) <= Batch}

\* The answers come in either order, each as of its own moment.
Answer(query, rows) ==
  /\ query \in asked
  /\ asked' = asked \ {query}
  /\ page' = page \cup rows
  /\ UNCHANGED <<logVars, phase, since, met, floor, cursor, recent, sent, readerVars>>

AnswerLate  == Answer("late", LateRows)
AnswerFresh == Answer("fresh", FreshRows)

\* The rows in id order, those already delivered left out.
Yield(r) ==
  /\ phase = "polling" /\ asked = {} /\ r \in Least(page)
  /\ page' = page \ {r}
  /\ IF r \in recent
       THEN UNCHANGED <<recent, cursor, sent, shown>>
       ELSE /\ recent' = recent \cup {r}
            /\ cursor' = IF r > cursor THEN r ELSE cursor
            /\ sent' = Append(sent, r)
            /\ shown' = shown \cup {r}
  /\ UNCHANGED <<logVars, phase, asked, since, met, floor, scope, resumes>>

\* Mutant: every poll starts with an empty memory.
NothingRecent == {}

\* Rows outside the window cannot be read again: they are forgotten.
StillRecent == recent \ since

EndPoll ==
  /\ phase = "polling" /\ asked = {} /\ page = {}
  /\ phase' = "idle"
  /\ recent' = StillRecent
  /\ UNCHANGED <<logVars, asked, page, since, met, floor, cursor, sent, readerVars>>

\* The reader of a stream reconnects and asks for what came after the last row
\* it got.
Resume ==
  /\ phase # "closed" /\ scope = Writer /\ resumes < MaxResumes
  /\ resumes' = resumes + 1
  /\ floor' = IF sent = << >> THEN floor ELSE sent[Len(sent)]
  /\ cursor' = floor'
  /\ phase' = "idle" /\ asked' = {} /\ page' = {} /\ recent' = {} /\ sent' = << >>
  /\ UNCHANGED <<logVars, since, met, scope, shown>>

Delivered == {sent[n] : n \in DOMAIN sent}

----------------------------------------------------------------------------
Log == \/ \E w \in Writer : Insert(w)
       \/ \E r \in Row : Finish(r) \/ Age(r)

Subscription == \/ Poll \/ AnswerLate \/ AnswerFresh \/ EndPoll
                \/ \E r \in Row : Yield(r)

Next == Log \/ Watch \/ Stream \/ Resume \/ Subscription

Spec == Init /\ [][Next]_vars

\* The loop polls for as long as its reader stays.
FairSpec == Spec /\ WF_vars(Subscription)

----------------------------------------------------------------------------
(***************************************************************************)
(* Properties.                                                             *)
(***************************************************************************)

\* Every variable stays in its set.
TypeOK ==
  /\ nextId \in 1..(MaxRow + 1)
  /\ row \in [Row -> {"none", "open", "committed", "lost"}]
  /\ owner \in [Row -> Writer]
  /\ stale \in SUBSET Row /\ slow \in SUBSET Row
  /\ phase \in {"closed", "idle", "polling"}
  /\ asked \in SUBSET {"late", "fresh"}
  /\ page \in SUBSET Row
  /\ floor \in 0..MaxRow /\ cursor \in 0..MaxRow
  /\ recent \in SUBSET Row /\ since \in SUBSET Row /\ met \in SUBSET Row
  /\ sent \in Seq(Row)
  /\ scope \in SUBSET Writer /\ shown \in SUBSET Row /\ resumes \in 0..MaxResumes

\* What a subscription has passed it has delivered: between polls, every row
\* that a poll could have read committed is delivered or the cursor has not
\* come to it yet - whatever committed out of id order between the two queries
\* and whatever left the window meanwhile.  Rows stamped too early are excepted.
NothingSkipped ==
  phase = "idle" =>
    \A r \in met \ slow : InScope(r) /\ floor < r /\ r <= cursor => r \in Delivered

\* A subscription to what one run logs yields it in the order it was logged,
\* however the two queries of a poll overtake each other and whatever other
\* writers' rows come between (writes are chained, worker.ts:876-898; the page
\* of an instance shows its steps in order).  With a second writer in scope a
\* row may come after the next row of its own run: the late query ran before
\* it committed, the other one after.
InOrder ==
  (\E w \in Writer : scope = {w}) => \A m, n \in DOMAIN sent : m < n => sent[m] < sent[n]

\* A subscription delivers only rows that are visible to it, and none twice.
Visible == IF phase = "closed" THEN {} ELSE {r \in Committed : InScope(r) /\ floor < r}
Delivery == INSTANCE LogDelivery WITH visible <- Visible, delivered <- sent
DeliversOnce == Delivery!Spec

\* A row that becomes visible is delivered in the end, however many come
\* before it and however late it commits, unless it was stamped too early or
\* the reader reconnects and no longer asks for it.
RowsArrive == \A r \in Row : r \in Visible \ slow ~> r \in shown \/ r \notin Visible
=============================================================================
