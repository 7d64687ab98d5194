----------------------------- MODULE TabStream -----------------------------
(***************************************************************************)
(* The dashboard's tabs, which share one event stream: the tab that holds  *)
(* a Web Lock keeps the stream and passes every event on over a            *)
(* BroadcastChannel.  The browser is external: locks are granted in order, *)
(* what a page posted arrives before the lock it gave up is granted, and   *)
(* an EventSource that lost its connection asks again with the id of the   *)
(* last event it got.                                                      *)
(*                                                                         *)
(* Events are numbered in the order they are committed; rows that commit   *)
(* late are EventFeed's.                                                   *)
(***************************************************************************)
EXTENDS Naturals, Sequences, FiniteSets, SequencesExt

CONSTANTS Tab, NoSeq,
          SeenCap,   \* events a tab remembers
          MaxRow,    \* bound: events
          MaxInbox,  \* bound: messages under way to a tab
          MaxDrops   \* bound: connections lost

ASSUME Bounds == {SeenCap, MaxRow, MaxInbox, MaxDrops} \subseteq Nat /\ NoSeq \notin Nat

VARIABLES
  log,      \* the highest event
  page,     \* of each tab: "none", "shown", or "cached" by the browser
  last, seen, list,  \* of each tab: its position, what it remembers, what it shows
  inbox,    \* messages under way to each tab
  locks,    \* requests for the lock in order; the first holds it
  stream,   \* the holder's EventSource
  drops,
  \* ghosts: a stream has started again from now; a tab has come back from the
  \* cache while another held the stream
  skipped, behind

vars == <<log, page, last, seen, list, inbox, locks, stream, drops, skipped, behind>>

Closed == [state |-> "closed", url |-> NoSeq, eid |-> NoSeq, at |-> NoSeq]

Init ==
  /\ log = 0 /\ page = [t \in Tab |-> "none"]
  /\ last = [t \in Tab |-> NoSeq]
  /\ seen = [t \in Tab |-> << >>] /\ list = seen /\ inbox = seen
  /\ locks = << >> /\ stream = Closed
  /\ drops = 0 /\ skipped = FALSE /\ behind = FALSE

Commit ==
  /\ log < MaxRow /\ log' = log + 1
  /\ UNCHANGED <<page, last, seen, list, inbox, locks, stream, drops, skipped, behind>>

\* A page is loaded, and asks for the lock.
Load(t) ==
  /\ page[t] = "none"
  /\ page' = [page EXCEPT ![t] = "shown"]
  /\ last' = [last EXCEPT ![t] = NoSeq]
  /\ seen' = [seen EXCEPT ![t] = << >>] /\ list' = [list EXCEPT ![t] = << >>]
  /\ locks' = Append(locks, t)
  /\ UNCHANGED <<log, inbox, stream, drops, skipped, behind>>

\* Mutant: the lock is not given up.
Kept(t) == locks

Released(t) == RemoveFirst(locks, t)

\* "pagehide": the stream is closed and the lock given up; the browser may keep
\* the page, which hears nothing meanwhile.
Hide(t) ==
  /\ page[t] = "shown"
  /\ page' \in {[page EXCEPT ![t] = p] : p \in {"none", "cached"}}
  /\ stream' = IF locks[1] = t THEN Closed ELSE stream
  /\ locks' = Released(t)
  /\ inbox' = [inbox EXCEPT ![t] = << >>]
  /\ UNCHANGED <<log, last, seen, list, drops, skipped, behind>>

\* "pageshow" from the cache.
Show(t) ==
  /\ page[t] = "cached"
  /\ page' = [page EXCEPT ![t] = "shown"]
  /\ locks' = Append(locks, t)
  /\ behind' = (behind \/ locks # << >>)
  /\ UNCHANGED <<log, last, seen, list, inbox, stream, drops, skipped>>

Evict(t) ==
  /\ page[t] = "cached" /\ page' = [page EXCEPT ![t] = "none"]
  /\ UNCHANGED <<log, last, seen, list, inbox, locks, stream, drops, skipped, behind>>

----------------------------------------------------------------------------
Others(t) == {u \in Tab : page[u] = "shown" /\ u # t}

\* post: to every other page that is shown.
Post(t, message) ==
  /\ \A u \in Others(t) : Len(inbox[u]) < MaxInbox
  /\ inbox' = [u \in Tab |-> IF u \in Others(t) THEN Append(inbox[u], message) ELSE inbox[u]]

\* Mutant: a new holder starts from now.
FromNow(t) == NoSeq

\* ?after=, the position of the tab that opens the stream.
After(t) == last[t]

\* lead
Lead(t) ==
  /\ locks # << >> /\ locks[1] = t /\ stream = Closed /\ inbox[t] = << >>
  /\ stream' = [state |-> "asking", url |-> After(t), eid |-> NoSeq, at |-> NoSeq]
  /\ UNCHANGED <<log, page, last, seen, list, inbox, locks, drops, skipped, behind>>

\* GET /events/stream resumes where the url says, or after the last event of
\* the lost connection, or starts from now; "hello" says where.
ResumeFrom == IF stream.url # NoSeq THEN stream.url ELSE stream.eid

Hello(t) ==
  /\ locks # << >> /\ locks[1] = t /\ stream.state = "asking"
  /\ LET from == IF ResumeFrom # NoSeq THEN ResumeFrom ELSE log IN
       /\ stream' = [stream EXCEPT !.state = "open", !.at = from]
       /\ last' = [last EXCEPT ![t] = IF @ = NoSeq THEN from ELSE @]
       /\ Post(t, [type |-> "hello", seq |-> from])
       /\ skipped' = (skipped \/ (stream.at # NoSeq /\ last[t] < from))
  /\ UNCHANGED <<log, page, seen, list, locks, drops, behind>>

\* Mutant: what the tab has is not skipped.
Unseen(t, seq) == TRUE

\* apply: nothing the tab remembers is shown again.
IsNew(t, seq) == ~Contains(seen[t], seq)

Shift(s) == IF Len(s) > SeenCap THEN Tail(s) ELSE s

Apply(t, seq) ==
  IF IsNew(t, seq)
  THEN /\ list' = [list EXCEPT ![t] = Append(@, seq)]
       /\ seen' = [seen EXCEPT ![t] = Shift(Append(@, seq))]
       /\ last' = [last EXCEPT ![t] = seq]
  ELSE UNCHANGED <<list, seen, last>>

\* "engine": the next event is shown and passed on.
Event(t) ==
  /\ locks # << >> /\ locks[1] = t /\ stream.state = "open" /\ stream.at < log
  /\ stream' = [stream EXCEPT !.at = @ + 1, !.eid = stream.at + 1]
  /\ Apply(t, stream.at + 1)
  /\ Post(t, [type |-> "engine", seq |-> stream.at + 1])
  /\ UNCHANGED <<log, page, locks, drops, skipped, behind>>

Drop ==
  /\ stream.state = "open" /\ drops < MaxDrops
  /\ stream' = [stream EXCEPT !.state = "asking"]
  /\ drops' = drops + 1
  /\ UNCHANGED <<log, page, last, seen, list, inbox, locks, skipped, behind>>

\* A tab without a position takes the holder's.
Position(t, seq) == IF last[t] = NoSeq THEN seq ELSE last[t]

Receive(t) ==
  /\ inbox[t] # << >>
  /\ LET message == Head(inbox[t]) IN
       IF message.type = "engine" THEN Apply(t, message.seq)
       ELSE last' = [last EXCEPT ![t] = Position(t, message.seq)] /\ UNCHANGED <<list, seen>>
  /\ inbox' = [inbox EXCEPT ![t] = Tail(@)]
  /\ UNCHANGED <<log, page, locks, stream, drops, skipped, behind>>

Next == \/ Commit \/ Drop
        \/ \E t \in Tab : \/ Load(t) \/ Hide(t) \/ Show(t) \/ Evict(t)
                          \/ Lead(t) \/ Hello(t) \/ Event(t) \/ Receive(t)

\* Pages that stay are served by the browser and the server; nobody has to
\* stay, and connections are lost finitely often.
Fairness == \A t \in Tab : /\ WF_vars(Lead(t)) /\ WF_vars(Hello(t))
                           /\ WF_vars(Event(t)) /\ WF_vars(Receive(t))

Spec == Init /\ [][Next]_vars /\ Fairness

----------------------------------------------------------------------------
(***************************************************************************)
(* Properties.                                                             *)
(***************************************************************************)

Position0 == 0..log \cup {NoSeq}
Message   == [type : {"hello"}, seq : 0..log] \cup [type : {"engine"}, seq : 1..log]

\* Every variable stays in its set: no position, message or tab is ahead of the
\* log, and exactly the pages that are shown ask for the lock, once.
TypeOK ==
  /\ log \in 0..MaxRow /\ page \in [Tab -> {"none", "shown", "cached"}]
  /\ last \in [Tab -> Position0]
  /\ seen \in [Tab -> Seq(1..log)] /\ list \in [Tab -> Seq(1..log)] /\ inbox \in [Tab -> Seq(Message)]
  /\ \A t \in Tab : Len(inbox[t]) <= MaxInbox /\ Len(seen[t]) <= SeenCap
  /\ stream \in [state : {"closed", "asking", "open"}, url : Position0, eid : Position0, at : Position0]
  /\ locks \in Seq(Tab) /\ IsInjective(locks)
  /\ {locks[n] : n \in DOMAIN locks} = {t \in Tab : page[t] = "shown"}
  /\ drops \in 0..MaxDrops /\ skipped \in BOOLEAN /\ behind \in BOOLEAN

\* Of as many events as a tab remembers it shows none twice, whichever tabs
\* held the stream and from wherever it was opened again ("skip what this tab
\* already has", layout.eta:264).  Their order may change: a tab that comes back
\* from the cache and then holds the stream sends older ones.
ShownOnce ==
  \A t \in Tab : \A m, n \in DOMAIN list[t] :
    m < n /\ n - m <= SeenCap => list[t][m] # list[t][n]

\* A tab that stays open misses no event past its position, whoever holds the
\* stream and hands it over, unless a connection was lost before its first
\* event and the stream started again from now, or a tab came back from the
\* browser's cache while another held the stream: nobody fills the gap of such
\* a tab, which may pass its old position on when it holds the stream itself.
NothingMissed ==
  \A t \in Tab : \A r \in 1..MaxRow :
    (page[t] = "shown" /\ last[t] # NoSeq /\ last[t] < r /\ r <= log)
      ~> (Contains(list[t], r) \/ page[t] # "shown" \/ skipped \/ behind)
=============================================================================
