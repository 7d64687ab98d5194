-------------------------- MODULE EventFeedProofs --------------------------
(***************************************************************************)
(* Proofs about EventFeed: type correctness, and that one subscription     *)
(* implements LogDelivery: only rows that are visible to it, each once.    *)
(***************************************************************************)
EXTENDS EventFeed, SequenceTheorems, FiniteSetTheorems, TLAPS

----------------------------------------------------------------------------
\* Appending keeps a sequence over its set.
LEMMA AppendIn == ASSUME NEW S, NEW s \in Seq(S), NEW x \in S PROVE Append(s, x) \in Seq(S)
  BY AppendProperties

\* Every variable stays in its set, for every number of writers, rows and
\* reconnects.
THEOREM FeedTypeCorrect == ASSUME Writer # {} PROVE Spec => []TypeOK
<1>1. Init => TypeOK
  BY FeedBounds DEF Init, TypeOK, Row
<1>2. TypeOK /\ [Next]_vars => TypeOK'
  <2> SUFFICES ASSUME TypeOK, [Next]_vars PROVE TypeOK'
    OBVIOUS
  <2> USE FeedBounds DEF TypeOK, Row, logVars, pollVars, readerVars
  <2>1. ASSUME NEW w \in Writer, Insert(w) PROVE TypeOK'
    <3>1. nextId \in 1..MaxRow /\ nextId + 1 \in 1..(MaxRow + 1)
      BY <2>1 DEF Insert
    <3>2. row' \in [Row -> {"none", "open", "committed", "lost"}] /\ owner' \in [Row -> Writer]
      BY <2>1, <3>1 DEF Insert
    <3>3. stale' \in SUBSET Row /\ since' \in SUBSET Row
      BY <2>1, <3>1 DEF Insert
    <3>4. QED
      BY <2>1, <3>1, <3>2, <3>3 DEF Insert
  <2>2. ASSUME NEW r \in Row, Finish(r) PROVE TypeOK'
    BY <2>2 DEF Finish
  <2>3. ASSUME NEW r \in Row, Age(r) PROVE TypeOK'
    BY <2>3 DEF Age
  <2>4. CASE Watch \/ Stream
    <3>1. PICK writers \in SUBSET Writer, after \in SUBSET (0..MaxRow) : Open(writers, after)
      <4>1. CASE Watch
        BY <4>1, InstancesType DEF Watch
      <4>2. CASE Stream
        <5>1. LatestSeq \in SUBSET (0..MaxRow)
          BY DEF LatestSeq, Greatest, Committed
        <5>2. QED
          BY <4>2, <5>1 DEF Stream
      <4>3. QED
        BY <2>4, <4>1, <4>2
    <3>2. QED
      BY <3>1 DEF Open
  <2>5. CASE Poll
    BY <2>5 DEF Poll, Committed
  <2>6. CASE AnswerLate
    BY <2>6 DEF AnswerLate, Answer, LateRows, Committed
  <2>7. CASE AnswerFresh
    BY <2>7 DEF AnswerFresh, Answer, FreshRows, NewRows, Committed
  <2>8. ASSUME NEW r \in Row, Yield(r) PROVE TypeOK'
    <3>1. CASE r \in recent
      BY <2>8, <3>1 DEF Yield
    <3>2. CASE r \notin recent
      <4>1. sent' \in Seq(1..MaxRow)
        <5>1. sent \in Seq(Row) /\ r \in Row /\ sent' = Append(sent, r)
          BY <2>8, <3>2 DEF Yield
        <5>2. Append(sent, r) \in Seq(Row)
          BY <5>1, AppendIn
        <5>3. QED
          BY <5>1, <5>2
      <4>2. cursor' \in 0..MaxRow
        BY <2>8, <3>2 DEF Yield
      <4>3. recent' \in SUBSET (1..MaxRow) /\ shown' \in SUBSET (1..MaxRow)
        BY <2>8, <3>2 DEF Yield
      <4>4. QED
        BY <2>8, <3>2, <4>1, <4>2, <4>3 DEF Yield
    <3>3. QED
      BY <3>1, <3>2
  <2>9. CASE EndPoll
    BY <2>9 DEF EndPoll, StillRecent
  <2>10. CASE Resume
    BY <2>10 DEF Resume
  <2>11. CASE UNCHANGED vars
    BY <2>11 DEF vars
  <2>12. QED
    BY <2>1, <2>2, <2>3, <2>4, <2>5, <2>6, <2>7, <2>8, <2>9, <2>10, <2>11
       DEF Next, Log, Subscription
<1>3. QED
  BY <1>1, <1>2, PTL DEF Spec

----------------------------------------------------------------------------
\* Why no row is delivered twice.  A delivered row is at or below the cursor,
\* so the second query does not return it; and it is remembered, unless it was
\* already out of the window when a poll began, and then the first query does
\* not return it either.
OnceInv ==
  /\ \A r \in Row : row[r] # "none" => r < nextId
  /\ since \subseteq stale
  /\ floor <= cursor
  /\ phase = "closed" => sent = << >> /\ page = {} /\ asked = {}
  /\ page \subseteq Visible
  /\ \A r \in Delivered : r <= cursor /\ (r \in recent \/ r \in since)
  /\ \A r \in page : r \in Delivered => r \in recent

\* Appending a row adds it to those delivered.
LEMMA SentAppend ==
  ASSUME TypeOK, NEW r \in Row, sent' = Append(sent, r)
  PROVE  Delivered' = Delivered \cup {r}
<1>1. sent \in Seq(Row) /\ DOMAIN sent = 1..Len(sent) /\ Len(sent) \in Nat
  BY LenProperties DEF TypeOK
<1>2. DOMAIN sent' = 1..(Len(sent) + 1) /\ sent'[Len(sent) + 1] = r
  BY <1>1, AppendProperties
<1>3. \A n \in 1..Len(sent) : sent'[n] = sent[n]
  BY <1>1, AppendProperties
<1>4. \A n \in DOMAIN sent' : n \in DOMAIN sent \/ n = Len(sent) + 1
  BY <1>1, <1>2
<1> HIDE DEF TypeOK
<1> QED BY ONLY <1>1, <1>2, <1>3, <1>4 DEF Delivered

\* The row an insert takes is not one the subscription can see.
LEMMA InsertUnseen ==
  ASSUME TypeOK, OnceInv, NEW w \in Writer, Insert(w)
  PROVE  Visible' = Visible
<1>1. nextId \in Row /\ row[nextId] = "none"
  BY FeedBounds DEF Insert, OnceInv, TypeOK, Row
<1>2. Committed' = Committed
  BY <1>1 DEF Insert, Committed, TypeOK
<1>3. \A r \in Committed : owner'[r] = owner[r]
  BY <1>1 DEF Insert, Committed, TypeOK
<1>4. QED
  BY <1>2, <1>3 DEF Insert, Visible, InScope, readerVars

\* Init establishes the invariant.
LEMMA OnceInit == Init => OnceInv
  BY DEF Init, OnceInv, Delivered, Visible

\* Every step keeps it; a reader that reconnects starts over.
LEMMA OnceStep == ASSUME TypeOK, TypeOK', OnceInv, [Next]_vars PROVE OnceInv'
<1> USE DEF logVars, pollVars, readerVars
<1>1. ASSUME NEW w \in Writer, Insert(w) PROVE OnceInv'
  <2>1. Visible' = Visible
    BY <1>1, InsertUnseen
  <2>2. QED
    BY <1>1, <2>1, FeedBounds DEF Insert, OnceInv, Delivered, TypeOK, Row
<1>2. ASSUME NEW r \in Row, Finish(r) PROVE OnceInv'
  <2>1. Visible \subseteq Visible'
    BY <1>2 DEF Finish, Visible, Committed, InScope, TypeOK
  <2>2. QED
    BY <1>2, <2>1 DEF Finish, OnceInv, Delivered, TypeOK
<1>3. ASSUME NEW r \in Row, Age(r) PROVE OnceInv'
  BY <1>3 DEF Age, OnceInv, Delivered, Visible, Committed, InScope
<1>4. CASE Watch \/ Stream
  <2>1. PICK writers, after : Open(writers, after)
    BY <1>4 DEF Watch, Stream
  <2>2. sent' = << >> /\ page' = {} /\ since' = since /\ stale' = stale /\ row' = row
        /\ nextId' = nextId /\ cursor' = floor'
    BY <2>1 DEF Open, OnceInv
  <2>3. Delivered' = {}
    BY <2>2 DEF Delivered
  <2>4. floor' <= cursor'
    BY <2>2, FeedBounds DEF TypeOK
  <2>5. phase' # "closed"
    BY <2>1 DEF Open
  <2>6. QED
    BY <2>2, <2>3, <2>4, <2>5 DEF OnceInv
<1>5. CASE Poll
  BY <1>5 DEF Poll, OnceInv, Delivered, Visible, Committed, InScope
<1>6. CASE AnswerLate
  <2>1. Visible' = Visible /\ phase # "closed"
    BY <1>6 DEF AnswerLate, Answer, OnceInv, Visible, Committed, InScope
  <2>2. LateRows \subseteq Visible /\ \A r \in LateRows : r \notin since
    BY <2>1 DEF LateRows, Visible
  <2>3. QED
    BY <1>6, <2>1, <2>2 DEF AnswerLate, Answer, OnceInv, Delivered
<1>7. CASE AnswerFresh
  <2>1. Visible' = Visible /\ phase # "closed"
    BY <1>7 DEF AnswerFresh, Answer, OnceInv, Visible, Committed, InScope
  <2>2. FreshRows \subseteq Visible /\ \A r \in FreshRows : ~(r <= cursor)
    <3>1. FreshRows \subseteq NewRows
      BY DEF FreshRows
    <3>2. \A r \in NewRows : r \in Committed /\ InScope(r) /\ r \in Nat /\ cursor < r
      BY DEF NewRows, Committed, Row
    <3>3. floor <= cursor /\ floor \in Nat /\ cursor \in Nat
      BY FeedBounds DEF TypeOK, OnceInv
    <3>4. QED
      BY <2>1, <3>1, <3>2, <3>3 DEF Visible
  <2>3. QED
    BY <1>7, <2>1, <2>2 DEF AnswerFresh, Answer, OnceInv, Delivered
<1>8. ASSUME NEW r \in Row, Yield(r) PROVE OnceInv'
  <2>1. Visible' = Visible
    BY <1>8 DEF Yield, Visible, Committed, InScope
  <2>2. CASE r \in recent
    BY <1>8, <2>1, <2>2 DEF Yield, OnceInv, Delivered
  <2>3. CASE r \notin recent
    <3>1. Delivered' = Delivered \cup {r}
      BY <1>8, <2>3, SentAppend DEF Yield
    <3>2. cursor <= cursor' /\ r <= cursor' /\ recent' = recent \cup {r}
      BY <1>8, <2>3, FeedBounds DEF Yield, TypeOK, Row
    <3>3. Delivered \subseteq Row /\ cursor' \in Nat /\ cursor \in Nat
      BY FeedBounds DEF Delivered, TypeOK, Row
    <3>4. floor' <= cursor'
      BY <1>8, <3>2, <3>3 DEF Yield, OnceInv, TypeOK
    <3>5. \A q \in Delivered' : q <= cursor' /\ (q \in recent' \/ q \in since')
      BY <1>8, <3>1, <3>2, <3>3, FeedBounds DEF Yield, OnceInv, Row
    <3>6. QED
      BY <1>8, <2>1, <3>1, <3>2, <3>4, <3>5 DEF Yield, OnceInv
  <2>4. QED
    BY <2>2, <2>3
<1>9. CASE EndPoll
  BY <1>9 DEF EndPoll, StillRecent, OnceInv, Delivered, Visible, Committed, InScope
<1>10. CASE Resume
  BY <1>10, FeedBounds DEF Resume, OnceInv, Delivered, TypeOK
<1>11. CASE UNCHANGED vars
  BY <1>11 DEF vars, OnceInv, Delivered, Visible, Committed, InScope
<1>12. QED
  BY <1>1, <1>2, <1>3, <1>4, <1>5, <1>6, <1>7, <1>8, <1>9, <1>10, <1>11
     DEF Next, Log, Subscription

\* A step of the feed is a step of what it promises.
LEMMA DeliveryStep ==
  ASSUME TypeOK, TypeOK', OnceInv, OnceInv', [Next]_vars
  PROVE  [Delivery!Next]_(Delivery!vars)
<1> USE DEF logVars, pollVars, readerVars
<1>1. Visible' \in SUBSET Row
  BY DEF Visible, Committed
<1>2. ASSUME Visible \subseteq Visible', sent' = sent PROVE Delivery!Next
  BY <1>1, <1>2 DEF Delivery!Next, Delivery!Publish
<1>3. ASSUME NEW w \in Writer, Insert(w) PROVE Delivery!Next
  <2>1. Visible' = Visible
    BY <1>3, InsertUnseen
  <2>2. QED
    BY <1>2, <1>3, <2>1 DEF Insert
<1>4. ASSUME NEW r \in Row, Finish(r) PROVE Delivery!Next
  <2>1. Visible \subseteq Visible'
    BY <1>4 DEF Finish, Visible, Committed, InScope, TypeOK
  <2>2. QED
    BY <1>2, <1>4, <2>1 DEF Finish
<1>5. ASSUME NEW r \in Row, Age(r) PROVE Delivery!Next
  BY <1>2, <1>5 DEF Age, Visible, Committed, InScope
<1>6. CASE Watch \/ Stream
  <2>1. PICK writers, after : Open(writers, after)
    BY <1>6 DEF Watch, Stream
  <2>2. QED
    BY <1>2, <2>1 DEF Open, Visible
<1>7. CASE Poll \/ EndPoll
  BY <1>2, <1>7 DEF Poll, EndPoll, Visible, Committed, InScope
<1>8. CASE AnswerLate \/ AnswerFresh
  BY <1>2, <1>8 DEF AnswerLate, AnswerFresh, Answer, Visible, Committed, InScope
<1>9. ASSUME NEW r \in Row, Yield(r) PROVE Delivery!Next
  <2>1. Visible' = Visible
    BY <1>9 DEF Yield, Visible, Committed, InScope
  <2>2. CASE r \in recent
    BY <1>2, <1>9, <2>1, <2>2 DEF Yield
  <2>3. CASE r \notin recent
    <3>1. r \in Visible /\ r \notin Delivered
      BY <1>9, <2>3 DEF Yield, Least, OnceInv
    <3>2. Delivered = Delivery!Delivered
      BY DEF Delivered, Delivery!Delivered
    <3>3. Delivery!Deliver(r)
      BY <1>9, <2>1, <2>3, <3>1, <3>2 DEF Yield, Delivery!Deliver
    <3>4. QED
      BY <3>3 DEF Delivery!Next
  <2>4. QED
    BY <2>2, <2>3
<1>10. CASE Resume
  BY <1>1, <1>10 DEF Resume, Delivery!Next, Delivery!Reopen
<1>11. CASE UNCHANGED vars
  BY <1>11 DEF vars, Delivery!vars, Visible, Committed, InScope
<1>12. QED
  BY <1>3, <1>4, <1>5, <1>6, <1>7, <1>8, <1>9, <1>10, <1>11 DEF Next, Log, Subscription

\* A subscription, for as long as it lasts, yields only rows that are visible
\* to it and no row twice (event-feed.ts:27-33), whatever the writers do.
THEOREM FeedDelivers ==
  ASSUME Writer # {}
  PROVE  Spec => DeliversOnce
<1>1. Init => Delivery!Init
  BY DEF Init, Delivery!Init, Visible
<1>2. Init => OnceInv
  BY OnceInit
<1>3. TypeOK /\ TypeOK' /\ OnceInv /\ [Next]_vars => OnceInv'
  BY OnceStep
<1>4. TypeOK /\ TypeOK' /\ OnceInv /\ OnceInv' /\ [Next]_vars => [Delivery!Next]_(Delivery!vars)
  BY DeliveryStep
<1>5. Spec => []TypeOK
  BY FeedTypeCorrect
<1>6. QED
  BY <1>1, <1>2, <1>3, <1>4, <1>5, PTL DEF Spec, DeliversOnce, Delivery!Spec

----------------------------------------------------------------------------
\* Why no row is skipped.  A row leaves the window only when a poll has met it,
\* or nobody was reading; the rows that were stale before are ahead of the
\* cursor, and the second query has them in its page before it has any later
\* row.
Passed(r) == InScope(r) /\ floor < r /\ r <= cursor

\* What became of a row that a poll has met and the cursor has passed: while
\* the first query is under way it can still read it.
Held(r) == \/ r \in Delivered
           \/ phase = "polling" /\ IF "late" \in asked THEN r \notin since ELSE r \in page

\* The page has every row of S up to its last.
PageHas(S) == \A q \in page, r \in S : InScope(r) /\ cursor < r /\ r <= q => r \in page

SkipInv ==
  /\ met \subseteq Committed /\ stale \subseteq Committed \cup slow /\ recent \subseteq Delivered
  /\ phase = "polling" => stale \subseteq met \cup slow
  /\ \A r \in stale \ (met \cup slow) : ~Passed(r)
  /\ phase # "closed" => \A r \in met \ slow : Passed(r) => Held(r)
  /\ PageHas(met)
  /\ (phase = "closed" => cursor = floor) /\ (phase = "idle" => page = {} /\ asked = {})

\* The second query returns the first rows behind the cursor.
LEMMA FreshFirst ==
  ASSUME TypeOK, NEW q \in FreshRows, NEW r \in NewRows, r <= q
  PROVE  r \in FreshRows
<1> DEFINE Upto(n) == {x \in NewRows : x <= n}
<1>1. MaxRow \in Nat /\ Batch \in Nat /\ NewRows \subseteq Row /\ Row \subseteq Nat /\ IsFiniteSet(Row)
  BY FeedBounds, FS_Interval DEF Row, NewRows, Committed
<1>2. q \in Nat /\ r \in Nat /\ FreshRows \subseteq NewRows
  BY <1>1 DEF FreshRows
<1>3. Upto(r) \subseteq Upto(q) /\ Upto(q) \subseteq Row
  <2>1. ASSUME NEW x \in NewRows, x <= r PROVE x <= q
    <3>1. x \in Nat
      BY <1>1
    <3>2. QED
      BY <1>2, <2>1, <3>1
  <2>2. QED
    BY <1>1, <2>1
<1>4. IsFiniteSet(Upto(q))
  BY <1>1, <1>3, FS_Subset
<1>5. IsFiniteSet(Upto(r)) /\ Cardinality(Upto(r)) <= Cardinality(Upto(q))
  BY <1>3, <1>4, FS_Subset
<1>6. Cardinality(Upto(q)) \in Nat /\ Cardinality(Upto(r)) \in Nat
  BY <1>4, <1>5, FS_CardinalityType
<1>7. Cardinality(Upto(q)) <= Batch
  BY DEF FreshRows
<1> HIDE DEF Upto
<1>8. Cardinality(Upto(r)) <= Batch
  BY <1>1, <1>5, <1>6, <1>7
<1>9. QED
  BY <1>8 DEF FreshRows, Upto

\* What is committed stays so, in the scope it was in, whatever the log does.
LEMMA LogOnly ==
  ASSUME TypeOK, OnceInv, [Log]_vars
  PROVE  /\ Committed \subseteq Committed' /\ \A r \in Committed : owner'[r] = owner[r]
         /\ UNCHANGED <<phase, asked, page, met, floor, cursor, recent, sent, scope>>
<1> USE DEF logVars, pollVars, readerVars
<1>1. ASSUME NEW w \in Writer, Insert(w) PROVE Committed \subseteq Committed' /\ \A r \in Committed : owner'[r] = owner[r]
  <2>1. nextId \in Row /\ row[nextId] = "none"
    BY <1>1, FeedBounds DEF Insert, OnceInv, TypeOK, Row
  <2>2. QED
    BY <1>1, <2>1 DEF Insert, Committed, TypeOK
<1>2. ASSUME NEW r \in Row, Finish(r) PROVE Committed \subseteq Committed' /\ owner' = owner
  BY <1>2 DEF Finish, Committed, TypeOK
<1>3. ASSUME NEW r \in Row, Age(r) PROVE Committed' = Committed /\ owner' = owner
  BY <1>3 DEF Age, Committed
<1>4. CASE UNCHANGED vars
  BY <1>4 DEF vars, Committed
<1>5. UNCHANGED <<phase, asked, page, met, floor, cursor, recent, sent, scope>>
  BY DEF Log, Insert, Finish, Age, vars
<1>6. QED
  BY <1>1, <1>2, <1>3, <1>4, <1>5 DEF Log

\* The writers' steps and the rows' age skip nothing.
LEMMA LogSkipsNothing ==
  ASSUME TypeOK, OnceInv, SkipInv, [Log]_vars
  PROVE  SkipInv'
<1> USE DEF logVars, pollVars, readerVars
<1>1. /\ Committed \subseteq Committed' /\ \A r \in Committed : owner'[r] = owner[r]
      /\ UNCHANGED <<phase, asked, page, met, floor, cursor, recent, sent, scope>>
  BY LogOnly
<1>2. \A r \in met : r \in Committed /\ (InScope(r)' <=> InScope(r)) /\ (Passed(r)' <=> Passed(r))
  BY <1>1 DEF SkipInv, InScope, Passed
<1>3. Delivered' = Delivered
  BY <1>1 DEF Delivered
<1>4. /\ slow \subseteq slow' /\ \A r \in since' : r \in since \/ r \in slow'
      /\ \A r \in stale' :
           r \in stale \/ r \in slow' \/ (r \in Committed /\ (phase = "closed" \/ r \in met))
  <2>1. CASE \E w \in Writer : Insert(w)
    BY <2>1 DEF Insert
  <2>2. CASE \E r \in Row : Finish(r)
    BY <2>2 DEF Finish
  <2>3. CASE \E r \in Row : Age(r)
    BY <2>3 DEF Age
  <2>4. CASE UNCHANGED vars
    BY <2>4 DEF vars
  <2>5. QED
    BY <2>1, <2>2, <2>3, <2>4 DEF Log
<1>5. met' \subseteq Committed' /\ stale' \subseteq Committed' \cup slow' /\ recent' \subseteq Delivered'
  BY <1>1, <1>3, <1>4 DEF SkipInv
<1>6. phase' = "polling" => stale' \subseteq met' \cup slow'
  BY <1>1, <1>4 DEF SkipInv
<1>7. ASSUME NEW r \in stale' \ (met' \cup slow') PROVE ~Passed(r)'
  <2>1. r \in Committed \/ r \in slow
    BY <1>1, <1>4, <1>7 DEF SkipInv
  <2>2. r \notin slow /\ r \notin met
    BY <1>1, <1>4, <1>7
  <2>3. Passed(r)' <=> Passed(r)
    BY <1>1, <2>1, <2>2 DEF Passed, InScope
  <2>4. CASE r \in stale
    BY <2>2, <2>3, <2>4 DEF SkipInv
  <2>5. CASE r \notin stale
    <3>1. phase = "closed"
      BY <1>4, <1>7, <2>2, <2>5
    <3>2. cursor = floor
      BY <3>1 DEF SkipInv
    <3>3. r \in Nat /\ floor \in Nat
      <4>1. r \in Row
        BY <2>1, <2>2 DEF Committed
      <4>2. floor \in 0..MaxRow
        BY DEF TypeOK
      <4>3. QED
        BY <4>1, <4>2, FeedBounds DEF Row
    <3>4. ~(floor < r /\ r <= cursor)
      BY <3>2, <3>3
    <3>5. QED
      BY <2>3, <3>4 DEF Passed
  <2>6. QED
    BY <2>4, <2>5
<1>8. ASSUME phase' # "closed", NEW r \in met' \ slow', Passed(r)' PROVE Held(r)'
  <2>1. r \in met \ slow /\ Passed(r) /\ phase # "closed"
    BY <1>1, <1>2, <1>4, <1>8
  <2>2. Held(r)
    BY <2>1 DEF SkipInv
  <2>3. r \in since' => r \in since
    BY <1>4, <1>8
  <2>4. QED
    BY <1>1, <1>3, <2>2, <2>3 DEF Held
<1>9. PageHas(met)'
  BY <1>1, <1>2 DEF SkipInv, PageHas
<1>10. (phase' = "closed" => cursor' = floor') /\ (phase' = "idle" => page' = {} /\ asked' = {})
  BY <1>1 DEF SkipInv
<1>11. QED
  BY <1>5, <1>6, <1>7, <1>8, <1>9, <1>10 DEF SkipInv

\* A subscription that starts, or starts again, has passed nothing.
LEMMA AtFloor ==
  ASSUME TypeOK, TypeOK', SkipInv, UNCHANGED logVars, met' = met, cursor' = floor', phase' = "idle",
         page' = {}, asked' = {}, recent' = {} \/ (recent' = recent /\ sent' = sent)
  PROVE  SkipInv'
<1>1. \A r \in Row : ~Passed(r)'
  <2>1. floor' \in Nat /\ Row \subseteq Nat
    BY FeedBounds DEF TypeOK, Row
  <2>2. QED
    BY <2>1 DEF Passed
<1>2. Committed' = Committed /\ stale' = stale /\ slow' = slow
  BY DEF Committed, logVars
<1>3. met' \subseteq Row /\ stale' \subseteq Row
  BY DEF TypeOK
<1>4. recent' \subseteq Delivered'
  BY DEF SkipInv, Delivered
<1>5. QED
  BY <1>1, <1>2, <1>3, <1>4 DEF SkipInv, PageHas

\* Neither does any step of the subscription.
LEMMA SkipStep == ASSUME TypeOK, TypeOK', OnceInv, SkipInv, [Next]_vars PROVE SkipInv'
<1> USE DEF readerVars
<1>1. CASE [Log]_vars
  BY <1>1, LogSkipsNothing
<1>2. CASE Watch \/ Stream
  <2>1. PICK writers, after : Open(writers, after)
    BY <1>2 DEF Watch, Stream
  <2>2. page = {} /\ asked = {}
    BY <2>1 DEF Open, OnceInv
  <2>3. QED
    BY <2>1, <2>2, AtFloor DEF Open
<1>3. CASE Resume
  BY <1>3, AtFloor DEF Resume
<1>4. CASE Poll
  <2>1. /\ phase = "idle" /\ phase' = "polling" /\ since' = stale /\ asked' = {"late", "fresh"}
        /\ met' = met \cup Committed
        /\ UNCHANGED <<logVars, page, floor, cursor, recent, sent, scope>>
    BY <1>4 DEF Poll
  <2>2. Committed' = Committed /\ stale' = stale /\ slow' = slow /\ Delivered' = Delivered
        /\ \A r : (Passed(r)' <=> Passed(r)) /\ (InScope(r)' <=> InScope(r))
    BY <2>1 DEF Committed, Delivered, Passed, InScope, logVars
  <2>3. ASSUME NEW r \in met' \ slow', Passed(r)' PROVE Held(r)'
    <3>1. CASE r \in met
      <4>1. Held(r)
        BY <2>1, <2>2, <2>3, <3>1 DEF SkipInv
      <4>2. QED
        BY <2>1, <2>2, <4>1 DEF Held
    <3>2. CASE r \notin met
      <4>1. r \notin stale
        BY <2>2, <2>3, <3>2 DEF SkipInv
      <4>2. QED
        BY <2>1, <4>1 DEF Held
    <3>3. QED
      BY <3>1, <3>2
  <2>4. page' = {}
    BY <2>1 DEF SkipInv
  <2>5. PageHas(met)'
    BY <2>4 DEF PageHas
  <2>6. QED
    BY <2>1, <2>2, <2>3, <2>5 DEF SkipInv
<1>5. ASSUME NEW query, NEW rows, Answer(query, rows),
             \/ query = "late" /\ rows = LateRows
             \/ query = "fresh" /\ rows = FreshRows
      PROVE  SkipInv'
  <2>1. /\ asked' = asked \ {query} /\ page' = page \cup rows
        /\ UNCHANGED <<logVars, phase, since, met, floor, cursor, recent, sent, scope>>
    BY <1>5 DEF Answer
  <2>2. /\ Committed' = Committed /\ stale' = stale /\ slow' = slow /\ Delivered' = Delivered
        /\ \A r : (Passed(r)' <=> Passed(r)) /\ (InScope(r)' <=> InScope(r))
    BY <2>1 DEF Committed, Delivered, Passed, InScope, logVars
  <2>3. /\ cursor \in Nat /\ floor \in Nat /\ Row \subseteq Nat /\ floor <= cursor /\ Committed \subseteq Row
        /\ LateRows \subseteq Row /\ FreshRows \subseteq Row /\ met \subseteq Committed /\ page \subseteq Row
    BY FeedBounds DEF TypeOK, Row, Committed, OnceInv, LateRows, FreshRows, NewRows, SkipInv
  <2>4. ASSUME phase' # "closed", NEW r \in met' \ slow', Passed(r)' PROVE Held(r)'
    <3>1. Held(r) /\ Passed(r) /\ r \in Committed
      BY <2>1, <2>2, <2>3, <2>4 DEF SkipInv
    <3>2. CASE r \in Delivered
      BY <2>2, <3>2 DEF Held
    <3>3. CASE phase = "polling" /\ "late" \notin asked /\ r \in page
      BY <2>1, <3>3 DEF Held
    <3>4. CASE phase = "polling" /\ "late" \in asked /\ r \notin since
      <4>1. CASE query = "late"
        <5>1. r \in LateRows
          BY <3>1, <3>4 DEF LateRows, Passed
        <5>2. r \in page' /\ "late" \notin asked' /\ phase' = "polling"
          BY <1>5, <2>1, <3>4, <4>1, <5>1
        <5>3. QED
          BY <5>2 DEF Held
      <4>2. CASE query # "late"
        BY <2>1, <3>4, <4>2 DEF Held
      <4>3. QED
        BY <4>1, <4>2
    <3>5. QED
      BY <3>1, <3>2, <3>3, <3>4 DEF Held
  <2>5. ASSUME NEW q \in page', NEW r \in met', InScope(r)', cursor' < r, r <= q PROVE r \in page'
    <3>1. CASE q \in page
      BY <2>1, <2>2, <2>5, <3>1 DEF SkipInv, PageHas
    <3>2. CASE q \in LateRows
      <4>1. q <= cursor
        BY <3>2 DEF LateRows
      <4>2. QED
        BY <2>1, <2>3, <2>5, <4>1, <3>2
    <3>3. CASE q \in FreshRows /\ rows = FreshRows
      <4>1. r \in NewRows
        BY <2>1, <2>2, <2>3, <2>5 DEF NewRows
      <4>2. r \in FreshRows
        BY <2>5, <3>3, <4>1, FreshFirst
      <4>3. QED
        BY <2>1, <3>3, <4>2
    <3>4. QED
      BY <1>5, <2>1, <3>1, <3>2, <3>3
  <2>6. PageHas(met)'
    BY <2>5 DEF PageHas
  <2>7. phase # "closed" /\ phase # "idle"
    BY <1>5 DEF Answer, SkipInv, OnceInv
  <2>8. QED
    BY <2>1, <2>2, <2>4, <2>6, <2>7 DEF SkipInv
<1>6. ASSUME NEW r0 \in Row, Yield(r0) PROVE SkipInv'
  <2>1. /\ phase = "polling" /\ asked = {} /\ r0 \in page /\ page' = page \ {r0}
        /\ \A q \in page : r0 <= q
        /\ UNCHANGED <<logVars, phase, asked, since, met, floor, scope>>
    BY <1>6 DEF Yield, Least
  <2>2. /\ Committed' = Committed /\ stale' = stale /\ slow' = slow /\ \A r : InScope(r)' <=> InScope(r)
    BY <2>1 DEF Committed, InScope, logVars
  <2>3. /\ cursor \in Nat /\ floor \in Nat /\ Row \subseteq Nat /\ met \subseteq Row /\ page \subseteq Row
        /\ met \subseteq Committed
    BY FeedBounds DEF TypeOK, Row, SkipInv
  <2>4. /\ Delivered \subseteq Delivered' /\ r0 \in Delivered' /\ recent' \subseteq Delivered'
        /\ cursor' \in Nat /\ cursor <= cursor' /\ r0 <= cursor' /\ cursor' \in {cursor, r0}
    <3>1. CASE r0 \in recent
      <4>1. recent' = recent /\ cursor' = cursor /\ sent' = sent
        BY <1>6, <3>1 DEF Yield
      <4>2. Delivered' = Delivered /\ r0 \in Delivered
        BY <3>1, <4>1 DEF Delivered, SkipInv
      <4>3. r0 <= cursor
        BY <4>2 DEF OnceInv
      <4>4. QED
        BY <2>3, <4>1, <4>2, <4>3 DEF SkipInv
    <3>2. CASE r0 \notin recent
      <4>1. recent' = recent \cup {r0} /\ cursor' = (IF r0 > cursor THEN r0 ELSE cursor) /\ sent' = Append(sent, r0)
        BY <1>6, <3>2 DEF Yield
      <4>2. Delivered' = Delivered \cup {r0}
        BY <4>1, SentAppend
      <4>3. cursor' \in Nat /\ cursor <= cursor' /\ r0 <= cursor' /\ cursor' \in {cursor, r0}
        BY <2>3, <4>1
      <4>4. QED
        BY <4>1, <4>2, <4>3 DEF SkipInv
    <3>3. QED
      BY <3>1, <3>2
  <2>5. ASSUME NEW r \in met \ slow, Passed(r)' PROVE Held(r)'
    <3>1. CASE r <= cursor
      <4>1. Passed(r)
        BY <2>1, <2>2, <2>5, <3>1 DEF Passed
      <4>2. r \in Delivered \/ r \in page
        BY <2>1, <4>1 DEF SkipInv, Held
      <4>3. QED
        BY <2>1, <2>4, <4>2 DEF Held
    <3>2. CASE ~(r <= cursor)
      <4>1. cursor < r /\ r <= r0 /\ InScope(r) /\ r \in met
        BY <2>2, <2>3, <2>4, <2>5, <3>2 DEF Passed
      <4>2. r \in page
        BY <2>1, <4>1 DEF SkipInv, PageHas
      <4>3. r = r0
        BY <2>1, <2>3, <4>1, <4>2
      <4>4. QED
        BY <2>4, <4>3 DEF Held
    <3>3. QED
      BY <3>1, <3>2
  <2>6. ASSUME NEW q \in page', NEW r \in met', InScope(r)', cursor' < r, r <= q PROVE r \in page'
    <3>1. r \in page
      BY <2>1, <2>2, <2>3, <2>4, <2>6 DEF SkipInv, PageHas
    <3>2. r # r0
      BY <2>1, <2>3, <2>4, <2>6
    <3>3. QED
      BY <2>1, <3>1, <3>2
  <2>7. PageHas(met)'
    BY <2>6 DEF PageHas
  <2>8. stale' \subseteq met' \cup slow'
    BY <2>1, <2>2 DEF SkipInv
  <2>9. QED
    BY <2>1, <2>2, <2>4, <2>5, <2>7, <2>8 DEF SkipInv
<1>7. CASE EndPoll
  <2>1. /\ phase = "polling" /\ asked = {} /\ page = {} /\ phase' = "idle" /\ recent' \subseteq recent
        /\ UNCHANGED <<logVars, asked, page, met, floor, cursor, sent, scope>>
    BY <1>7 DEF EndPoll, StillRecent
  <2>2. Committed' = Committed /\ stale' = stale /\ slow' = slow /\ Delivered' = Delivered
        /\ \A r : (Passed(r)' <=> Passed(r))
    BY <2>1 DEF Committed, Delivered, Passed, InScope, logVars
  <2>3. \A r \in met' \ slow' : Passed(r)' => Held(r)'
    BY <2>1, <2>2 DEF SkipInv, Held
  <2>4. PageHas(met)'
    BY <2>1 DEF PageHas
  <2>5. QED
    BY <2>1, <2>2, <2>3, <2>4 DEF SkipInv
<1>8. QED
  BY <1>1, <1>2, <1>3, <1>4, <1>5, <1>6, <1>7 DEF Next, Subscription, AnswerLate, AnswerFresh

\* Between polls every row that a poll has met and the cursor has passed is
\* delivered, whatever commits out of id order between the two queries and
\* whatever leaves the window meanwhile (LOOK_BACK_MS, event-feed.ts).
THEOREM FeedSkipsNothing ==
  ASSUME Writer # {}
  PROVE  Spec => []NothingSkipped
<1>1. Init => OnceInv /\ SkipInv
  <2>1. Init => SkipInv
    BY FeedBounds DEF Init, SkipInv, Passed, PageHas, Delivered
  <2>2. QED
    BY <2>1, OnceInit
<1>2. TypeOK /\ TypeOK' /\ OnceInv /\ SkipInv /\ [Next]_vars => OnceInv' /\ SkipInv'
  BY OnceStep, SkipStep
<1>3. SkipInv => NothingSkipped
  BY DEF SkipInv, NothingSkipped, Passed, Held
<1>4. Spec => []TypeOK
  BY FeedTypeCorrect
<1>5. QED
  BY <1>1, <1>2, <1>3, <1>4, PTL DEF Spec

----------------------------------------------------------------------------
\* Why one writer's rows come in order.  It inserts no row before the last one
\* is settled, so none of its rows is committed behind one that was read, and
\* the cursor passes no committed row without delivering it.
Settled == \A r, q \in Row : r < q /\ row[r] = "open" /\ row[q] # "none" => owner[r] # owner[q]

Alone == \E w \in Writer : scope = {w}

Increasing == \A m, n \in DOMAIN sent : m < n => sent[m] < sent[n]

OrderInv ==
  /\ Settled
  /\ cursor = floor \/ cursor \in Delivered
  /\ Delivered \subseteq Visible
  /\ phase = "closed" => cursor = floor
  /\ Alone => /\ \A r \in Visible : r <= cursor => r \in Delivered
              /\ PageHas(Visible)
              /\ Increasing

\* A writer's rows are settled in the order of their ids.
LEMMA SettledStep == ASSUME TypeOK, OnceInv, Settled, [Next]_vars PROVE Settled'
<1> USE DEF logVars, pollVars, readerVars
<1>1. CASE UNCHANGED <<row, owner>>
  BY <1>1 DEF Settled
<1>2. ASSUME NEW w \in Writer, Insert(w) PROVE Settled'
  <2>1. /\ nextId \in Row /\ row[nextId] = "none" /\ Chained(w)
        /\ row' = [row EXCEPT ![nextId] = "open"] /\ owner' = [owner EXCEPT ![nextId] = w]
    BY <1>2, FeedBounds DEF Insert, OnceInv, TypeOK, Row
  <2>2. row \in [Row -> {"none", "open", "committed", "lost"}] /\ owner \in [Row -> Writer] /\ nextId \in Nat
        /\ \A r \in Row : r \in Nat /\ (row[r] # "none" => r < nextId)
    BY FeedBounds DEF TypeOK, OnceInv, Row
  <2>3. ASSUME NEW r \in Row, NEW q \in Row, r < q, row'[r] = "open", row'[q] # "none"
        PROVE  owner'[r] # owner'[q]
    <3>1. CASE q = nextId
      <4>1. r # nextId /\ row[r] = "open"
        BY <2>1, <2>2, <2>3, <3>1
      <4>2. owner[r] # w
        BY <2>1, <4>1 DEF Chained
      <4>3. QED
        BY <2>1, <2>2, <3>1, <4>1, <4>2
    <3>2. CASE q # nextId
      <4>1. row[q] # "none"
        BY <2>1, <2>2, <2>3, <3>2
      <4>2. q < nextId
        BY <2>2, <4>1
      <4>3. r # nextId
        BY <2>2, <2>3, <4>2
      <4>4. row[r] = "open"
        BY <2>1, <2>2, <2>3, <4>3
      <4>5. owner[r] # owner[q]
        BY <2>3, <4>1, <4>4 DEF Settled
      <4>6. QED
        BY <2>1, <2>2, <3>2, <4>3, <4>5
    <3>3. QED
      BY <3>1, <3>2
  <2>4. QED
    BY <2>3 DEF Settled
<1>3. ASSUME NEW r \in Row, Finish(r) PROVE Settled'
  <2>1. owner' = owner /\ \A q \in Row : (row'[q] = "open" => row[q] = "open") /\ (row'[q] # "none" => row[q] # "none")
    BY <1>3 DEF Finish, TypeOK
  <2>2. QED
    BY <2>1 DEF Settled
<1>4. CASE Watch \/ Stream
  BY <1>1, <1>4 DEF Watch, Stream, Open
<1>5. CASE Resume \/ Subscription \/ \E r \in Row : Age(r)
  BY <1>1, <1>5 DEF Resume, Subscription, Poll, AnswerLate, AnswerFresh, Answer, EndPoll, Yield, Age
<1>6. QED
  BY <1>1, <1>2, <1>3, <1>4, <1>5 DEF Next, Log, vars

\* A row that becomes visible to a subscription to one writer comes behind
\* every row that is visible already.
LEMMA VisibleBehind ==
  ASSUME TypeOK, TypeOK', OnceInv, OrderInv, [Log]_vars, Alone, NEW r \in Visible', r \notin Visible, NEW q \in Visible
  PROVE  q < r
<1> USE DEF logVars, pollVars, readerVars
<1>1. /\ Committed \subseteq Committed' /\ \A x \in Committed : owner'[x] = owner[x]
      /\ UNCHANGED <<phase, asked, page, met, floor, cursor, recent, sent, scope>>
  BY LogOnly
<1>2. phase # "closed" /\ q \in Committed /\ InScope(q) /\ r \in Row /\ q \in Row /\ floor < r
      /\ row'[r] = "committed" /\ owner'[r] \in scope
  BY <1>1 DEF Visible, Committed, InScope
<1>3. r \in Nat /\ q \in Nat
  BY <1>2, FeedBounds DEF Row
<1>4. CASE \E w \in Writer : Insert(w)
  BY <1>4, InsertUnseen
<1>5. ASSUME NEW f \in Row, Finish(f) PROVE q < r
  <2>1. owner' = owner /\ row[f] = "open" /\ (f # r => row'[r] = row[r])
    BY <1>2, <1>5 DEF Finish, TypeOK
  <2>2. f = r
    BY <1>1, <1>2, <2>1 DEF Visible, Committed, InScope
  <2>3. owner[r] = owner[q]
    BY <1>2, <2>1 DEF Alone, InScope
  <2>4. row[q] = "committed"
    BY <1>2 DEF Committed
  <2>5. ~(r < q)
    BY <1>2, <2>1, <2>2, <2>3, <2>4 DEF OrderInv, Settled
  <2>6. r # q
    BY <2>1, <2>2, <2>4
  <2>7. QED
    BY <1>3, <2>5, <2>6
<1>6. CASE (\E f \in Row : Age(f)) \/ UNCHANGED vars
  BY <1>1, <1>6 DEF Age, vars, Visible, Committed, InScope
<1>7. QED
  BY <1>4, <1>5, <1>6 DEF Log

\* A subscription that starts, or starts again, is in order.
LEMMA StartsInOrder ==
  ASSUME TypeOK', Settled', cursor' = floor', phase' = "idle", page' = {}, sent' = << >>
  PROVE  OrderInv'
<1>1. Delivered' = {}
  BY DEF Delivered
<1>2. \A r \in Visible' : ~(r <= cursor')
  <2>1. floor' \in Nat /\ \A r \in Visible' : r \in Nat /\ floor' < r
    BY FeedBounds DEF TypeOK, Visible, Committed, Row
  <2>2. QED
    BY <2>1
<1>3. Increasing'
  BY DEF Increasing
<1>4. PageHas(Visible)'
  BY DEF PageHas
<1>5. QED
  BY <1>1, <1>2, <1>3, <1>4 DEF OrderInv

\* Steps of the subscription that yield nothing.
LEMMA NoYield ==
  ASSUME OrderInv, Settled', Visible' = Visible, PageHas(Visible)' \/ ~Alone,
         UNCHANGED <<floor, cursor, sent, scope>>, phase' # "closed"
  PROVE  OrderInv'
<1>1. Delivered' = Delivered /\ Increasing' = Increasing /\ Alone' = Alone
  BY DEF Delivered, Increasing, Alone
<1>2. QED
  BY <1>1 DEF OrderInv

LEMMA OrderStep == ASSUME TypeOK, TypeOK', OnceInv, SkipInv, OrderInv, [Next]_vars PROVE OrderInv'
<1>1. Settled'
  BY SettledStep DEF OrderInv
<1>2. /\ cursor \in Nat /\ floor \in Nat /\ Row \subseteq Nat /\ Visible \subseteq Row /\ page \subseteq Visible
      /\ Delivered \subseteq Visible /\ \A r \in Visible : r \in Nat /\ floor < r /\ InScope(r) /\ r \in Committed
  BY FeedBounds DEF TypeOK, Row, Visible, Committed, OnceInv, OrderInv
<1>3. CASE [Log]_vars
  <2>1. /\ Committed \subseteq Committed' /\ \A x \in Committed : owner'[x] = owner[x]
        /\ UNCHANGED <<phase, asked, page, met, floor, cursor, recent, sent, scope>>
    BY <1>3, LogOnly
  <2>2. /\ Visible \subseteq Visible' /\ Delivered' = Delivered /\ Alone' = Alone /\ Increasing' = Increasing
    BY <2>1 DEF Visible, InScope, Delivered, Alone, Increasing
  <2>3. ASSUME Alone, NEW r \in Visible', r \notin Visible, NEW q \in Visible PROVE q < r
    BY <1>3, <2>3, VisibleBehind
  <2>4. ASSUME Alone, NEW r \in Visible', r <= cursor PROVE r \in Delivered
    <3>1. CASE r \in Visible
      BY <2>4, <3>1 DEF OrderInv
    <3>2. CASE r \notin Visible
      <4>1. r \in Nat /\ floor < r
        BY <2>1, FeedBounds DEF Visible, Committed, Row
      <4>2. cursor \in Visible
        BY <1>2, <2>4, <4>1 DEF OrderInv
      <4>3. cursor < r
        BY <2>3, <2>4, <3>2, <4>2
      <4>4. QED
        BY <1>2, <2>4, <4>1, <4>3
    <3>3. QED
      BY <3>1, <3>2
  <2>5. ASSUME Alone, NEW q \in page', NEW r \in Visible', cursor < r, r <= q PROVE r \in page'
    <3>1. CASE r \in Visible
      BY <1>2, <2>1, <2>5, <3>1 DEF OrderInv, PageHas
    <3>2. CASE r \notin Visible
      <4>1. q \in Visible /\ q \in Nat /\ r \in Nat
        BY <1>2, <2>1, FeedBounds DEF Visible, Committed, Row
      <4>2. q < r
        BY <2>3, <2>5, <3>2, <4>1
      <4>3. QED
        BY <2>5, <4>1, <4>2
    <3>3. QED
      BY <3>1, <3>2
  <2>6. Alone => PageHas(Visible)'
    BY <2>1, <2>5 DEF PageHas
  <2>7. (cursor' = floor' \/ cursor' \in Delivered') /\ Delivered' \subseteq Visible'
        /\ (phase' = "closed" => cursor' = floor')
    BY <2>1, <2>2 DEF OrderInv
  <2>8. Alone => \A r \in Visible' : r <= cursor' => r \in Delivered'
    BY <2>1, <2>2, <2>4
  <2>9. Alone => Increasing'
    BY <2>2 DEF OrderInv
  <2>10. QED
    BY <1>1, <2>2, <2>6, <2>7, <2>8, <2>9 DEF OrderInv
<1>4. CASE Watch \/ Stream
  <2>1. PICK writers, after : Open(writers, after)
    BY <1>4 DEF Watch, Stream
  <2>2. cursor' = floor' /\ phase' = "idle" /\ page' = {} /\ sent' = << >>
    BY <2>1 DEF Open, OnceInv
  <2>3. QED
    BY <1>1, <2>2, StartsInOrder
<1>5. CASE Resume
  <2>1. cursor' = floor' /\ phase' = "idle" /\ page' = {} /\ sent' = << >>
    BY <1>5 DEF Resume
  <2>2. QED
    BY <1>1, <2>1, StartsInOrder
<1>6. ASSUME phase # "closed", phase' # "closed", UNCHANGED <<logVars, floor, scope>> PROVE Visible' = Visible
  BY <1>6 DEF Visible, Committed, InScope, logVars
<1>7. CASE Poll \/ EndPoll
  <2>1. /\ phase # "closed" /\ phase' # "closed"
        /\ UNCHANGED <<logVars, page, floor, cursor, sent, scope>>
    BY <1>7 DEF Poll, EndPoll, readerVars
  <2>2. Visible' = Visible
    BY <1>6, <2>1
  <2>3. \A r : InScope(r)' <=> InScope(r)
    BY <2>1 DEF InScope, logVars
  <2>4. Alone => PageHas(Visible)'
    BY <2>1, <2>2, <2>3 DEF OrderInv, PageHas
  <2>5. QED
    BY <1>1, <2>1, <2>2, <2>4, NoYield
<1>8. ASSUME NEW query, NEW rows, Answer(query, rows), rows \in {LateRows, FreshRows} PROVE OrderInv'
  <2>1. /\ page' = page \cup rows /\ phase # "closed" /\ phase' # "closed"
        /\ UNCHANGED <<logVars, floor, cursor, sent, scope>>
    BY <1>8 DEF Answer, readerVars, SkipInv, OnceInv
  <2>2. Visible' = Visible /\ \A r : InScope(r)' <=> InScope(r)
    BY <1>6, <2>1 DEF InScope, logVars
  <2>3. ASSUME Alone, NEW q \in page', NEW r \in Visible, cursor < r, r <= q PROVE r \in page'
    <3>1. CASE q \in page
      BY <1>2, <2>1, <2>3, <3>1 DEF OrderInv, PageHas
    <3>2. CASE q \in LateRows
      <4>1. q <= cursor /\ q \in Row
        BY <3>2 DEF LateRows, Committed
      <4>2. QED
        BY <1>2, <2>3, <4>1
    <3>3. CASE q \in FreshRows /\ rows = FreshRows
      <4>1. r \in NewRows
        BY <1>2, <2>3 DEF NewRows
      <4>2. r \in FreshRows
        BY <2>3, <3>3, <4>1, FreshFirst
      <4>3. QED
        BY <2>1, <3>3, <4>2
    <3>4. QED
      BY <1>8, <2>1, <3>1, <3>2, <3>3
  <2>4. Alone => PageHas(Visible)'
    BY <2>1, <2>2, <2>3 DEF PageHas
  <2>5. QED
    BY <1>1, <2>1, <2>2, <2>4, NoYield
<1>9. ASSUME NEW r0 \in Row, Yield(r0) PROVE OrderInv'
  <2>1. /\ phase = "polling" /\ r0 \in page /\ page' = page \ {r0} /\ \A q \in page : r0 <= q
        /\ UNCHANGED <<logVars, phase, floor, scope>>
    BY <1>9 DEF Yield, Least
  <2>2. Visible' = Visible /\ \A r : InScope(r)' <=> InScope(r)
    BY <1>6, <2>1 DEF InScope, logVars
  <2>3. CASE r0 \in recent
    <3>1. cursor' = cursor /\ sent' = sent
      BY <1>9, <2>3 DEF Yield
    <3>2. r0 <= cursor
      BY <2>3 DEF SkipInv, OnceInv
    <3>3. ASSUME Alone, NEW q \in page', NEW r \in Visible, cursor < r, r <= q PROVE r \in page'
      <4>1. r \in page
        BY <1>2, <2>1, <3>3 DEF OrderInv, PageHas
      <4>2. r # r0
        BY <1>2, <2>1, <3>2, <3>3
      <4>3. QED
        BY <2>1, <4>1, <4>2
    <3>4. Alone => PageHas(Visible)'
      BY <2>1, <2>2, <3>1, <3>3 DEF PageHas
    <3>5. QED
      BY <1>1, <2>1, <2>2, <3>1, <3>4, NoYield
  <2>4. CASE r0 \notin recent
    <3>1. cursor' = (IF r0 > cursor THEN r0 ELSE cursor) /\ sent' = Append(sent, r0)
      BY <1>9, <2>4 DEF Yield
    <3>2. Delivered' = Delivered \cup {r0}
      BY <3>1, SentAppend
    <3>3. /\ cursor' \in Nat /\ cursor <= cursor' /\ r0 <= cursor' /\ cursor' \in {cursor, r0}
      BY <1>2, <3>1
    <3>4. r0 \in Visible /\ r0 \notin Delivered
      BY <1>2, <2>1, <2>4 DEF OnceInv
    <3>5. Alone' = Alone
      BY <2>1 DEF Alone
    <3>6. ASSUME Alone, NEW r \in Visible, r <= cursor' PROVE r \in Delivered'
      <4>1. CASE r <= cursor
        BY <3>2, <3>6, <4>1 DEF OrderInv
      <4>2. CASE ~(r <= cursor)
        <5>1. cursor < r /\ r <= r0
          BY <1>2, <3>3, <3>6, <4>2
        <5>2. r \in page
          BY <1>2, <2>1, <3>6, <5>1 DEF OrderInv, PageHas
        <5>3. r = r0
          BY <1>2, <2>1, <5>1, <5>2
        <5>4. QED
          BY <3>2, <5>3
      <4>3. QED
        BY <4>1, <4>2
    <3>7. ASSUME Alone, NEW q \in page', NEW r \in Visible, cursor' < r, r <= q PROVE r \in page'
      <4>1. cursor < r /\ r # r0
        BY <1>2, <3>3, <3>7
      <4>2. r \in page
        BY <1>2, <2>1, <3>7, <4>1 DEF OrderInv, PageHas
      <4>3. QED
        BY <2>1, <4>1, <4>2
    <3>8. ASSUME Alone PROVE Increasing'
      <4>1. cursor < r0
        <5>1. ~(r0 <= cursor)
          BY <3>4, <3>8 DEF OrderInv
        <5>2. QED
          BY <1>2, <5>1
      <4>2. Increasing /\ \A n \in DOMAIN sent : sent[n] \in Nat /\ sent[n] <= cursor
        <5>1. Increasing
          BY <3>8 DEF OrderInv
        <5>2. \A n \in DOMAIN sent : sent[n] \in Delivered
          BY DEF Delivered
        <5>3. QED
          BY <1>2, <5>1, <5>2 DEF OnceInv
      <4>3. /\ DOMAIN sent = 1..Len(sent) /\ Len(sent) \in Nat /\ DOMAIN sent' = 1..(Len(sent) + 1)
            /\ sent'[Len(sent) + 1] = r0 /\ \A n \in 1..Len(sent) : sent'[n] = sent[n]
        <5>1. sent \in Seq(Row)
          BY DEF TypeOK
        <5>2. QED
          BY <3>1, <5>1, AppendProperties, LenProperties
      <4>4. ASSUME NEW m \in DOMAIN sent', NEW n \in DOMAIN sent', m < n PROVE sent'[m] < sent'[n]
        <5>1. m \in 1..Len(sent)
          BY <4>3, <4>4
        <5>2. CASE n \in 1..Len(sent)
          BY <4>2, <4>3, <4>4, <5>1, <5>2 DEF Increasing
        <5>3. CASE n = Len(sent) + 1
          <6>1. sent'[m] = sent[m] /\ sent'[n] = r0 /\ sent[m] \in Nat /\ sent[m] <= cursor
            BY <4>2, <4>3, <5>1, <5>3
          <6>2. QED
            BY <1>2, <4>1, <6>1
        <5>4. QED
          BY <4>3, <5>2, <5>3
      <4>5. QED
        BY <4>4 DEF Increasing
    <3>9. Alone => PageHas(Visible)'
      BY <2>2, <3>7 DEF PageHas
    <3>10. cursor' = floor' \/ cursor' \in Delivered'
      BY <2>1, <3>2, <3>3 DEF OrderInv
    <3>11. Delivered' \subseteq Visible'
      BY <1>2, <2>2, <3>2, <3>4
    <3>12. QED
      BY <1>1, <2>1, <2>2, <3>5, <3>6, <3>8, <3>9, <3>10, <3>11 DEF OrderInv
  <2>5. QED
    BY <2>3, <2>4
<1>10. QED
  BY <1>3, <1>4, <1>5, <1>7, <1>8, <1>9 DEF Next, Subscription, AnswerLate, AnswerFresh

\* A subscription to what one run logs yields it in the order it was logged,
\* however the two queries of a poll overtake each other (writes are chained,
\* worker.ts:876-898).
THEOREM FeedInOrder ==
  ASSUME Writer # {}
  PROVE  Spec => []InOrder
<1>1. Init => OnceInv /\ SkipInv /\ OrderInv
  <2>1. Init => SkipInv
    BY FeedBounds DEF Init, SkipInv, Passed, PageHas, Delivered
  <2>2. Init => OrderInv
    BY FeedBounds DEF Init, OrderInv, Settled, Delivered, Visible, PageHas, Increasing
  <2>3. QED
    BY <2>1, <2>2, OnceInit
<1>2. TypeOK /\ TypeOK' /\ OnceInv /\ SkipInv /\ OrderInv /\ [Next]_vars => OnceInv' /\ SkipInv' /\ OrderInv'
  BY OnceStep, SkipStep, OrderStep
<1>3. OrderInv => InOrder
  BY DEF OrderInv, InOrder, Alone, Increasing
<1>4. Spec => []TypeOK
  BY FeedTypeCorrect
<1>5. QED
  BY <1>1, <1>2, <1>3, <1>4, PTL DEF Spec

=============================================================================
