--------------------------- MODULE TabStreamProofs ---------------------------
(***************************************************************************)
(* Proofs about TabStream: type correctness, and that a tab shows no event *)
(* again before it has shown as many others as it remembers.               *)
(***************************************************************************)
EXTENDS TabStream, SequenceTheorems, TLAPS

----------------------------------------------------------------------------
(***************************************************************************)
(* The queue for the lock.                                                 *)
(***************************************************************************)

\* RemoveAt leaves the others in their order.
LEMMA RemoveAtProperties ==
  ASSUME NEW S, NEW s \in Seq(S), NEW k \in 1..Len(s)
  PROVE  /\ RemoveAt(s, k) \in Seq(S) /\ Len(RemoveAt(s, k)) = Len(s) - 1
         /\ \A i \in 1..(Len(s) - 1) : RemoveAt(s, k)[i] = IF i < k THEN s[i] ELSE s[i + 1]
<1> DEFINE a == SubSeq(s, 1, k - 1)
           b == SubSeq(s, k + 1, Len(s))
<1>1. Len(s) \in Nat /\ k \in Nat /\ 1 <= k /\ k <= Len(s) /\ \A n \in 1..Len(s) : s[n] \in S
  BY LenProperties, ElementOfSeq
<1>2. a \in Seq(S) /\ Len(a) = k - 1 /\ \A i \in 1..(k - 1) : a[i] = s[i]
  BY <1>1, SubSeqProperties
<1>3. b \in Seq(S) /\ Len(b) = Len(s) - k /\ \A i \in 1..(Len(s) - k) : b[i] = s[k + i]
  <2>1. /\ b \in Seq(S) /\ Len(b) = IF k + 1 <= Len(s) THEN Len(s) - (k + 1) + 1 ELSE 0
        /\ \A i \in 1..(Len(s) - (k + 1) + 1) : b[i] = s[k + 1 + i - 1]
    BY <1>1, SubSeqProperties
  <2> HIDE DEF b
  <2>2. Len(b) = Len(s) - k
    BY <1>1, <2>1
  <2>3. ASSUME NEW i \in 1..(Len(s) - k)
        PROVE  b[i] = s[k + i]
    <3>1. i \in 1..(Len(s) - (k + 1) + 1) /\ k + 1 + i - 1 = k + i
      BY <1>1
    <3>2. QED
      BY <2>1, <3>1
  <2>4. QED
    BY <2>1, <2>2, <2>3
<1>4. RemoveAt(s, k) = a \o b
  BY DEF RemoveAt
<1> HIDE DEF a, b
<1>5. /\ a \o b \in Seq(S) /\ Len(a \o b) = Len(a) + Len(b)
      /\ \A i \in 1..(Len(a) + Len(b)) : (a \o b)[i] = IF i <= Len(a) THEN a[i] ELSE b[i - Len(a)]
  BY <1>2, <1>3, ConcatProperties
<1>6. Len(a) + Len(b) = Len(s) - 1
  BY <1>1, <1>2, <1>3
<1>7. ASSUME NEW i \in 1..(Len(s) - 1)
      PROVE  (a \o b)[i] = IF i < k THEN s[i] ELSE s[i + 1]
  <2>1. CASE i < k
    BY <1>1, <1>2, <1>5, <1>6, <2>1
  <2>2. CASE ~(i < k)
    <3>1. i - (k - 1) \in 1..(Len(s) - k) /\ k + (i - (k - 1)) = i + 1 /\ ~(i <= k - 1)
      BY <1>1, <2>2
    <3>2. (a \o b)[i] = b[i - (k - 1)]
      BY <1>2, <1>5, <1>6, <3>1
    <3>3. QED
      BY <1>3, <2>2, <3>1, <3>2
  <2>3. QED
    BY <2>1, <2>2
<1>8. QED
  BY <1>4, <1>5, <1>6, <1>7

\* Who gives a lock up leaves the others in the queue for it, each once.
LEMMA ReleaseOne ==
  ASSUME NEW S, NEW s \in Seq(S), IsInjective(s), NEW e
  PROVE  /\ RemoveFirst(s, e) \in Seq(S)
         /\ IsInjective(RemoveFirst(s, e))
         /\ \A n \in DOMAIN RemoveFirst(s, e) :
              RemoveFirst(s, e)[n] # e /\ \E m \in DOMAIN s : RemoveFirst(s, e)[n] = s[m]
         /\ \A m \in DOMAIN s : s[m] # e => \E n \in DOMAIN RemoveFirst(s, e) : RemoveFirst(s, e)[n] = s[m]
<1>1. Len(s) \in Nat /\ DOMAIN s = 1..Len(s)
  BY LenProperties
<1>2. CASE ~\E i \in 1..Len(s) : s[i] = e
  BY <1>1, <1>2 DEF RemoveFirst
<1>3. CASE \E i \in 1..Len(s) : s[i] = e
  <2>1. PICK k \in 1..Len(s) : s[k] = e
    BY <1>3
  <2>2. \A i \in 1..Len(s) : s[i] = e => i = k
    BY <1>1, <2>1 DEF IsInjective
  <2>3. SelectInSeq(s, LAMBDA v : v = e) = k
    <3>1. {i \in 1..Len(s) : s[i] = e} = {k}
      BY <2>1, <2>2
    <3>2. Min({k}) = k
      BY DEF Min
    <3>3. QED
      BY <3>1, <3>2 DEF SelectInSeq
  <2> DEFINE r == RemoveAt(s, k)
  <2>4. RemoveFirst(s, e) = r
    BY <1>3, <2>3 DEF RemoveFirst
  <2>5. /\ r \in Seq(S) /\ Len(r) = Len(s) - 1
        /\ \A i \in 1..(Len(s) - 1) : r[i] = IF i < k THEN s[i] ELSE s[i + 1]
    BY RemoveAtProperties
  <2> HIDE DEF r
  <2>6. DOMAIN r = 1..(Len(s) - 1)
    BY <2>5, LenProperties
  <2>7. ASSUME NEW i \in 1..(Len(s) - 1)
        PROVE  r[i] # e
    BY <1>1, <2>2, <2>5
  <2>8. ASSUME NEW i \in 1..(Len(s) - 1), NEW j \in 1..(Len(s) - 1), r[i] = r[j]
        PROVE  i = j
    <3> DEFINE p(n) == IF n < k THEN n ELSE n + 1
    <3>1. p(i) \in 1..Len(s) /\ p(j) \in 1..Len(s) /\ (p(i) = p(j) => i = j)
      BY <1>1
    <3>2. s[p(i)] = s[p(j)]
      BY <2>5, <2>8
    <3>3. \A m, n \in 1..Len(s) : s[m] = s[n] => m = n
      BY <1>1 DEF IsInjective
    <3> HIDE DEF p
    <3>4. QED
      BY <3>1, <3>2, <3>3
  <2>9. ASSUME NEW i \in 1..(Len(s) - 1)
        PROVE  \E n \in 1..Len(s) : r[i] = s[n]
    BY <1>1, <2>5
  <2>10. ASSUME NEW n \in 1..Len(s), s[n] # e
         PROVE  \E i \in 1..(Len(s) - 1) : r[i] = s[n]
    <3>1. CASE n < k
      BY <1>1, <2>5, <3>1
    <3>2. CASE n > k
      <4>1. n - 1 \in 1..(Len(s) - 1) /\ ~(n - 1 < k) /\ (n - 1) + 1 = n
        BY <1>1, <3>2
      <4>2. r[n - 1] = s[n]
        BY <2>5, <4>1
      <4>3. QED
        BY <4>1, <4>2
    <3>3. QED
      BY <1>1, <2>1, <2>10, <3>1, <3>2
  <2>11. /\ \A n \in DOMAIN r : r[n] # e /\ \E m \in DOMAIN s : r[n] = s[m]
         /\ \A m \in DOMAIN s : s[m] # e => \E n \in DOMAIN r : r[n] = s[m]
    BY <1>1, <2>6, <2>7, <2>9, <2>10
  <2>12. IsInjective(r)
    BY <2>6, <2>8 DEF IsInjective
  <2>13. QED
    BY <2>4, <2>5, <2>11, <2>12
<1>4. QED
  BY <1>2, <1>3

\* Who asks for the lock goes behind the others.
LEMMA AskOne ==
  ASSUME NEW S, NEW s \in Seq(S), IsInjective(s), NEW e \in S, \A n \in DOMAIN s : s[n] # e
  PROVE  /\ Append(s, e) \in Seq(S) /\ IsInjective(Append(s, e))
         /\ {Append(s, e)[n] : n \in DOMAIN Append(s, e)} = {s[n] : n \in DOMAIN s} \cup {e}
<1>1. Len(s) \in Nat /\ DOMAIN s = 1..Len(s)
  BY LenProperties
<1>2. /\ Append(s, e) \in Seq(S) /\ Len(Append(s, e)) = Len(s) + 1
      /\ \A i \in 1..Len(s) : Append(s, e)[i] = s[i]
      /\ Append(s, e)[Len(s) + 1] = e
  BY AppendProperties
<1>3. DOMAIN Append(s, e) = 1..(Len(s) + 1)
  BY <1>2, LenProperties
<1>4. ASSUME NEW i \in 1..(Len(s) + 1), NEW j \in 1..(Len(s) + 1), Append(s, e)[i] = Append(s, e)[j]
      PROVE  i = j
  BY <1>1, <1>2, <1>4 DEF IsInjective
<1>5. {Append(s, e)[n] : n \in DOMAIN Append(s, e)} = {s[n] : n \in DOMAIN s} \cup {e}
  <2> DEFINE r == Append(s, e)
  <2>1. Len(s) + 1 \in 1..(Len(s) + 1) /\ 1..Len(s) \subseteq 1..(Len(s) + 1)
    BY <1>1
  <2>2. \A n \in 1..(Len(s) + 1) : n \in 1..Len(s) \/ n = Len(s) + 1
    BY <1>1
  <2> HIDE DEF r
  <2>3. {r[n] : n \in 1..(Len(s) + 1)} = {s[n] : n \in 1..Len(s)} \cup {e}
    BY <1>2, <2>1, <2>2 DEF r
  <2>4. QED
    BY <1>1, <1>3, <2>3 DEF r
<1>6. QED
  BY <1>2, <1>3, <1>4, <1>5 DEF IsInjective

----------------------------------------------------------------------------
(***************************************************************************)
(* Type correctness.                                                       *)
(***************************************************************************)

\* A stream that is open has a position.
OpenInv == stream.state = "open" => stream.at # NoSeq

\* The bounds are numbers.
LEMMA Numbers == SeenCap \in Nat /\ MaxRow \in Nat /\ MaxInbox \in Nat /\ MaxDrops \in Nat /\ NoSeq \notin Nat
  BY Bounds

\* What the log has it keeps: nothing that was in its set leaves it.
LEMMA LogGrows ==
  ASSUME log \in Nat, log' \in Nat, log <= log'
  PROVE  /\ 1..log \subseteq 1..log' /\ Position0 \subseteq Position0' /\ Message \subseteq Message'
         /\ \A s \in Seq(1..log) : s \in Seq(1..log')
         /\ \A s \in Seq(Message) : s \in Seq(Message')
<1>1. 1..log \subseteq 1..log'
  OBVIOUS
<1>2. Position0 \subseteq Position0'
  BY DEF Position0
<1>3. Message \subseteq Message'
  BY DEF Message
<1>4. QED
  BY <1>1, <1>2, <1>3, SeqMonotonic

\* A message that is posted fits into the inbox of every other page.
LEMMA Posted ==
  ASSUME TypeOK, NEW t \in Tab, NEW message \in Message, Post(t, message)
  PROVE  inbox' \in [Tab -> Seq(Message)] /\ \A u \in Tab : Len(inbox'[u]) <= MaxInbox
<1>1. ASSUME NEW u \in Tab
      PROVE  /\ inbox'[u] \in Seq(Message) /\ Len(inbox'[u]) <= MaxInbox
  <2>1. inbox[u] \in Seq(Message) /\ Len(inbox[u]) <= MaxInbox /\ Len(inbox[u]) \in Nat
    BY LenProperties DEF TypeOK
  <2>2. CASE u \in Others(t)
    <3>1. Len(inbox[u]) < MaxInbox /\ inbox'[u] = Append(inbox[u], message)
      BY <2>2 DEF Post
    <3>2. Append(inbox[u], message) \in Seq(Message) /\ Len(Append(inbox[u], message)) = Len(inbox[u]) + 1
      BY <2>1, AppendProperties
    <3>3. QED
      BY <2>1, <3>1, <3>2, Numbers
  <2>3. CASE u \notin Others(t)
    BY <2>1, <2>3 DEF Post
  <2>4. QED
    BY <2>2, <2>3
<1>2. inbox' = [u \in Tab |-> inbox'[u]]
  BY DEF Post
<1>3. QED
  BY <1>1, <1>2

\* What a tab remembers never grows past its cap.
LEMMA Shifted ==
  ASSUME NEW S, NEW s \in Seq(S), Len(s) <= SeenCap + 1
  PROVE  /\ Shift(s) \in Seq(S) /\ Len(Shift(s)) <= SeenCap
         /\ Len(Shift(s)) = Len(s) \/ Len(Shift(s)) = SeenCap
         /\ \A n \in 1..Len(Shift(s)) : Shift(s)[n] = s[Len(s) - Len(Shift(s)) + n]
<1>1. Len(s) \in Nat /\ SeenCap \in Nat
  BY LenProperties, Numbers
<1>2. CASE ~(Len(s) > SeenCap)
  <2>1. Shift(s) = s
    BY <1>2 DEF Shift
  <2>2. \A n \in 1..Len(s) : Len(s) - Len(s) + n = n
    BY <1>1
  <2>3. QED
    BY <1>1, <1>2, <2>1, <2>2
<1>3. CASE Len(s) > SeenCap
  <2>1. s # << >> /\ Len(s) = SeenCap + 1
    BY <1>1, <1>3, EmptySeq
  <2>2. /\ Tail(s) \in Seq(S) /\ Len(Tail(s)) = Len(s) - 1
        /\ \A n \in 1..Len(Tail(s)) : Tail(s)[n] = s[n + 1]
    BY <2>1, HeadTailProperties
  <2>3. Shift(s) = Tail(s)
    BY <1>3 DEF Shift
  <2>4. \A n \in 1..Len(Tail(s)) : Len(s) - Len(Tail(s)) + n = n + 1
    BY <1>1, <2>2
  <2>5. Len(Tail(s)) = SeenCap
    BY <1>1, <2>1, <2>2
  <2>6. \A n \in 1..Len(Tail(s)) : Tail(s)[n] = s[Len(s) - Len(Tail(s)) + n]
    BY <2>2, <2>4
  <2>7. Len(Tail(s)) <= SeenCap
    BY <1>1, <2>5
  <2>8. Shift(s) \in Seq(S) /\ Len(Shift(s)) <= SeenCap /\ Len(Shift(s)) = SeenCap
    BY <2>2, <2>3, <2>5, <2>7
  <2>9. \A n \in 1..Len(Shift(s)) : Shift(s)[n] = s[Len(s) - Len(Shift(s)) + n]
    BY <2>3, <2>6, Zenon
  <2>10. QED
    BY <2>8, <2>9, Zenon
<1>4. QED
  BY <1>2, <1>3

\* An event that is applied is one of the log's.
LEMMA Applied ==
  ASSUME TypeOK, NEW t \in Tab, NEW seq \in 1..log, Apply(t, seq)
  PROVE  /\ list' \in [Tab -> Seq(1..log)] /\ seen' \in [Tab -> Seq(1..log)]
         /\ last' \in [Tab -> Position0]
         /\ \A u \in Tab : Len(seen'[u]) <= SeenCap
<1>1. list[t] \in Seq(1..log) /\ seen[t] \in Seq(1..log) /\ Len(seen[t]) <= SeenCap /\ Len(seen[t]) \in Nat
  BY LenProperties DEF TypeOK
<1>2. CASE ~IsNew(t, seq)
  BY <1>2 DEF Apply, TypeOK
<1>3. CASE IsNew(t, seq)
  <2>1. Append(list[t], seq) \in Seq(1..log) /\ Append(seen[t], seq) \in Seq(1..log)
        /\ Len(Append(seen[t], seq)) = Len(seen[t]) + 1
    BY <1>1, AppendProperties
  <2>2. Len(Append(seen[t], seq)) <= SeenCap + 1
    BY <1>1, <2>1, Numbers
  <2>3. Shift(Append(seen[t], seq)) \in Seq(1..log) /\ Len(Shift(Append(seen[t], seq))) <= SeenCap
    BY <2>1, <2>2, Shifted
  <2>4. seq \in Position0
    BY Numbers DEF Position0, TypeOK
  <2>5. /\ list' = [list EXCEPT ![t] = Append(list[t], seq)]
        /\ seen' = [seen EXCEPT ![t] = Shift(Append(seen[t], seq))]
        /\ last' = [last EXCEPT ![t] = seq]
    BY <1>3 DEF Apply
  <2>6. list \in [Tab -> Seq(1..log)] /\ seen \in [Tab -> Seq(1..log)] /\ last \in [Tab -> Position0]
        /\ \A u \in Tab : Len(seen[u]) <= SeenCap
    BY DEF TypeOK
  <2>7. QED
    BY <2>1, <2>3, <2>4, <2>5, <2>6
<1>4. QED
  BY <1>2, <1>3

\* A page that is shown asks for the lock.
LEMMA Asked ==
  ASSUME TypeOK, NEW t \in Tab, page[t] # "shown", page' = [page EXCEPT ![t] = "shown"],
         locks' = Append(locks, t)
  PROVE  /\ locks' \in Seq(Tab) /\ IsInjective(locks')
         /\ {locks'[n] : n \in DOMAIN locks'} = {u \in Tab : page'[u] = "shown"}
<1>1. locks \in Seq(Tab) /\ IsInjective(locks) /\ {locks[n] : n \in DOMAIN locks} = {u \in Tab : page[u] = "shown"}
  BY DEF TypeOK
<1>2. \A n \in DOMAIN locks : locks[n] # t
  BY <1>1
<1>3. /\ locks' \in Seq(Tab) /\ IsInjective(locks')
      /\ {locks'[n] : n \in DOMAIN locks'} = {locks[n] : n \in DOMAIN locks} \cup {t}
  BY <1>1, <1>2, AskOne
<1>4. {u \in Tab : page'[u] = "shown"} = {u \in Tab : page[u] = "shown"} \cup {t}
  BY DEF TypeOK
<1>5. QED
  BY <1>1, <1>3, <1>4

\* The parts of the types: who is shown and asks for the lock, what each tab
\* has and is sent, and the connection.
PagesOK == /\ page \in [Tab -> {"none", "shown", "cached"}] /\ locks \in Seq(Tab) /\ IsInjective(locks)
           /\ {locks[n] : n \in DOMAIN locks} = {t \in Tab : page[t] = "shown"}

ShownOK == /\ last \in [Tab -> Position0] /\ seen \in [Tab -> Seq(1..log)] /\ list \in [Tab -> Seq(1..log)]
           /\ \A t \in Tab : Len(seen[t]) <= SeenCap

SentOK == inbox \in [Tab -> Seq(Message)] /\ \A t \in Tab : Len(inbox[t]) <= MaxInbox

StreamOK == stream \in [state : {"closed", "asking", "open"}, url : Position0, eid : Position0, at : Position0]

FlagsOK == drops \in 0..MaxDrops /\ skipped \in BOOLEAN /\ behind \in BOOLEAN

LEMMA Parts == TypeOK <=> log \in 0..MaxRow /\ PagesOK /\ ShownOK /\ SentOK /\ StreamOK /\ FlagsOK
<1>1. TypeOK => log \in 0..MaxRow /\ PagesOK /\ ShownOK /\ SentOK /\ StreamOK /\ FlagsOK
  <2> SUFFICES ASSUME TypeOK PROVE log \in 0..MaxRow /\ PagesOK /\ ShownOK /\ SentOK /\ StreamOK /\ FlagsOK
    OBVIOUS
  <2>1. log \in 0..MaxRow /\ StreamOK /\ FlagsOK
    BY DEF TypeOK, StreamOK, FlagsOK
  <2>2. PagesOK
    BY DEF TypeOK, PagesOK
  <2>3. ShownOK /\ SentOK
    BY DEF TypeOK, ShownOK, SentOK
  <2>4. QED
    BY <2>1, <2>2, <2>3
<1>2. log \in 0..MaxRow /\ PagesOK /\ ShownOK /\ SentOK /\ StreamOK /\ FlagsOK => TypeOK
  BY DEF TypeOK, PagesOK, ShownOK, SentOK, StreamOK, FlagsOK
<1>3. QED
  BY <1>1, <1>2

\* Every step keeps the types.
LEMMA TypeStep == TypeOK /\ OpenInv /\ [Next]_vars => TypeOK'
<1> SUFFICES ASSUME TypeOK, OpenInv, [Next]_vars PROVE TypeOK'
  OBVIOUS
<1>0. log \in 0..MaxRow /\ PagesOK /\ ShownOK /\ SentOK /\ StreamOK /\ FlagsOK
  BY Parts
<1>1. log \in Nat /\ log <= MaxRow /\ NoSeq \in Position0 /\ \A n \in 0..log : n \in Position0
  BY Numbers DEF TypeOK, Position0
<1>2. ASSUME UNCHANGED <<log, page, locks>> PROVE PagesOK'
  BY <1>0, <1>2 DEF PagesOK
<1>3. ASSUME UNCHANGED <<log, last, seen, list>> PROVE ShownOK'
  BY <1>0, <1>3 DEF ShownOK, Position0
<1>4. ASSUME UNCHANGED <<log, inbox>> PROVE SentOK'
  BY <1>0, <1>4 DEF SentOK, Message
<1>5. ASSUME UNCHANGED <<log, stream>> PROVE StreamOK'
  BY <1>0, <1>5 DEF StreamOK, Position0
<1>6. ASSUME UNCHANGED <<drops, skipped, behind>> PROVE FlagsOK'
  BY <1>0, <1>6 DEF FlagsOK
<1>7. ASSUME log' \in 0..MaxRow, PagesOK', ShownOK', SentOK', StreamOK', FlagsOK' PROVE TypeOK'
  BY <1>7 DEF TypeOK, PagesOK, ShownOK, SentOK, StreamOK, FlagsOK
<1>8. ASSUME log' = log PROVE Position0' = Position0 /\ Message' = Message /\ log' \in 0..MaxRow
  BY <1>0, <1>8 DEF Position0, Message
<1>9. CASE Commit
  <2>1. log' \in Nat /\ log <= log' /\ log' \in 0..MaxRow
    BY <1>1, <1>9, Numbers DEF Commit
  <2>2. /\ Position0 \subseteq Position0' /\ \A s \in Seq(1..log) : s \in Seq(1..log')
        /\ \A s \in Seq(Message) : s \in Seq(Message')
    BY <1>1, <2>1, LogGrows
  <2>3. ShownOK'
    BY <1>0, <1>9, <2>2 DEF Commit, ShownOK
  <2>4. SentOK'
    BY <1>0, <1>9, <2>2 DEF Commit, SentOK
  <2>5. StreamOK'
    BY <1>0, <1>9, <2>2 DEF Commit, StreamOK
  <2>6. PagesOK' /\ FlagsOK'
    BY <1>0, <1>9 DEF Commit, PagesOK, FlagsOK
  <2>7. QED
    BY <1>7, <2>1, <2>3, <2>4, <2>5, <2>6
<1>10. ASSUME NEW t \in Tab, Load(t) PROVE TypeOK'
  <2>1. UNCHANGED <<log, inbox, stream, drops, skipped, behind>>
    BY <1>10 DEF Load
  <2>2. PagesOK'
    <3>1. page' \in [Tab -> {"none", "shown", "cached"}]
      BY <1>0, <1>10 DEF Load, PagesOK
    <3>2. /\ locks' \in Seq(Tab) /\ IsInjective(locks')
          /\ {locks'[n] : n \in DOMAIN locks'} = {u \in Tab : page'[u] = "shown"}
      BY <1>10, Asked DEF Load
    <3>3. QED
      BY <3>1, <3>2 DEF PagesOK
  <2>3. ShownOK'
    <3>1. << >> \in Seq(1..log) /\ Len(<< >>) <= SeenCap
      BY EmptySeq, Numbers
    <3>2. Position0' = Position0 /\ log' = log
      BY <1>8, <2>1
    <3>3. QED
      BY <1>0, <1>1, <1>10, <3>1, <3>2 DEF Load, ShownOK
  <2>4. QED
    BY <1>4, <1>5, <1>6, <1>7, <1>8, <2>1, <2>2, <2>3
<1>11. ASSUME NEW t \in Tab, Hide(t) PROVE TypeOK'
  <2>1. PICK p \in {"none", "cached"} : page' = [page EXCEPT ![t] = p]
    BY <1>11 DEF Hide
  <2>2. page' \in [Tab -> {"none", "shown", "cached"}]
    BY <1>0, <2>1 DEF PagesOK
  <2>3. {u \in Tab : page'[u] = "shown"} = {u \in Tab : page[u] = "shown"} \ {t}
    BY <1>0, <2>1 DEF PagesOK
  <2>4. locks' = RemoveFirst(locks, t)
    BY <1>11 DEF Hide, Released
  <2> DEFINE r == RemoveFirst(locks, t)
  <2>5. /\ r \in Seq(Tab) /\ IsInjective(r)
        /\ {r[n] : n \in DOMAIN r} = {locks[n] : n \in DOMAIN locks} \ {t}
    <3>1. locks \in Seq(Tab) /\ IsInjective(locks)
      BY <1>0 DEF PagesOK
    <3>2. r \in Seq(Tab) /\ IsInjective(r)
      BY <3>1, ReleaseOne
    <3>3. /\ \A n \in DOMAIN r : r[n] # t /\ \E m \in DOMAIN locks : r[n] = locks[m]
          /\ \A m \in DOMAIN locks : locks[m] # t => \E n \in DOMAIN r : r[n] = locks[m]
      BY <3>1, ReleaseOne
    <3> HIDE DEF r
    <3>4. QED
      BY <3>2, <3>3
  <2> HIDE DEF r
  <2>6. {locks[n] : n \in DOMAIN locks} = {u \in Tab : page[u] = "shown"}
    BY <1>0 DEF PagesOK
  <2>7. locks' = r
    BY <2>4 DEF r
  <2>8. PagesOK'
    BY <2>2, <2>3, <2>5, <2>6, <2>7 DEF PagesOK
  <2>9. SentOK'
    BY <1>0, <1>8, <1>11, EmptySeq, Numbers DEF Hide, SentOK
  <2>10. StreamOK'
    BY <1>0, <1>1, <1>8, <1>11 DEF Hide, Closed, StreamOK
  <2>11. UNCHANGED <<log, last, seen, list, drops, skipped, behind>>
    BY <1>11 DEF Hide
  <2>12. QED
    BY <1>3, <1>6, <1>7, <1>8, <2>8, <2>9, <2>10, <2>11
<1>12. ASSUME NEW t \in Tab, Show(t) PROVE TypeOK'
  <2>1. UNCHANGED <<log, last, seen, list, inbox, stream, drops, skipped>>
    BY <1>12 DEF Show
  <2>2. PagesOK'
    <3>1. page' \in [Tab -> {"none", "shown", "cached"}]
      BY <1>0, <1>12 DEF Show, PagesOK
    <3>2. /\ locks' \in Seq(Tab) /\ IsInjective(locks')
          /\ {locks'[n] : n \in DOMAIN locks'} = {u \in Tab : page'[u] = "shown"}
      BY <1>12, Asked DEF Show
    <3>3. QED
      BY <3>1, <3>2 DEF PagesOK
  <2>3. FlagsOK'
    BY <1>0, <1>12 DEF Show, FlagsOK
  <2>4. QED
    BY <1>3, <1>4, <1>5, <1>7, <1>8, <2>1, <2>2, <2>3
<1>13. ASSUME NEW t \in Tab, Evict(t) PROVE TypeOK'
  <2>1. UNCHANGED <<log, last, seen, list, inbox, locks, stream, drops, skipped, behind>>
    BY <1>13 DEF Evict
  <2>2. PagesOK'
    <3>1. page' \in [Tab -> {"none", "shown", "cached"}]
      BY <1>0, <1>13 DEF Evict, PagesOK
    <3>2. {u \in Tab : page'[u] = "shown"} = {u \in Tab : page[u] = "shown"}
      BY <1>0, <1>13 DEF Evict, PagesOK
    <3>3. QED
      BY <1>0, <2>1, <3>1, <3>2 DEF PagesOK
  <2>3. QED
    BY <1>3, <1>4, <1>5, <1>6, <1>7, <1>8, <2>1, <2>2
<1>14. ASSUME NEW t \in Tab, Lead(t) PROVE TypeOK'
  <2>1. UNCHANGED <<log, page, last, seen, list, inbox, locks, drops, skipped, behind>>
    BY <1>14 DEF Lead
  <2>2. StreamOK'
    <3>1. last[t] \in Position0
      BY <1>0 DEF ShownOK
    <3>2. stream' = [state |-> "asking", url |-> last[t], eid |-> NoSeq, at |-> NoSeq]
      BY <1>14 DEF Lead, After
    <3>3. QED
      BY <1>1, <1>8, <2>1, <3>1, <3>2 DEF StreamOK
  <2>3. QED
    BY <1>2, <1>3, <1>4, <1>6, <1>7, <1>8, <2>1, <2>2
<1>15. ASSUME NEW t \in Tab, Hello(t) PROVE TypeOK'
  <2> DEFINE from == IF ResumeFrom # NoSeq THEN ResumeFrom ELSE log
  <2>1. from \in 0..log
    BY <1>0, <1>1 DEF ResumeFrom, StreamOK, Position0
  <2>2. /\ stream' = [stream EXCEPT !.state = "open", !.at = from]
        /\ last' = [last EXCEPT ![t] = IF last[t] = NoSeq THEN from ELSE last[t]]
        /\ Post(t, [type |-> "hello", seq |-> from])
    BY <1>15 DEF Hello
  <2>3. UNCHANGED <<log, page, seen, list, locks, drops, behind>>
    BY <1>15 DEF Hello
  <2>4. FlagsOK'
    BY <1>0, <1>15 DEF Hello, FlagsOK
  <2> HIDE DEF from
  <2>5. StreamOK'
    BY <1>0, <1>1, <1>8, <2>1, <2>2, <2>3 DEF StreamOK
  <2>6. ShownOK'
    <3>1. last' \in [Tab -> Position0]
      BY <1>0, <1>1, <2>1, <2>2 DEF ShownOK
    <3>2. QED
      BY <1>0, <1>8, <2>3, <3>1 DEF ShownOK
  <2>7. SentOK'
    <3>1. [type |-> "hello", seq |-> from] \in Message
      BY <2>1 DEF Message
    <3>2. inbox' \in [Tab -> Seq(Message)] /\ \A u \in Tab : Len(inbox'[u]) <= MaxInbox
      BY <2>2, <3>1, Posted
    <3>3. QED
      BY <1>8, <2>3, <3>2 DEF SentOK
  <2>8. QED
    BY <1>2, <1>7, <1>8, <2>3, <2>4, <2>5, <2>6, <2>7
<1>16. ASSUME NEW t \in Tab, Event(t) PROVE TypeOK'
  <2>1. stream.at \in 0..log
    BY <1>0, <1>16 DEF Event, OpenInv, StreamOK, Position0
  <2>2. stream.at + 1 \in 1..log
    BY <1>1, <1>16, <2>1 DEF Event
  <2>3. UNCHANGED <<log, page, locks, drops, skipped, behind>>
    BY <1>16 DEF Event
  <2>4. StreamOK'
    <3>1. stream.at + 1 \in Position0
      BY <1>1, <2>2
    <3>2. stream' = [stream EXCEPT !.at = stream.at + 1, !.eid = stream.at + 1]
      BY <1>16 DEF Event
    <3>3. QED
      BY <1>0, <1>8, <2>3, <3>1, <3>2 DEF StreamOK
  <2>5. ShownOK'
    <3>1. /\ list' \in [Tab -> Seq(1..log)] /\ seen' \in [Tab -> Seq(1..log)] /\ last' \in [Tab -> Position0]
          /\ \A u \in Tab : Len(seen'[u]) <= SeenCap
      BY <1>16, <2>2, Applied DEF Event
    <3>2. QED
      BY <1>8, <2>3, <3>1 DEF ShownOK
  <2>6. SentOK'
    <3>1. [type |-> "engine", seq |-> stream.at + 1] \in Message
      BY <2>2 DEF Message
    <3>2. inbox' \in [Tab -> Seq(Message)] /\ \A u \in Tab : Len(inbox'[u]) <= MaxInbox
      BY <1>16, <3>1, Posted DEF Event
    <3>3. QED
      BY <1>8, <2>3, <3>2 DEF SentOK
  <2>7. QED
    BY <1>2, <1>6, <1>7, <1>8, <2>3, <2>4, <2>5, <2>6
<1>17. CASE Drop
  <2>1. UNCHANGED <<log, page, last, seen, list, inbox, locks, skipped, behind>>
    BY <1>17 DEF Drop
  <2>2. StreamOK'
    BY <1>0, <1>8, <1>17, <2>1 DEF Drop, StreamOK
  <2>3. FlagsOK'
    BY <1>0, <1>17, Numbers DEF Drop, FlagsOK
  <2>4. QED
    BY <1>2, <1>3, <1>4, <1>7, <1>8, <2>1, <2>2, <2>3
<1>18. ASSUME NEW t \in Tab, Receive(t) PROVE TypeOK'
  <2>1. inbox[t] \in Seq(Message) /\ inbox[t] # << >> /\ Len(inbox[t]) <= MaxInbox /\ Len(inbox[t]) \in Nat
    BY <1>0, <1>18, LenProperties DEF Receive, SentOK
  <2>2. /\ Head(inbox[t]) \in Message /\ Tail(inbox[t]) \in Seq(Message)
        /\ Len(Tail(inbox[t])) = Len(inbox[t]) - 1
    BY <2>1, HeadTailProperties
  <2>3. UNCHANGED <<log, page, locks, stream, drops, skipped, behind>>
    BY <1>18 DEF Receive
  <2>4. SentOK'
    <3>1. Len(Tail(inbox[t])) <= MaxInbox
      BY <2>1, <2>2, Numbers
    <3>2. inbox' = [inbox EXCEPT ![t] = Tail(inbox[t])]
      BY <1>18 DEF Receive
    <3>3. QED
      BY <1>0, <1>8, <2>2, <2>3, <3>1, <3>2 DEF SentOK
  <2> DEFINE message == Head(inbox[t])
  <2>5. /\ list' \in [Tab -> Seq(1..log)] /\ seen' \in [Tab -> Seq(1..log)] /\ last' \in [Tab -> Position0]
        /\ \A u \in Tab : Len(seen'[u]) <= SeenCap
    <3>1. CASE message.type = "engine"
      <4>1. message.seq \in 1..log
        BY <2>2, <3>1 DEF Message
      <4>2. Apply(t, message.seq)
        BY <1>18, <3>1 DEF Receive
      <4>3. QED
        BY <4>1, <4>2, Applied
    <3>2. CASE message.type # "engine"
      <4>1. message.seq \in Position0
        BY <1>1, <2>2 DEF Message
      <4>2. last' = [last EXCEPT ![t] = Position(t, message.seq)] /\ list' = list /\ seen' = seen
        BY <1>18, <3>2 DEF Receive
      <4>3. QED
        BY <1>0, <4>1, <4>2 DEF Position, ShownOK
    <3>3. QED
      BY <3>1, <3>2
  <2>6. ShownOK'
    BY <1>8, <2>3, <2>5 DEF ShownOK
  <2>7. QED
    BY <1>2, <1>5, <1>6, <1>7, <1>8, <2>3, <2>4, <2>6
<1>19. CASE UNCHANGED vars
  BY <1>2, <1>3, <1>4, <1>5, <1>6, <1>7, <1>8, <1>19 DEF vars
<1>20. QED
  BY <1>9, <1>10, <1>11, <1>12, <1>13, <1>14, <1>15, <1>16, <1>17, <1>18, <1>19 DEF Next

\* A stream has a position once the server has said where it starts.
LEMMA OpenStep == TypeOK /\ OpenInv /\ [Next]_vars => OpenInv'
<1> SUFFICES ASSUME TypeOK, OpenInv, [Next]_vars PROVE OpenInv'
  OBVIOUS
<1>1. stream.at \in 0..log \cup {NoSeq} /\ log \in Nat /\ DOMAIN stream = {"state", "url", "eid", "at"}
  BY DEF TypeOK, Position0
<1>2. CASE stream' = stream
  BY <1>2 DEF OpenInv
<1>3. ASSUME NEW t \in Tab, Hide(t) PROVE OpenInv'
  BY <1>3 DEF Hide, Closed, OpenInv
<1>4. ASSUME NEW t \in Tab, Lead(t) PROVE OpenInv'
  BY <1>4 DEF Lead, OpenInv
<1>5. ASSUME NEW t \in Tab, Hello(t) PROVE OpenInv'
  <2> DEFINE from == IF ResumeFrom # NoSeq THEN ResumeFrom ELSE log
  <2>1. from # NoSeq
    BY <1>1, Numbers
  <2>2. stream' = [stream EXCEPT !.state = "open", !.at = from]
    BY <1>5 DEF Hello
  <2> HIDE DEF from
  <2>3. QED
    BY <1>1, <2>1, <2>2 DEF OpenInv
<1>6. ASSUME NEW t \in Tab, Event(t) PROVE OpenInv'
  <2>1. stream.at \in 0..log
    BY <1>1, <1>6 DEF Event, OpenInv
  <2>2. stream.at + 1 # NoSeq
    BY <1>1, <2>1, Numbers
  <2>3. stream' = [stream EXCEPT !.at = stream.at + 1, !.eid = stream.at + 1]
    BY <1>6 DEF Event
  <2>4. QED
    BY <1>1, <2>2, <2>3 DEF OpenInv
<1>7. CASE Drop
  BY <1>1, <1>7 DEF Drop, OpenInv
<1>8. CASE \E t \in Tab : Load(t) \/ Show(t) \/ Evict(t) \/ Receive(t)
  BY <1>2, <1>8 DEF Load, Show, Evict, Receive
<1>9. QED
  BY <1>2, <1>3, <1>4, <1>5, <1>6, <1>7, <1>8 DEF Next, Commit, vars

LEMMA InitType == Init => TypeOK /\ OpenInv
<1> SUFFICES ASSUME Init PROVE TypeOK /\ OpenInv
  OBVIOUS
<1>1. log = 0 /\ NoSeq \in Position0
  BY DEF Init, Position0
<1>2. /\ << >> \in Seq(1..log) /\ << >> \in Seq(Message) /\ << >> \in Seq(Tab)
      /\ Len(<< >>) = 0 /\ DOMAIN << >> = {}
  BY EmptySeq
<1>3. /\ last \in [Tab -> Position0] /\ page \in [Tab -> {"none", "shown", "cached"}]
      /\ seen \in [Tab -> Seq(1..log)] /\ list \in [Tab -> Seq(1..log)] /\ inbox \in [Tab -> Seq(Message)]
  BY <1>1, <1>2 DEF Init
<1>4. \A t \in Tab : Len(inbox[t]) <= MaxInbox /\ Len(seen[t]) <= SeenCap
  BY <1>2, Numbers DEF Init
<1>5. stream \in [state : {"closed", "asking", "open"}, url : Position0, eid : Position0, at : Position0]
  BY <1>1 DEF Init, Closed
<1>6. locks \in Seq(Tab) /\ IsInjective(locks) /\ {locks[n] : n \in DOMAIN locks} = {t \in Tab : page[t] = "shown"}
  <2>1. locks = << >> /\ DOMAIN locks = {} /\ {t \in Tab : page[t] = "shown"} = {}
    BY <1>2 DEF Init
  <2>2. IsInjective(locks)
    BY <2>1 DEF IsInjective
  <2>3. {locks[n] : n \in DOMAIN locks} = {}
    BY <2>1, Zenon
  <2>4. QED
    BY <1>2, <2>1, <2>2, <2>3, Zenon
<1>7. log \in 0..MaxRow /\ drops \in 0..MaxDrops /\ skipped \in BOOLEAN /\ behind \in BOOLEAN
  <2>1. log = 0 /\ drops = 0 /\ skipped = FALSE /\ behind = FALSE
    BY DEF Init
  <2>2. 0 \in 0..MaxRow /\ 0 \in 0..MaxDrops
    BY Numbers
  <2>3. QED
    BY <2>1, <2>2
<1>8. OpenInv
  BY DEF Init, Closed, OpenInv
<1>9. QED
  BY <1>3, <1>4, <1>5, <1>6, <1>7, <1>8 DEF TypeOK

\* No position, message or tab is ahead of the log, and exactly the pages that
\* are shown ask for the lock, once, however they come, go and are cached
\* (layout.eta's lead and its pagehide and pageshow handlers).
THEOREM TabStreamTypeCorrect == Spec => []TypeOK
<1>1. Init => TypeOK /\ OpenInv
  BY InitType
<1>2. TypeOK /\ OpenInv /\ [Next]_vars => (TypeOK /\ OpenInv)'
  BY TypeStep, OpenStep
<1>3. QED
  BY <1>1, <1>2, PTL DEF Spec

----------------------------------------------------------------------------
(***************************************************************************)
(* No event is shown again within a tab's memory.                          *)
(***************************************************************************)

\* What a tab remembers is the end of what it shows: all of it, or as many as
\* it can.
Remembers(s, l) ==
  /\ Len(s) <= Len(l) /\ (Len(s) = Len(l) \/ Len(s) = SeenCap)
  /\ \A n \in 1..Len(s) : s[n] = l[Len(l) - Len(s) + n]

Once(l) == \A m, n \in 1..Len(l) : m < n /\ n - m <= SeenCap => l[m] # l[n]

SeenInv == \A t \in Tab : Remembers(seen[t], list[t]) /\ Once(list[t])

\* An event that the tab does not remember is not among the last it showed.
LEMMA ShownNext ==
  ASSUME NEW S, NEW s \in Seq(S), NEW l \in Seq(S), NEW e \in S,
         Len(s) <= SeenCap, Remembers(s, l), Once(l), ~Contains(s, e)
  PROVE  Remembers(Shift(Append(s, e)), Append(l, e)) /\ Once(Append(l, e))
<1> DEFINE s1 == Append(s, e)
           l1 == Append(l, e)
           z  == Shift(s1)
<1>1. Len(s) \in Nat /\ Len(l) \in Nat /\ SeenCap \in Nat
  BY LenProperties, Numbers
<1>2. /\ s1 \in Seq(S) /\ Len(s1) = Len(s) + 1 /\ s1[Len(s) + 1] = e
      /\ \A n \in 1..Len(s) : s1[n] = s[n]
  BY AppendProperties
<1>3. /\ l1 \in Seq(S) /\ Len(l1) = Len(l) + 1 /\ l1[Len(l) + 1] = e
      /\ \A n \in 1..Len(l) : l1[n] = l[n]
  BY AppendProperties
<1>4. Len(s1) <= SeenCap + 1
  BY <1>1, <1>2
<1>5. /\ z \in Seq(S) /\ Len(z) <= SeenCap /\ (Len(z) = Len(s1) \/ Len(z) = SeenCap)
      /\ \A n \in 1..Len(z) : z[n] = s1[Len(s1) - Len(z) + n]
  <2> HIDE DEF s1
  <2>1. QED
    BY <1>2, <1>4, Shifted
<1>6. Len(z) \in Nat /\ Len(z) <= Len(s1)
  <2>1. Len(z) \in Nat
    BY <1>5, LenProperties
  <2>2. Len(z) = Len(s1) \/ (Len(z) = SeenCap /\ Len(s1) > SeenCap)
    <3> HIDE DEF s1
    <3>1. CASE Len(s1) > SeenCap
      BY <1>1, <1>2, <1>4, <1>5, <3>1
    <3>2. CASE ~(Len(s1) > SeenCap)
      BY <3>2 DEF Shift
    <3>3. QED
      BY <3>1, <3>2
  <2> HIDE DEF s1, z
  <2>3. QED
    BY <1>1, <1>2, <2>1, <2>2
<1> HIDE DEF s1, l1, z
<1>7. /\ Len(s) <= Len(l) /\ (Len(s) = Len(l) \/ Len(s) = SeenCap)
      /\ \A n \in 1..Len(s) : s[n] = l[Len(l) - Len(s) + n]
  BY DEF Remembers
<1>8. Len(z) <= Len(l1) /\ (Len(z) = Len(l1) \/ Len(z) = SeenCap)
  BY <1>1, <1>2, <1>3, <1>5, <1>6, <1>7
<1>9. ASSUME NEW n \in 1..Len(z)
      PROVE  z[n] = l1[Len(l1) - Len(z) + n]
  <2> DEFINE k == Len(s1) - Len(z) + n
  <2>1. k \in 1..Len(s1) /\ z[n] = s1[k]
    BY <1>1, <1>2, <1>5, <1>6
  <2>2. Len(l1) - Len(z) + n = Len(l) - Len(s) + k
    BY <1>1, <1>2, <1>3, <1>6
  <2> HIDE DEF k
  <2>3. CASE k = Len(s) + 1
    <3>1. Len(l) - Len(s) + k = Len(l) + 1
      BY <1>1, <2>3
    <3>2. QED
      BY <1>2, <1>3, <2>1, <2>2, <2>3, <3>1
  <2>4. CASE k # Len(s) + 1
    <3>1. k \in 1..Len(s) /\ Len(l) - Len(s) + k \in 1..Len(l)
      BY <1>1, <1>2, <1>7, <2>1, <2>4
    <3>2. QED
      BY <1>2, <1>3, <1>7, <2>1, <2>2, <3>1
  <2>5. QED
    BY <2>3, <2>4
<1>10. ASSUME NEW m \in 1..Len(l1), NEW n \in 1..Len(l1), m < n, n - m <= SeenCap
       PROVE  l1[m] # l1[n]
  <2>1. CASE n # Len(l) + 1
    <3>1. m \in 1..Len(l) /\ n \in 1..Len(l)
      BY <1>1, <1>3, <1>10, <2>1
    <3>2. QED
      BY <1>3, <1>10, <3>1 DEF Once
  <2>2. CASE n = Len(l) + 1
    <3> DEFINE k == m - (Len(l) - Len(s))
    <3>1. m \in 1..Len(l) /\ k \in 1..Len(s) /\ Len(l) - Len(s) + k = m
      BY <1>1, <1>3, <1>7, <1>10, <2>2
    <3> HIDE DEF k
    <3>2. s[k] = l[m]
      BY <1>7, <3>1
    <3>3. s[k] # e
      BY <3>1 DEF Contains
    <3>4. QED
      BY <1>3, <2>2, <3>1, <3>2, <3>3
  <2>3. QED
    BY <2>1, <2>2
<1>11. Remembers(z, l1)
  BY <1>8, <1>9 DEF Remembers
<1>12. Once(l1)
  BY <1>10 DEF Once
<1>13. QED
  BY <1>11, <1>12 DEF z, s1, l1

\* Applying an event keeps a tab's memory true to what it shows.
LEMMA AppliedOnce ==
  ASSUME TypeOK, SeenInv, NEW t \in Tab, NEW seq \in 1..log, Apply(t, seq)
  PROVE  SeenInv'
<1>1. CASE ~IsNew(t, seq)
  BY <1>1 DEF Apply, SeenInv
<1>2. CASE IsNew(t, seq)
  <2>1. /\ list[t] \in Seq(1..log) /\ seen[t] \in Seq(1..log) /\ Len(seen[t]) <= SeenCap
        /\ list \in [Tab -> Seq(1..log)] /\ seen \in [Tab -> Seq(1..log)]
    BY DEF TypeOK
  <2>2. Remembers(Shift(Append(seen[t], seq)), Append(list[t], seq)) /\ Once(Append(list[t], seq))
    <3>1. Remembers(seen[t], list[t]) /\ Once(list[t]) /\ ~Contains(seen[t], seq)
      BY <1>2 DEF SeenInv, IsNew
    <3>2. QED
      BY <2>1, <3>1, ShownNext
  <2>3. /\ list' = [list EXCEPT ![t] = Append(list[t], seq)]
        /\ seen' = [seen EXCEPT ![t] = Shift(Append(seen[t], seq))]
    BY <1>2 DEF Apply
  <2>4. ASSUME NEW u \in Tab
        PROVE  Remembers(seen'[u], list'[u]) /\ Once(list'[u])
    <3>1. CASE u = t
      BY <2>1, <2>2, <2>3, <3>1
    <3>2. CASE u # t
      BY <2>1, <2>3, <3>2 DEF SeenInv
    <3>3. QED
      BY <3>1, <3>2
  <2>5. QED
    BY <2>4 DEF SeenInv, Remembers, Once
<1>3. QED
  BY <1>1, <1>2

\* A page that is loaded has shown nothing and remembers nothing.
LEMMA EmptyOnce == Remembers(<< >>, << >>) /\ Once(<< >>)
  BY DEF Remembers, Once

LEMMA SeenStep == TypeOK /\ OpenInv /\ SeenInv /\ [Next]_vars => SeenInv'
<1> SUFFICES ASSUME TypeOK, OpenInv, SeenInv, [Next]_vars PROVE SeenInv'
  OBVIOUS
<1>1. CASE seen' = seen /\ list' = list
  BY <1>1 DEF SeenInv, Remembers, Once
<1>2. ASSUME NEW t \in Tab, Load(t) PROVE SeenInv'
  <2>1. list \in [Tab -> Seq(1..log)] /\ seen \in [Tab -> Seq(1..log)]
    BY DEF TypeOK
  <2>2. seen' = [seen EXCEPT ![t] = << >>] /\ list' = [list EXCEPT ![t] = << >>]
    BY <1>2 DEF Load
  <2>3. ASSUME NEW u \in Tab
        PROVE  Remembers(seen'[u], list'[u]) /\ Once(list'[u])
    <3>1. CASE u = t
      BY <2>1, <2>2, <3>1, EmptyOnce
    <3>2. CASE u # t
      BY <2>1, <2>2, <3>2 DEF SeenInv
    <3>3. QED
      BY <3>1, <3>2
  <2>4. QED
    BY <2>3 DEF SeenInv, Remembers, Once
<1>3. ASSUME NEW t \in Tab, Event(t) PROVE SeenInv'
  <2>1. stream.at \in 0..log /\ log \in Nat /\ stream.at < log
    BY <1>3 DEF Event, OpenInv, TypeOK, Position0
  <2>2. stream.at + 1 \in 1..log /\ Apply(t, stream.at + 1)
    BY <1>3, <2>1 DEF Event
  <2>3. QED
    BY <2>2, AppliedOnce
<1>4. ASSUME NEW t \in Tab, Receive(t) PROVE SeenInv'
  <2> DEFINE message == Head(inbox[t])
  <2>1. inbox[t] \in Seq(Message) /\ inbox[t] # << >>
    BY <1>4 DEF Receive, TypeOK
  <2>2. message \in Message
    BY <2>1, HeadTailProperties
  <2>3. CASE message.type = "engine"
    <3>1. message.seq \in 1..log
      BY <2>2, <2>3 DEF Message
    <3>2. Apply(t, message.seq)
      BY <1>4, <2>3 DEF Receive
    <3>3. QED
      BY <3>1, <3>2, AppliedOnce
  <2>4. CASE message.type # "engine"
    BY <1>1, <1>4, <2>4 DEF Receive
  <2>5. QED
    BY <2>3, <2>4
<1>5. CASE \/ Commit \/ Drop
           \/ \E t \in Tab : Hide(t) \/ Show(t) \/ Evict(t) \/ Lead(t) \/ Hello(t)
  BY <1>1, <1>5 DEF Commit, Drop, Hide, Show, Evict, Lead, Hello
<1>6. QED
  BY <1>1, <1>2, <1>3, <1>4, <1>5 DEF Next, vars

\* What a tab shows it does not show again before it has shown SeenCap other
\* events, whichever tabs held the stream and from wherever it was opened
\* ("skip what this tab already has", layout.eta:264).
THEOREM ShownOnceAlways == Spec => []ShownOnce
<1>1. Init => TypeOK /\ OpenInv /\ SeenInv
  <2> SUFFICES ASSUME Init PROVE TypeOK /\ OpenInv /\ SeenInv
    OBVIOUS
  <2>1. TypeOK /\ OpenInv
    BY InitType
  <2>2. \A t \in Tab : seen[t] = << >> /\ list[t] = << >>
    BY DEF Init
  <2>3. SeenInv
    BY <2>2, EmptyOnce, Zenon DEF SeenInv
  <2>4. QED
    BY <2>1, <2>3
<1>2. TypeOK /\ OpenInv /\ SeenInv /\ [Next]_vars => (TypeOK /\ OpenInv /\ SeenInv)'
  BY TypeStep, OpenStep, SeenStep
<1>3. TypeOK /\ SeenInv => ShownOnce
  <2> SUFFICES ASSUME TypeOK, SeenInv PROVE ShownOnce
    OBVIOUS
  <2>1. ASSUME NEW t \in Tab
        PROVE  DOMAIN list[t] = 1..Len(list[t]) /\ Once(list[t])
    <3>1. list[t] \in Seq(1..log)
      BY DEF TypeOK
    <3>2. QED
      BY <3>1, LenProperties DEF SeenInv
  <2>2. QED
    BY <2>1, Zenon DEF ShownOnce, Once
<1>4. QED
  BY <1>1, <1>2, <1>3, PTL DEF Spec

=============================================================================
