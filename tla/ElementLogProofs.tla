-------------------------- MODULE ElementLogProofs --------------------------
(***************************************************************************)
(* Proofs about ElementLog: type correctness, that the log says what an    *)
(* instance waits on and marks where every retry begins, and that it tells *)
(* the runs of each element and what each changed as they were.            *)
(***************************************************************************)
EXTENDS ElementLog, SequenceTheorems, FiniteSetTheorems, TLAPS

----------------------------------------------------------------------------
(***************************************************************************)
(* What rows that are logged do to the waits.                              *)
(***************************************************************************)

\* A row leaves e waiting, if it does.
Keeps(row, e) == row.type # "cancel" /\ ~(row.el = e /\ row.type \in Ends)

\* Waits, one element at a time.
LEMMA WaitsOn ==
  ASSUME NEW l, NEW e \in Element
  PROVE  e \in Waits(l) <=>
           \E n \in DOMAIN l : /\ l[n].type = "wait" /\ l[n].el = e
                               /\ \A m \in DOMAIN l : m > n => Keeps(l[m], e)
  BY DEF Waits, Keeps

\* An element waits behind new rows if they say so, or if it did and they keep it.
LEMMA WaitsBehind ==
  ASSUME NEW l \in Seq(Rows), NEW r \in Seq(Rows), NEW e \in Element
  PROVE  e \in Waits(l \o r) <=>
           e \in Waits(r) \/ (e \in Waits(l) /\ \A m \in DOMAIN r : Keeps(r[m], e))
<1> DEFINE c == l \o r
<1>1. /\ Len(l) \in Nat /\ DOMAIN l = 1..Len(l) /\ Len(r) \in Nat /\ DOMAIN r = 1..Len(r)
      /\ DOMAIN c = 1..(Len(l) + Len(r))
      /\ \A i \in 1..(Len(l) + Len(r)) : c[i] = IF i <= Len(l) THEN l[i] ELSE r[i - Len(l)]
  <2>1. /\ c \in Seq(Rows) /\ Len(c) = Len(l) + Len(r)
        /\ \A i \in 1..(Len(l) + Len(r)) : c[i] = IF i <= Len(l) THEN l[i] ELSE r[i - Len(l)]
    BY ConcatProperties
  <2>2. /\ Len(l) \in Nat /\ DOMAIN l = 1..Len(l) /\ Len(r) \in Nat /\ DOMAIN r = 1..Len(r)
        /\ DOMAIN c = 1..Len(c)
    BY <2>1, LenProperties
  <2>3. QED
    BY <2>1, <2>2
<1> HIDE DEF c
<1>2. \A i \in 1..Len(l) : i \in 1..(Len(l) + Len(r)) /\ c[i] = l[i]
  BY <1>1
<1>3. ASSUME NEW i \in 1..Len(r)
      PROVE  Len(l) + i \in 1..(Len(l) + Len(r)) /\ c[Len(l) + i] = r[i]
  <2>1. Len(l) + i \in 1..(Len(l) + Len(r)) /\ ~(Len(l) + i <= Len(l)) /\ Len(l) + i - Len(l) = i
    BY <1>1
  <2>2. QED
    BY <1>1, <2>1
<1>4. \A i \in 1..(Len(l) + Len(r)) : i \in 1..Len(l) \/ \E k \in 1..Len(r) : i = Len(l) + k
  <2> TAKE i \in 1..(Len(l) + Len(r))
  <2>1. CASE i > Len(l)
    <3>1. i - Len(l) \in 1..Len(r) /\ i = Len(l) + (i - Len(l))
      BY <1>1, <2>1
    <3>2. QED
      BY <3>1
  <2>2. QED
    BY <1>1, <2>1
<1>5. ASSUME e \in Waits(c)
      PROVE  e \in Waits(r) \/ (e \in Waits(l) /\ \A m \in DOMAIN r : Keeps(r[m], e))
  <2>1. PICK n \in DOMAIN c : /\ c[n].type = "wait" /\ c[n].el = e
                              /\ \A m \in DOMAIN c : m > n => Keeps(c[m], e)
    BY <1>5, WaitsOn
  <2>2. CASE n \in 1..Len(l)
    <3>1. \A m \in DOMAIN l : m > n => Keeps(l[m], e)
      BY <1>1, <1>2, <2>1
    <3>2. e \in Waits(l)
      BY <1>1, <1>2, <2>1, <2>2, <3>1, WaitsOn
    <3>3. ASSUME NEW m \in DOMAIN r PROVE Keeps(r[m], e)
      <4>1. Len(l) + m > n /\ Len(l) + m \in DOMAIN c /\ c[Len(l) + m] = r[m]
        BY <1>1, <1>3, <2>2
      <4>2. QED
        BY <2>1, <4>1
    <3>4. QED
      BY <3>2, <3>3
  <2>3. ASSUME NEW k \in 1..Len(r), n = Len(l) + k PROVE e \in Waits(r)
    <3>1. r[k].type = "wait" /\ r[k].el = e
      BY <1>3, <2>1, <2>3
    <3>2. ASSUME NEW m \in DOMAIN r, m > k PROVE Keeps(r[m], e)
      <4>1. Len(l) + m > n /\ Len(l) + m \in DOMAIN c /\ c[Len(l) + m] = r[m]
        BY <1>1, <1>3, <2>3, <3>2
      <4>2. QED
        BY <2>1, <4>1
    <3>3. QED
      BY <1>1, <3>1, <3>2, WaitsOn
  <2>4. QED
    BY <1>1, <1>4, <2>1, <2>2, <2>3
<1>6. ASSUME e \in Waits(r) PROVE e \in Waits(c)
  <2>1. PICK k \in DOMAIN r : /\ r[k].type = "wait" /\ r[k].el = e
                              /\ \A m \in DOMAIN r : m > k => Keeps(r[m], e)
    BY <1>6, WaitsOn
  <2>2. Len(l) + k \in DOMAIN c /\ c[Len(l) + k] = r[k]
    BY <1>1, <1>3
  <2>3. ASSUME NEW m \in DOMAIN c, m > Len(l) + k PROVE Keeps(c[m], e)
    <3>1. PICK j \in 1..Len(r) : m = Len(l) + j
      BY <1>1, <1>4, <2>3
    <3>2. j > k /\ c[m] = r[j]
      BY <1>1, <1>3, <2>3, <3>1
    <3>3. QED
      BY <1>1, <2>1, <3>2
  <2>4. QED
    BY <2>1, <2>2, <2>3, WaitsOn
<1>7. ASSUME e \in Waits(l), \A m \in DOMAIN r : Keeps(r[m], e) PROVE e \in Waits(c)
  <2>1. PICK n \in DOMAIN l : /\ l[n].type = "wait" /\ l[n].el = e
                              /\ \A m \in DOMAIN l : m > n => Keeps(l[m], e)
    BY <1>7, WaitsOn
  <2>2. n \in DOMAIN c /\ c[n] = l[n]
    BY <1>1, <1>2
  <2>3. ASSUME NEW m \in DOMAIN c, m > n PROVE Keeps(c[m], e)
    <3>1. CASE m \in 1..Len(l)
      BY <1>1, <1>2, <2>1, <2>3, <3>1
    <3>2. ASSUME NEW j \in 1..Len(r), m = Len(l) + j PROVE Keeps(c[m], e)
      BY <1>1, <1>3, <1>7, <3>2
    <3>3. QED
      BY <1>1, <1>4, <3>1, <3>2
  <2>4. QED
    BY <2>1, <2>2, <2>3, WaitsOn
<1>8. QED
  BY <1>5, <1>6, <1>7 DEF c

\* Rows that neither begin nor end a wait.
Neutral == {row \in Rows : row.type \in {"start", "variables", "retry", "hole"}}

LEMMA NeutralRows ==
  ASSUME NEW l \in Seq(Rows), NEW r \in Seq(Neutral)
  PROVE  l \o r \in Seq(Rows) /\ Waits(l \o r) = Waits(l)
<1>1. Neutral \subseteq Rows
  BY DEF Neutral
<1>2. r \in Seq(Rows)
  BY <1>1, SeqMonotonic
<1>3. DOMAIN r = 1..Len(r) /\ \A n \in DOMAIN r : r[n] \in Neutral
  BY LenProperties, ElementOfSeq
<1>4. \A e \in Element : e \notin Waits(r) /\ \A m \in DOMAIN r : Keeps(r[m], e)
  BY <1>3 DEF Waits, Keeps, Neutral, Telling, Ends
<1>5. \A e \in Element : e \in Waits(l \o r) <=> e \in Waits(l)
  BY <1>2, <1>4, WaitsBehind
<1>6. Waits(l \o r) \subseteq Element /\ Waits(l) \subseteq Element
  BY DEF Waits
<1>7. QED
  BY <1>2, <1>5, <1>6, ConcatProperties

\* What one row behind the others does.
LEMMA OneRow ==
  ASSUME NEW l \in Seq(Rows), NEW row \in Rows
  PROVE  /\ <<row>> \in Seq(Rows) /\ l \o <<row>> \in Seq(Rows)
         /\ \A e \in Element :
              e \in Waits(l \o <<row>>) <=> (row.type = "wait" /\ row.el = e) \/ (e \in Waits(l) /\ Keeps(row, e))
<1> DEFINE r == <<row>>
<1>1. r \in Seq(Rows) /\ DOMAIN r = {1} /\ r[1] = row
  OBVIOUS
<1> HIDE DEF r
<1>2. \A e \in Element : e \in Waits(r) <=> row.type = "wait" /\ row.el = e
  BY <1>1 DEF Waits
<1>3. \A e \in Element : (\A m \in DOMAIN r : Keeps(r[m], e)) <=> Keeps(row, e)
  BY <1>1
<1>4. l \o r \in Seq(Rows)
  BY <1>1, ConcatProperties
<1>5. ASSUME NEW e \in Element
      PROVE  e \in Waits(l \o r) <=> (row.type = "wait" /\ row.el = e) \/ (e \in Waits(l) /\ Keeps(row, e))
  BY <1>1, <1>2, <1>3, WaitsBehind
<1>6. QED
  BY <1>1, <1>4, <1>5 DEF r

\* Rows behind rows, each at its place.
LEMMA TwoParts ==
  ASSUME NEW S, NEW s \in Seq(S), NEW t \in Seq(S)
  PROVE  /\ s \o t \in Seq(S) /\ Len(s \o t) = Len(s) + Len(t)
         /\ \A i \in 1..Len(s) : (s \o t)[i] = s[i]
         /\ \A i \in 1..Len(t) : (s \o t)[Len(s) + i] = t[i]
<1> DEFINE c == s \o t
<1>1. /\ c \in Seq(S) /\ Len(c) = Len(s) + Len(t)
      /\ \A i \in 1..(Len(s) + Len(t)) : c[i] = IF i <= Len(s) THEN s[i] ELSE t[i - Len(s)]
  BY ConcatProperties
<1>2. Len(s) \in Nat /\ Len(t) \in Nat
  BY LenProperties
<1> HIDE DEF c
<1>3. ASSUME NEW i \in 1..Len(s) PROVE c[i] = s[i]
  BY <1>1, <1>2
<1>4. ASSUME NEW i \in 1..Len(t) PROVE c[Len(s) + i] = t[i]
  <2>1. Len(s) + i \in 1..(Len(s) + Len(t)) /\ ~(Len(s) + i <= Len(s)) /\ Len(s) + i - Len(s) = i
    BY <1>2
  <2>2. QED
    BY <1>1, <2>1
<1>5. QED
  BY <1>1, <1>3, <1>4 DEF c

\* The first rows of a log.
LEMMA Prefix ==
  ASSUME NEW l \in Seq(Rows), NEW n \in 0..Len(l)
  PROVE  SubSeq(l, 1, n) \in Seq(Rows) /\ Len(SubSeq(l, 1, n)) = n /\ \A k \in 1..n : SubSeq(l, 1, n)[k] = l[k]
<1> DEFINE a == SubSeq(l, 1, n)
<1>1. Len(l) \in Nat /\ n \in Nat /\ n <= Len(l) /\ \A i \in 1..Len(l) : l[i] \in Rows
  BY LenProperties, ElementOfSeq
<1>2. /\ a \in Seq(Rows) /\ Len(a) = IF 1 <= n THEN n - 1 + 1 ELSE 0
      /\ \A i \in 1..(n - 1 + 1) : a[i] = l[1 + i - 1]
  BY <1>1, SubSeqProperties
<1> HIDE DEF a
<1>3. Len(a) = n
  BY <1>1, <1>2
<1>4. ASSUME NEW k \in 1..n PROVE a[k] = l[k]
  <2>1. k \in 1..(n - 1 + 1) /\ 1 + k - 1 = k
    BY <1>1
  <2>2. QED
    BY <1>2, <2>1
<1>5. QED
  BY <1>2, <1>3, <1>4 DEF a

\* The log with a row behind the first n.
Sew(l, n, row) == SubSeq(l, 1, n) \o <<row>> \o SubSeq(l, n + 1, Len(l))

\* The row has nothing to say of whether e waits.
Mute(row, e) == row.type # "cancel" /\ ~(row.el = e /\ row.type \in Telling)

\* A row that comes between others changes no wait it does not tell of and moves
\* no row that was written.
LEMMA Sewn ==
  ASSUME NEW l \in Seq(Rows), NEW n \in 0..Len(l), NEW row \in Rows
  PROVE  /\ Sew(l, n, row) \in Seq(Rows) /\ Len(Sew(l, n, row)) = Len(l) + 1
         /\ \A e \in Element : Mute(row, e) => (e \in Waits(Sew(l, n, row)) <=> e \in Waits(l))
         /\ \A k \in 1..n : Sew(l, n, row)[k] = l[k]
         /\ Sew(l, n, row)[n + 1] = row
<1> DEFINE a == SubSeq(l, 1, n)
           b == SubSeq(l, n + 1, Len(l))
           x == <<row>>
<1>1. Len(l) \in Nat /\ n \in Nat /\ n <= Len(l) /\ \A i \in 1..Len(l) : l[i] \in Rows
  BY LenProperties, ElementOfSeq
<1>2. a \in Seq(Rows) /\ Len(a) = n /\ \A k \in 1..n : a[k] = l[k]
  BY Prefix
<1>3. b \in Seq(Rows) /\ Len(b) = Len(l) - n
  <2>1. b \in Seq(Rows) /\ Len(b) = IF n + 1 <= Len(l) THEN Len(l) - (n + 1) + 1 ELSE 0
    BY <1>1, SubSeqProperties
  <2> HIDE DEF b
  <2>2. QED
    BY <1>1, <2>1
<1>4. a \o b = l
  <2>1. 1 \in 1..(Len(l) + 1) /\ n \in (1 - 1)..Len(l) /\ Len(l) \in n..Len(l)
    BY <1>1
  <2>2. a \o b = SubSeq(l, 1, Len(l))
    BY <2>1, ConcatAdjacentSubSeq
  <2>3. QED
    BY <2>2, SubSeqFull
<1>5. x \in Seq(Rows) /\ Len(x) = 1 /\ x[1] = row
  OBVIOUS
<1> HIDE DEF a, b, x
<1>6. /\ a \o x \in Seq(Rows) /\ Len(a \o x) = n + 1
      /\ \A i \in 1..n : (a \o x)[i] = a[i]
      /\ (a \o x)[n + 1] = row
  <2>1. /\ a \o x \in Seq(Rows) /\ Len(a \o x) = Len(a) + Len(x)
        /\ \A i \in 1..Len(a) : (a \o x)[i] = a[i]
        /\ \A i \in 1..Len(x) : (a \o x)[Len(a) + i] = x[i]
    <3>1. a \in Seq(Rows) /\ x \in Seq(Rows)
      BY <1>2, <1>5
    <3>2. /\ a \o x \in Seq(Rows) /\ Len(a \o x) = Len(a) + Len(x)
          /\ \A i \in 1..Len(a) : (a \o x)[i] = a[i]
      BY <3>1, TwoParts
    <3>3. \A i \in 1..Len(x) : (a \o x)[Len(a) + i] = x[i]
      BY <3>1, TwoParts
    <3>4. QED
      BY <3>2, <3>3
  <2>2. 1 \in 1..Len(x)
    BY <1>5
  <2>3. QED
    BY <1>2, <1>5, <2>1, <2>2
<1> DEFINE d == a \o x
<1> HIDE DEF d
<1>7. d \in Seq(Rows) /\ Len(d) = n + 1 /\ d[n + 1] = row /\ \A i \in 1..n : d[i] = a[i]
  BY <1>6 DEF d
<1>8. d \o b \in Seq(Rows) /\ Len(d \o b) = (n + 1) + (Len(l) - n) /\ \A i \in 1..(n + 1) : (d \o b)[i] = d[i]
  <2>1. /\ d \o b \in Seq(Rows) /\ Len(d \o b) = Len(d) + Len(b)
        /\ \A i \in 1..Len(d) : (d \o b)[i] = d[i]
    BY <1>3, <1>7, TwoParts
  <2>2. QED
    BY <1>3, <1>7, <2>1
<1>9. (n + 1) + (Len(l) - n) = Len(l) + 1
  BY <1>1
<1>10. \A k \in 1..n : (d \o b)[k] = l[k]
  <2> TAKE k \in 1..n
  <2>1. k \in 1..(n + 1)
    BY <1>1
  <2>2. QED
    BY <1>2, <1>7, <1>8, <2>1
<1>11. (d \o b)[n + 1] = row
  <2>1. n + 1 \in 1..(n + 1)
    BY <1>1
  <2>2. QED
    BY <1>7, <1>8, <2>1
<1>12. ASSUME NEW e \in Element, Mute(row, e) PROVE e \in Waits(d \o b) <=> e \in Waits(l)
  <2>1. e \in Waits(d) <=> e \in Waits(a)
    <3>1. e \in Waits(d) <=> (row.type = "wait" /\ row.el = e) \/ (e \in Waits(a) /\ Keeps(row, e))
      BY <1>2, OneRow DEF d, x
    <3>2. QED
      BY <1>12, <3>1 DEF Mute, Keeps, Telling
  <2>2. e \in Waits(d \o b) <=> e \in Waits(b) \/ (e \in Waits(d) /\ \A m \in DOMAIN b : Keeps(b[m], e))
    BY <1>3, <1>7, WaitsBehind
  <2>3. e \in Waits(l) <=> e \in Waits(b) \/ (e \in Waits(a) /\ \A m \in DOMAIN b : Keeps(b[m], e))
    BY <1>2, <1>3, <1>4, WaitsBehind
  <2>4. QED
    BY <2>1, <2>2, <2>3
<1>13. Sew(l, n, row) = d \o b
  BY DEF Sew, a, b, d, x
<1>14. QED
  BY <1>8, <1>9, <1>10, <1>11, <1>12, <1>13

----------------------------------------------------------------------------
(***************************************************************************)
(* The parts of the state.                                                 *)
(***************************************************************************)

States == {"idle", "started", "waiting"}

\* The log, what of it is written, and the seams of the lives that failed:
\* behind a failed life comes process.retry, or the instance is still failed, and
\* between them are late rows only.
LateTo(n, k) == \A m \in (n + 1)..k : log[m].late
SeamAt(n) == \/ \E k \in (n + 1)..flushed : log[k].type = "retry" /\ LateTo(n, k - 1)
             \/ phase = "failed" /\ LateTo(n, flushed)

LogInv ==
  /\ log \in Seq(Rows) /\ flushed \in 0..Len(log)
  /\ phase = "failed" => flushed = Len(log)
  /\ \A n \in failures : n \in 0..flushed /\ SeamAt(n)

\* What a run begins from is there when it is needed, and only then.
RunInv ==
  /\ phase \in {"new", "running", "parked", "due", "failed", "completed", "canceled"}
  /\ saved = << >> \/ saved \in [at : [Element -> States], data : Data]
  /\ (phase = "new" => saved = << >>) /\ (phase \in {"parked", "due"} => saved # << >>)
  /\ at \in [Element -> States] /\ data \in Data /\ logged \in Data
  /\ replayed \subseteq Element /\ called \in BOOLEAN /\ retriers \in 0..MaxRetriers

GhostInv ==
  /\ truth \in [Element -> Seq(Runs)] /\ began \in Data
  /\ stray \subseteq Element /\ missed \subseteq Element \cup {NoElement} /\ gap \in BOOLEAN
  /\ starts \in 0..MaxEvents /\ refused \in 0..MaxEvents /\ lost \in 0..MaxLost
  /\ late \in Nat /\ (late > 0 => lost > 0)

LEMMA Parts == LogInv /\ RunInv /\ GhostInv => TypeOK
<1> SUFFICES ASSUME LogInv, RunInv, GhostInv PROVE TypeOK
  OBVIOUS
<1>1. log \in Seq(Rows) /\ flushed \in 0..Len(log) /\ failures \subseteq 0..Len(log)
  <2>1. Len(log) \in Nat /\ log \in Seq(Rows) /\ flushed \in 0..Len(log) /\ \A n \in failures : n \in 0..flushed
    BY LenProperties DEF LogInv
  <2>2. QED
    BY <2>1
<1>2. QED
  BY <1>1 DEF RunInv, GhostInv, States, TypeOK

\* The constants are what they should be.
LEMMA Constants ==
  /\ MaxValue \in Nat /\ MaxEvents \in Nat /\ MaxLost \in Nat /\ MaxLate \in Nat /\ MaxRetriers \in Nat
  /\ Waiter \subseteq Element /\ Script \subseteq Element /\ IsFiniteSet(Element)
  /\ Empty \in Data /\ Quiet \in [Element -> States]
<1>1. MaxValue \in Nat /\ MaxEvents \in Nat /\ MaxLost \in Nat /\ MaxLate \in Nat /\ MaxRetriers \in Nat
  BY LogBounds
<1>2. 0 \in Value
  BY <1>1 DEF Value
<1>3. Empty \in Data
  BY <1>2 DEF Empty, Data
<1>4. QED
  BY <1>1, <1>3, Kinds DEF Quiet, States

LEMMA RowIn ==
  /\ \A e \in Element \cup {NoElement} :
       /\ \A type \in {"start", "variables", "cancel", "retry", "hole"} \cup Telling :
            /\ Row(type, e) \in Rows /\ Row(type, e).type = type /\ Row(type, e).el = e
            /\ [Row(type, e) EXCEPT !.late = TRUE] \in Rows
       /\ Row("start", e) \in Neutral /\ Row("retry", e) \in Neutral
       /\ \A d \in Data : Snapshot(e, d) \in Neutral
  /\ Hole \in Neutral /\ Hole.type = "hole" /\ Hole.el = NoElement
  /\ Neutral \subseteq Rows
<1>1. Empty \in Data
  BY Constants
<1>2. Neutral \subseteq Rows
  BY DEF Neutral
<1>4. ASSUME NEW e \in Element \cup {NoElement}
      PROVE  /\ \A type \in {"start", "variables", "cancel", "retry", "hole"} \cup Telling :
                  /\ Row(type, e) \in Rows /\ Row(type, e).type = type /\ Row(type, e).el = e
                  /\ [Row(type, e) EXCEPT !.late = TRUE] \in Rows
             /\ Row("start", e) \in Neutral /\ Row("retry", e) \in Neutral /\ Row("hole", e) \in Neutral
             /\ \A d \in Data : Snapshot(e, d) \in Neutral
  BY <1>1 DEF Row, Snapshot, Rows, Neutral
<1>5. Hole \in Neutral /\ Hole.type = "hole" /\ Hole.el = NoElement
  BY <1>4 DEF Hole, Row
<1>6. QED
  BY <1>2, <1>4, <1>5

\* Single rows, as they are recorded.
LEMMA SingleRows ==
  /\ \A e \in Element : \A type \in {"start", "wait", "end", "error", "discard"} :
       /\ Row(type, e) \in Rows /\ Row(type, e).type = type /\ Row(type, e).el = e
       /\ <<Row(type, e)>> \in Seq(Rows)
  /\ Snapshot(NoElement, Empty) \in Rows /\ <<Snapshot(NoElement, Empty)>> \in Seq(Rows)
<1>1. ASSUME NEW e \in Element, NEW type \in {"start", "wait", "end", "error", "discard"}
      PROVE  /\ Row(type, e) \in Rows /\ Row(type, e).type = type /\ Row(type, e).el = e
             /\ <<Row(type, e)>> \in Seq(Rows)
  <2>1. Row(type, e) \in Rows /\ Row(type, e).type = type /\ Row(type, e).el = e
    BY RowIn DEF Telling, Ends
  <2>2. QED
    BY <2>1
<1>2. Snapshot(NoElement, Empty) \in Rows
  BY Constants, RowIn
<1>3. QED
  BY <1>1, <1>2

\* Rows of which those outside K are refused.
Taken(rows, K) == [n \in DOMAIN rows |-> IF n \in K THEN rows[n] ELSE Hole]

LEMMA TakenRows ==
  ASSUME NEW rows \in Seq(Rows), NEW K
  PROVE  /\ Taken(rows, K) \in Seq(Rows) /\ Len(Taken(rows, K)) = Len(rows)
         /\ Len(rows) \in Nat /\ DOMAIN rows = 1..Len(rows)
         /\ \A n \in 1..Len(rows) : Taken(rows, K)[n] = IF n \in K THEN rows[n] ELSE Hole
<1> DEFINE w == Taken(rows, K)
           k == Len(rows)
<1>1. k \in Nat /\ DOMAIN rows = 1..k /\ \A n \in 1..k : rows[n] \in Rows
  BY LenProperties, ElementOfSeq
<1>2. Hole \in Rows
  BY RowIn
<1> HIDE DEF k
<1>3. w = [n \in 1..k |-> IF n \in K THEN rows[n] ELSE Hole]
  BY <1>1 DEF Taken
<1>4. w \in [1..k -> Rows]
  BY <1>1, <1>2, <1>3
<1> HIDE DEF w
<1>5. w \in Seq(Rows) /\ Len(w) = k
  BY <1>1, <1>4
<1>6. \A n \in 1..k : w[n] = IF n \in K THEN rows[n] ELSE Hole
  BY <1>3
<1>7. QED
  BY <1>1, <1>5, <1>6 DEF w, k

\* Rows that agree on e, none of them a cancel, leave it waiting alike.
LEMMA SameTelling ==
  ASSUME NEW l \in Seq(Rows), NEW r \in Seq(Rows), NEW w \in Seq(Rows), Len(w) = Len(r), NEW e \in Element,
         \A n \in 1..Len(r) : r[n].type # "cancel" /\ (w[n] = r[n] \/ (w[n] = Hole /\ Mute(r[n], e)))
  PROVE  e \in Waits(l \o w) <=> e \in Waits(l \o r)
<1>1. DOMAIN r = 1..Len(r) /\ DOMAIN w = 1..Len(r)
  BY LenProperties
<1>2. Hole.type = "hole" /\ Keeps(Hole, e)
  BY RowIn DEF Keeps, Ends
<1>3. \A n \in 1..Len(r) : /\ Keeps(w[n], e) <=> Keeps(r[n], e)
                           /\ (w[n].type = "wait" /\ w[n].el = e) <=> (r[n].type = "wait" /\ r[n].el = e)
  <2> TAKE n \in 1..Len(r)
  <2>1. CASE w[n] = r[n]
    BY <2>1
  <2>2. CASE w[n] = Hole /\ Mute(r[n], e)
    <3>1. Keeps(r[n], e) /\ ~(r[n].type = "wait" /\ r[n].el = e)
      BY <2>2 DEF Mute, Keeps, Telling
    <3>2. QED
      BY <1>2, <2>2, <3>1
  <2>3. QED
    BY <2>1, <2>2
<1>4. e \in Waits(w) <=> e \in Waits(r)
  BY <1>1, <1>3, WaitsOn
<1>5. QED
  BY <1>1, <1>3, <1>4, WaitsBehind

\* The rows of an element that ends: its end, and snapshots of which the last has
\* the data it leaves.
Ending(e, mine, v) == <<Row("end", e)>> \o EndSnapshots(e, mine, v)

IsEnding(rows, e, mine, v) ==
  /\ rows \in Seq(Rows) /\ Len(rows) \in Nat \ {0} /\ rows[1] = Row("end", e)
  /\ \A n \in 1..Len(rows) : rows[n].el = e /\ rows[n].type = IF n = 1 THEN "end" ELSE "variables"
  /\ Len(rows) = 1 => logged = mine /\ mine = [mine EXCEPT ![e] = v]
  /\ Len(rows) > 1 => rows[Len(rows)].data = [mine EXCEPT ![e] = v]

LEMMA EndRowsAre ==
  ASSUME RunInv, NEW e \in Element, NEW mine \in Data, NEW v \in Value
  PROVE  IsEnding(Ending(e, mine, v), e, mine, v)
<1> DEFINE row == Row("end", e)
           now == [mine EXCEPT ![e] = v]
           s1 == Snapshot(e, mine)
           s2 == Snapshot(e, now)
           a == SnapshotOf(e, logged, mine)
           b == SnapshotOf(e, mine, now)
           y == a \o b
           rows == <<row>> \o y
<1>1. /\ row \in Rows /\ s1 \in Rows /\ s2 \in Rows
      /\ s1.type = "variables" /\ s1.el = e /\ s1.data = mine
      /\ s2.type = "variables" /\ s2.el = e /\ s2.data = now
  <2>1. now \in Data
    BY DEF Data
  <2>2. row \in Rows /\ s1 \in Neutral /\ s2 \in Neutral
    BY <2>1, SingleRows, RowIn
  <2> HIDE DEF now
  <2>3. QED
    BY <2>2, RowIn DEF Snapshot
<1>2. /\ logged = mine => a = << >>
      /\ logged # mine => a = <<s1>>
      /\ mine = now => b = << >>
      /\ mine # now => b = <<s2>>
  BY DEF SnapshotOf
<1> HIDE DEF row, s1, s2, now, a, b
<1>3. a \in Seq(Rows) /\ b \in Seq(Rows)
  <2>1. << >> \in Seq(Rows) /\ <<s1>> \in Seq(Rows) /\ <<s2>> \in Seq(Rows)
    BY <1>1, EmptySeq
  <2>2. QED
    BY <1>2, <2>1
<1>4. /\ y \in Seq(Rows) /\ Len(y) = Len(a) + Len(b)
      /\ \A n \in 1..Len(a) : y[n] = a[n]
      /\ \A n \in 1..Len(b) : y[Len(a) + n] = b[n]
  <2>1. y \in Seq(Rows) /\ Len(y) = Len(a) + Len(b) /\ \A n \in 1..Len(a) : y[n] = a[n]
    BY <1>3, TwoParts
  <2>2. \A n \in 1..Len(b) : y[Len(a) + n] = b[n]
    BY <1>3, TwoParts
  <2>3. QED
    BY <2>1, <2>2
<1>5. Len(a) = (IF logged = mine THEN 0 ELSE 1) /\ Len(b) = (IF mine = now THEN 0 ELSE 1)
  BY <1>2
<1> HIDE DEF y
<1>6. /\ Len(y) \in Nat
      /\ \A n \in 1..Len(y) : y[n].type = "variables" /\ y[n].el = e
      /\ Len(y) = 0 => logged = mine /\ mine = now
      /\ Len(y) > 0 => y[Len(y)].data = now
  <2>1. CASE logged = mine /\ mine = now
    BY <1>4, <1>5, <2>1
  <2>2. CASE logged = mine /\ mine # now
    <3>1. b[1] = s2 /\ Len(a) = 0 /\ Len(b) = 1
      BY <1>2, <1>5, <2>2
    <3>2. Len(y) = 1 /\ y[1] = s2
      <4>1. 1 \in 1..Len(b) /\ Len(a) + 1 = 1
        BY <3>1
      <4>2. y[Len(a) + 1] = b[1]
        BY <1>4, <4>1
      <4>3. QED
        BY <1>4, <3>1, <4>1, <4>2
    <3>3. QED
      BY <1>1, <3>2
  <2>3. CASE logged # mine /\ mine = now
    <3>1. a[1] = s1 /\ Len(a) = 1 /\ Len(b) = 0
      BY <1>2, <1>5, <2>3
    <3>2. Len(y) = 1 /\ y[1] = s1
      BY <1>4, <3>1
    <3>3. QED
      BY <1>1, <2>3, <3>2
  <2>4. CASE logged # mine /\ mine # now
    <3>1. a[1] = s1 /\ Len(a) = 1 /\ b[1] = s2 /\ Len(b) = 1
      BY <1>2, <1>5, <2>4
    <3>2. Len(y) = 2 /\ y[1] = s1 /\ y[2] = s2
      <4>1. 1 \in 1..Len(b) /\ Len(a) + 1 = 2 /\ 1 \in 1..Len(a)
        BY <3>1
      <4>2. y[Len(a) + 1] = b[1] /\ y[1] = a[1]
        BY <1>4, <4>1
      <4>3. QED
        BY <1>4, <3>1, <4>1, <4>2
    <3>3. QED
      BY <1>1, <3>2
  <2>5. QED
    BY <2>1, <2>2, <2>3, <2>4
<1>7. /\ rows \in Seq(Rows) /\ Len(rows) = 1 + Len(y) /\ rows[1] = row
      /\ \A n \in 1..Len(y) : rows[1 + n] = y[n]
  <2> DEFINE x == <<row>>
  <2>1. x \in Seq(Rows) /\ Len(x) = 1 /\ x[1] = row
    BY <1>1
  <2> HIDE DEF x
  <2>2. x \in Seq(Rows) /\ y \in Seq(Rows)
    BY <1>4, <2>1
  <2>3. x \o y \in Seq(Rows) /\ Len(x \o y) = Len(x) + Len(y)
    BY <2>2, TwoParts
  <2>4. \A n \in 1..Len(x) : (x \o y)[n] = x[n]
    BY <2>2, TwoParts
  <2>5. \A n \in 1..Len(y) : (x \o y)[Len(x) + n] = y[n]
    BY <2>2, TwoParts
  <2>6. 1 \in 1..Len(x)
    BY <2>1
  <2>7. QED
    BY <2>1, <2>3, <2>4, <2>5, <2>6 DEF x
<1> HIDE DEF rows
<1>8. /\ Len(rows) \in Nat \ {0}
      /\ \A n \in 2..Len(rows) : rows[n].type = "variables" /\ rows[n].el = e
      /\ Len(rows) = 1 => logged = mine /\ mine = now
      /\ Len(rows) > 1 => rows[Len(rows)].data = now
  <2>1. ASSUME NEW n \in 2..Len(rows) PROVE rows[n] = y[n - 1] /\ n - 1 \in 1..Len(y)
    <3>1. n - 1 \in 1..Len(y) /\ 1 + (n - 1) = n
      BY <1>6, <1>7
    <3>2. rows[1 + (n - 1)] = y[n - 1]
      BY <1>7, <3>1
    <3>3. QED
      BY <3>1, <3>2
  <2>2. Len(rows) > 1 => Len(rows) \in 2..Len(rows) /\ Len(rows) - 1 = Len(y) /\ Len(y) > 0
    BY <1>6, <1>7
  <2>3. Len(rows) \in Nat \ {0} /\ (Len(rows) = 1 => Len(y) = 0)
    BY <1>6, <1>7
  <2>4. QED
    BY <1>6, <2>1, <2>2, <2>3
<1>9. row.type = "end" /\ row.el = e
  BY SingleRows DEF row
<1>10. \A n \in 1..Len(rows) : rows[n].el = e /\ rows[n].type = IF n = 1 THEN "end" ELSE "variables"
  <2>1. \A n \in 1..Len(rows) : n = 1 \/ n \in 2..Len(rows)
    BY <1>8
  <2>2. QED
    BY <1>7, <1>8, <1>9, <2>1
<1>11. IsEnding(rows, e, mine, v)
  BY <1>7, <1>8, <1>10 DEF IsEnding, row, now
<1>12. QED
  BY <1>11 DEF rows, y, a, b, row, now, EndSnapshots, Ending

\* What is recorded: the rows in their order, holes for those refused, and of
\* these what the ghosts say.
Written(w, rows, S) ==
  /\ log' = log \o w /\ Len(w) = Len(rows) /\ Len(rows) \in Nat
  /\ \A n \in 1..Len(rows) :
       \/ w[n] = rows[n]
       \/ /\ w[n] = Hole /\ (lost = 0 => rows[n].el \in missed')
          /\ rows[n].type \in Telling => rows[n].el \in stray'
  /\ \A e \in S \ stray' : \E n \in 1..Len(rows) : rows[n].el = e /\ rows[n].type \in Telling
  /\ \A e \in stray' : e \in S \/ \E n \in 1..Len(rows) :
                        /\ rows[n].el = e /\ rows[n].type \in Telling /\ (lost = 0 => e \in missed')
  /\ \A e \in missed' : e \in missed \/ \E n \in 1..Len(rows) : rows[n].el = e
  /\ missed \subseteq missed'
  /\ lost = 0 /\ ~gap' =>
       IF \A n \in 1..Len(rows) : rows[n].type # "variables" THEN ~gap
       ELSE \A n \in 1..Len(rows) :
              rows[n].type = "variables" /\ (\A m \in 1..Len(rows) : rows[m].type = "variables" => m <= n)
                => w[n] = rows[n]
  /\ gap \in BOOLEAN => gap' \in BOOLEAN
  /\ refused' \in {refused, refused + 1} /\ (refused' # refused => MoreEvents)

LEMMA Recorded ==
  ASSUME NEW rows \in Seq(Rows), NEW S, Record(rows, S)
  PROVE  \E w \in Seq(Rows) : Written(w, rows, S)
<1> DEFINE D == DOMAIN rows
           tell == {n \in D : rows[n].type \in Telling}
           snapshots == {n \in D : rows[n].type = "variables"}
<1>1. PICK K \in SUBSET D :
        /\ Insert(rows, K)
        /\ stray' = (S \ {rows[n].el : n \in tell}) \cup {rows[n].el : n \in tell \cap (D \ K)}
        /\ missed' = IF lost > 0 THEN missed ELSE missed \cup {rows[n].el : n \in D \ K}
        /\ gap' = IF lost > 0 \/ snapshots = {} THEN gap
                  ELSE \E n \in snapshots \cap (D \ K) : \A m \in snapshots : m <= n
  BY DEF Record
<1> DEFINE w == Taken(rows, K)
<1>2. /\ w \in Seq(Rows) /\ Len(w) = Len(rows) /\ Len(rows) \in Nat /\ D = 1..Len(rows)
      /\ \A n \in 1..Len(rows) : w[n] = IF n \in K THEN rows[n] ELSE Hole
  BY TakenRows
<1>3. log' = log \o w /\ refused' \in {refused, refused + 1} /\ (refused' # refused => MoreEvents)
  BY <1>1 DEF Insert, Taken
<1> HIDE DEF w, D
<1>4. \A n \in 1..Len(rows) :
        \/ w[n] = rows[n]
        \/ /\ w[n] = Hole /\ (lost = 0 => rows[n].el \in missed')
           /\ rows[n].type \in Telling => rows[n].el \in stray'
  BY <1>1, <1>2
<1>5. \A e \in S \ stray' : \E n \in 1..Len(rows) : rows[n].el = e /\ rows[n].type \in Telling
  BY <1>1, <1>2
<1>6. \A e \in stray' : e \in S \/ \E n \in 1..Len(rows) :
                        /\ rows[n].el = e /\ rows[n].type \in Telling /\ (lost = 0 => e \in missed')
  BY <1>1, <1>2
<1>7. missed \subseteq missed' /\ \A e \in missed' : e \in missed \/ \E n \in 1..Len(rows) : rows[n].el = e
  BY <1>1, <1>2
<1>8. ASSUME lost = 0, ~gap'
      PROVE  IF \A n \in 1..Len(rows) : rows[n].type # "variables" THEN ~gap
             ELSE \A n \in 1..Len(rows) :
                    rows[n].type = "variables" /\ (\A m \in 1..Len(rows) : rows[m].type = "variables" => m <= n)
                      => w[n] = rows[n]
  <2>1. snapshots = {} <=> \A n \in 1..Len(rows) : rows[n].type # "variables"
    BY <1>2
  <2>2. CASE snapshots = {}
    BY <1>1, <1>8, <2>1, <2>2
  <2>3. CASE snapshots # {}
    <3>1. \A n \in snapshots \cap (D \ K) : ~\A m \in snapshots : m <= n
      BY <1>1, <1>8, <2>3
    <3>2. ASSUME NEW n \in 1..Len(rows), rows[n].type = "variables",
                 \A m \in 1..Len(rows) : rows[m].type = "variables" => m <= n
          PROVE  w[n] = rows[n]
      <4>1. n \in snapshots /\ \A m \in snapshots : m <= n
        BY <1>2, <3>2
      <4>2. n \in K
        BY <3>1, <4>1
      <4>3. QED
        BY <1>2, <4>2
    <3>3. QED
      BY <2>1, <2>3, <3>2
  <2>4. QED
    BY <2>2, <2>3
<1>9. gap \in BOOLEAN => gap' \in BOOLEAN
  <2>1. gap' = gap \/ gap' = \E n \in snapshots \cap (D \ K) : \A m \in snapshots : m <= n
    BY <1>1
  <2>2. QED
    BY <1>1
<1>10. Written(w, rows, S)
  BY <1>2, <1>3, <1>4, <1>5, <1>6, <1>7, <1>8, <1>9 DEF Written
<1>11. QED
  BY <1>2, <1>10

LEMMA Snapshots ==
  ASSUME RunInv, NEW e \in Element, NEW mine \in Data, NEW v \in Value
  PROVE  EndSnapshots(e, mine, v) \in Seq(Neutral)
<1>1. logged \in Data /\ [mine EXCEPT ![e] = v] \in Data
  BY DEF RunInv, Data
<1>2. ASSUME NEW was \in Data, NEW now \in Data
      PROVE  SnapshotOf(e, was, now) \in Seq(Neutral)
  <2>1. Snapshot(e, now) \in Neutral
    BY RowIn
  <2>2. << >> \in Seq(Neutral) /\ <<Snapshot(e, now)>> \in Seq(Neutral)
    BY <2>1, EmptySeq
  <2>3. QED
    BY <2>2 DEF SnapshotOf
<1>3. QED
  BY <1>1, <1>2, ConcatProperties DEF EndSnapshots

\* What an element leaves is data.
LEMMA LeftIn ==
  ASSUME RunInv, NEW e \in Element
  PROVE  Left(e) \subseteq Data
  BY DEF RunInv, Left, Data

\* Elements in some order are as many rows, each for one of them.
LEMMA OrderRows ==
  ASSUME NEW S \in SUBSET Element, NEW order \in Orders(S)
  PROVE  /\ [n \in DOMAIN order |-> Row("wait", order[n])] \in Seq(Rows)
         /\ \A n \in DOMAIN order : order[n] \in S
         /\ \A e \in S : \E n \in DOMAIN order : order[n] = e
<1>1. IsFiniteSet(S)
  BY Constants, FS_Subset
<1>2. Cardinality(S) \in Nat
  BY <1>1, FS_CardinalityType
<1>3. order \in [1..Cardinality(S) -> S] /\ \A e \in S : \E n \in DOMAIN order : order[n] = e
  BY DEF Orders
<1>4. \A e \in S : Row("wait", e) \in Rows
  BY RowIn DEF Telling
<1> DEFINE k == Cardinality(S)
           rows == [n \in 1..k |-> Row("wait", order[n])]
<1>5. k \in Nat /\ \A n \in 1..k : Row("wait", order[n]) \in Rows
  BY <1>2, <1>3, <1>4
<1> HIDE DEF k
<1>6. rows \in Seq(Rows)
  BY <1>5
<1>7. rows = [n \in DOMAIN order |-> Row("wait", order[n])]
  BY <1>3 DEF k
<1>8. QED
  BY <1>3, <1>6, <1>7

\* The rows of an element that ends.
LEMMA EndRows ==
  ASSUME RunInv, log \in Seq(Rows), NEW e \in Element, NEW mine \in Data, NEW v \in Value
  PROVE  /\ <<Row("end", e)>> \o EndSnapshots(e, mine, v) \in Seq(Rows)
         /\ Waits(log \o (<<Row("end", e)>> \o EndSnapshots(e, mine, v))) = Waits(log) \ {e}
<1> DEFINE x == <<Row("end", e)>>
           y == EndSnapshots(e, mine, v)
<1>1. Row("end", e) \in Rows /\ Neutral \subseteq Rows
  BY RowIn DEF Telling, Ends
<1>2. y \in Seq(Neutral)
  BY Snapshots
<1>3. y \in Seq(Rows)
  BY <1>1, <1>2, SeqMonotonic
<1>4. x \in Seq(Rows) /\ log \o x \in Seq(Rows)
      /\ \A d \in Element : d \in Waits(log \o x) <=>
           (Row("end", e).type = "wait" /\ Row("end", e).el = d) \/ (d \in Waits(log) /\ Keeps(Row("end", e), d))
  BY <1>1, OneRow
<1>5. \A d \in Element : d \in Waits(log \o x) <=> d \in Waits(log) /\ d # e
  BY <1>4 DEF Row, Keeps, Ends
<1> HIDE DEF x, y
<1>6. Waits((log \o x) \o y) = Waits(log \o x)
  BY <1>2, <1>4, NeutralRows
<1>7. (log \o x) \o y = log \o (x \o y)
  BY <1>3, <1>4, ConcatAssociative
<1>8. Waits(log \o x) = Waits(log) \ {e}
  BY <1>5 DEF Waits
<1>9. x \o y \in Seq(Rows)
  BY <1>3, <1>4, ConcatProperties
<1>10. QED
  BY <1>6, <1>7, <1>8, <1>9 DEF x, y

----------------------------------------------------------------------------
(***************************************************************************)
(* The log and its seams.                                                  *)
(***************************************************************************)

\* A seam stays as long as no written row moves.
LEMMA SeamStays ==
  ASSUME NEW n \in Nat, flushed \in Nat, flushed' \in Nat, flushed <= flushed', SeamAt(n), n <= flushed,
         \A m \in 1..flushed : log'[m] = log[m], phase # "failed"
  PROVE  n \in 0..flushed' /\ SeamAt(n)'
<1>1. PICK k \in (n + 1)..flushed : log[k].type = "retry" /\ LateTo(n, k - 1)
  BY DEF SeamAt
<1>2. k \in (n + 1)..flushed' /\ log'[k].type = "retry"
  <2>1. k \in 1..flushed /\ k \in (n + 1)..flushed'
    OBVIOUS
  <2>2. QED
    BY <1>1, <2>1
<1>3. \A m \in (n + 1)..(k - 1) : log'[m].late
  <2> TAKE m \in (n + 1)..(k - 1)
  <2>1. m \in 1..flushed
    OBVIOUS
  <2>2. QED
    BY <1>1, <2>1 DEF LateTo
<1>4. QED
  BY <1>2, <1>3 DEF SeamAt, LateTo

\* Rows that a run captures move no seam; where a life fails its last row is
\* the last one written.
LEMMA Captured ==
  ASSUME LogInv, phase # "failed", NEW rows \in Seq(Rows), log' = log \o rows,
         flushed' \in {flushed, Len(log')},
         \/ failures' = failures /\ phase' # "failed"
         \/ failures' = failures \cup {Len(log')} /\ phase' = "failed" /\ flushed' = Len(log')
  PROVE  LogInv'
<1>1. /\ log' \in Seq(Rows) /\ Len(log') = Len(log) + Len(rows)
      /\ \A i \in 1..Len(log) : log'[i] = log[i]
  BY TwoParts DEF LogInv
<1>2. Len(log) \in Nat /\ Len(rows) \in Nat /\ flushed \in 0..Len(log)
  BY LenProperties DEF LogInv
<1>3. flushed' \in 0..Len(log') /\ flushed <= flushed'
  BY <1>1, <1>2
<1>4. ASSUME NEW n \in failures PROVE n \in 0..flushed' /\ SeamAt(n)'
  <2>1. n \in 0..flushed
    BY DEF LogInv
  <2>2. \A m \in 1..flushed : log'[m] = log[m]
    BY <1>1, <1>2
  <2>3. n \in Nat /\ n <= flushed /\ flushed \in Nat /\ flushed' \in Nat /\ SeamAt(n)
    BY <1>1, <1>2, <1>3, <2>1 DEF LogInv
  <2>4. QED
    BY <1>3, <2>2, <2>3, SeamStays
<1>5. ASSUME NEW n \in failures' PROVE n \in 0..flushed' /\ SeamAt(n)'
  <2>1. CASE n \in failures
    BY <1>4, <2>1
  <2>2. CASE n \notin failures
    <3>1. n = flushed' /\ phase' = "failed"
      BY <1>5, <2>2
    <3>2. QED
      BY <1>2, <1>3, <3>1 DEF SeamAt, LateTo
  <2>3. QED
    BY <2>1, <2>2
<1>6. QED
  BY <1>1, <1>3, <1>5 DEF LogInv

LEMMA SameLog ==
  ASSUME LogInv, log' = log, flushed' = flushed, failures' = failures, phase' = phase
  PROVE  LogInv'
  BY DEF LogInv, SeamAt, LateTo

\* A row that comes behind the written ones leaves the seams where they are, and
\* a failed instance has only late rows behind its last one until it is retried.
LEMMA RowBetween ==
  ASSUME LogInv, NEW n \in flushed..Len(log), NEW row \in Rows, Between(n, row), failures' = failures,
         \/ row.type = "retry" /\ phase' # "failed"
         \/ row.late /\ phase' = phase
  PROVE  LogInv'
<1>1. log \in Seq(Rows) /\ Len(log) \in Nat /\ flushed \in 0..Len(log) /\ n \in 0..Len(log) /\ flushed <= n
  BY LenProperties DEF LogInv
<1>2. log' = Sew(log, n, row) /\ flushed' = n + 1
  BY DEF Between, Sew
<1>3. /\ log' \in Seq(Rows) /\ Len(log') = Len(log) + 1 /\ log'[n + 1] = row
      /\ \A k \in 1..n : log'[k] = log[k]
  <2>1. log' \in Seq(Rows) /\ Len(log') = Len(log) + 1 /\ log'[n + 1] = row
    BY <1>1, <1>2, Sewn
  <2>2. \A k \in 1..n : log'[k] = log[k]
    BY <1>1, <1>2, Sewn
  <2>3. QED
    BY <2>1, <2>2
<1>4. \A k \in 1..flushed : log'[k] = log[k]
  BY <1>1, <1>3
<1>5. ASSUME NEW k \in failures PROVE k \in 0..flushed' /\ SeamAt(k)'
  <2>1. k \in 0..flushed /\ SeamAt(k)
    BY DEF LogInv
  <2>2. k \in 0..flushed' /\ flushed' \in Nat /\ k \in Nat
    BY <1>1, <1>2, <2>1
  <2>3. CASE \E m \in (k + 1)..flushed : log[m].type = "retry" /\ LateTo(k, m - 1)
    <3>1. PICK m \in (k + 1)..flushed : log[m].type = "retry" /\ LateTo(k, m - 1)
      BY <2>3
    <3>2. m \in (k + 1)..flushed' /\ m \in 1..flushed
      BY <1>1, <1>2, <2>2
    <3>3. \A x \in (k + 1)..(m - 1) : x \in 1..flushed
      BY <1>1, <2>2
    <3>4. LateTo(k, m - 1)' /\ log'[m].type = "retry"
      BY <1>4, <3>1, <3>2, <3>3 DEF LateTo
    <3>5. QED
      BY <2>2, <3>2, <3>4 DEF SeamAt
  <2>4. CASE phase = "failed" /\ LateTo(k, flushed)
    <3>1. n = flushed /\ n \in Nat
      BY <1>1, <2>4 DEF LogInv
    <3>2. \A x \in (k + 1)..n : log'[x].late
      <4>1. \A x \in (k + 1)..n : x \in 1..n
        BY <2>2, <3>1
      <4>2. QED
        BY <1>3, <2>4, <3>1, <4>1 DEF LateTo
    <3>3. CASE row.type = "retry"
      <4>1. n + 1 \in (k + 1)..flushed' /\ n + 1 - 1 = n
        BY <1>1, <1>2, <2>1, <3>1
      <4>2. QED
        BY <1>3, <2>2, <3>2, <3>3, <4>1 DEF SeamAt, LateTo
    <3>4. CASE row.late /\ phase' = phase
      <4>1. \A x \in (k + 1)..flushed' : x \in (k + 1)..n \/ x = n + 1
        BY <1>2, <2>2, <3>1
      <4>2. LateTo(k, flushed)'
        BY <1>3, <3>2, <3>4, <4>1 DEF LateTo
      <4>3. QED
        BY <2>2, <2>4, <3>4, <4>2 DEF SeamAt
    <3>5. QED
      BY <3>3, <3>4
  <2>5. QED
    BY <2>1, <2>3, <2>4 DEF SeamAt
<1>6. flushed' \in 0..Len(log') /\ (phase' = "failed" => flushed' = Len(log'))
  BY <1>1, <1>2, <1>3 DEF LogInv
<1>7. QED
  BY <1>3, <1>5, <1>6 DEF LogInv

LEMMA LogStep == LogInv /\ RunInv /\ [Next]_vars => LogInv'
<1> SUFFICES ASSUME LogInv, RunInv, [Next]_vars PROVE LogInv'
  OBVIOUS
<1>1. log \in Seq(Rows) /\ Len(log) \in Nat /\ flushed \in 0..Len(log)
  BY LenProperties DEF LogInv
<1>2. << >> \in Seq(Rows) /\ log \o << >> = log
  BY <1>1, EmptySeq, ConcatEmptySeq
\* A run that goes on records rows.
<1>3. ASSUME NEW rows \in Seq(Rows), NEW S, Record(rows, S), phase # "failed", phase' # "failed",
             flushed' = flushed, failures' = failures
      PROVE  LogInv'
  <2>1. PICK w \in Seq(Rows) : log' = log \o w
    BY <1>3, Recorded DEF Written
  <2>2. QED
    BY <1>3, <2>1, Captured
<1>4. CASE Begin
  <2>1. <<Snapshot(NoElement, Empty)>> \in Seq(Rows)
    BY SingleRows
  <2>2. QED
    BY <1>3, <1>4, <2>1 DEF Begin
<1>5. CASE Resume
  <2>1. PICK order \in Orders(ParkedOn(saved.at) \ Known(log)) :
          Record([n \in DOMAIN order |-> Row("wait", order[n])], stray \ ParkedOn(saved.at))
    BY <1>5 DEF Resume
  <2> DEFINE rows == [n \in DOMAIN order |-> Row("wait", order[n])]
  <2>2. rows \in Seq(Rows)
    <3>1. ParkedOn(saved.at) \ Known(log) \in SUBSET Element
      BY DEF ParkedOn
    <3>2. QED
      BY <3>1, OrderRows
  <2>3. phase # "failed" /\ phase' # "failed" /\ flushed' = flushed /\ failures' = failures
    BY <1>5 DEF Resume
  <2> HIDE DEF rows
  <2>4. Record(rows, stray \ ParkedOn(saved.at))
    BY <2>1 DEF rows
  <2>5. QED
    BY <1>3, <2>2, <2>3, <2>4
<1>6. ASSUME NEW e \in Element, Start(e) PROVE LogInv'
  <2>1. <<Row("start", e)>> \in Seq(Rows)
    BY RowIn
  <2>2. QED
    BY <1>3, <1>6, <2>1 DEF Start
<1>7. ASSUME NEW e \in Element, Wait(e) PROVE LogInv'
  <2>1. <<Row("wait", e)>> \in Seq(Rows)
    BY SingleRows
  <2>2. PICK rows \in Seq(Rows) :
          Record(rows, IF e \in replayed \ Waits(log) THEN stray \cup {e} ELSE stray \ {e})
    BY <1>2, <1>7, <2>1 DEF Wait
  <2>3. QED
    BY <1>3, <1>7, <2>2 DEF Wait
<1>8. ASSUME NEW e \in Element, End(e) PROVE LogInv'
  <2>1. PICK mine \in Left(e), v \in Value : Record(<<Row("end", e)>> \o EndSnapshots(e, mine, v), stray)
    BY <1>8 DEF End
  <2>2. <<Row("end", e)>> \o EndSnapshots(e, mine, v) \in Seq(Rows)
    BY <1>1, EndRows, LeftIn
  <2>3. QED
    BY <1>3, <1>8, <2>1, <2>2 DEF End
<1>9. ASSUME NEW e \in Element, CutShort(e) PROVE LogInv'
  <2>1. Discarded(e) \in Seq(Rows)
    BY SingleRows DEF Discarded
  <2>2. QED
    BY <1>3, <1>9, <2>1 DEF CutShort
<1>10. ASSUME NEW rows \in Seq(Rows), Fail(rows) PROVE LogInv'
  <2>1. PICK K : Insert(rows, K)
    BY <1>10 DEF Fail
  <2>2. Taken(rows, K) \in Seq(Rows) /\ log' = log \o Taken(rows, K)
    BY <2>1, TakenRows DEF Insert, Taken
  <2>3. phase # "failed" /\ phase' = "failed" /\ flushed' = Len(log') /\ failures' = failures \cup {Len(log')}
    BY <1>10 DEF Fail, RunEnds
  <2>4. QED
    BY <2>2, <2>3, Captured
<1>11. ASSUME NEW e \in Element, ElementFails(e) PROVE LogInv'
  <2>1. <<Row("error", e)>> \in Seq(Rows)
    BY SingleRows
  <2>2. QED
    BY <1>10, <1>11, <2>1 DEF ElementFails
<1>12. CASE RunFails
  BY <1>2, <1>10, <1>12 DEF RunFails
<1>13. CASE Settle \/ Checkpoint \/ RetryCheck
  BY <1>13, SameLog DEF Settle, Checkpoint, RetryCheck, ghostVars
<1>14. CASE Park \/ Complete
  <2>1. log' = log \o << >> /\ flushed' = Len(log') /\ failures' = failures
    BY <1>2, <1>14 DEF Park, Complete, RunEnds, ghostVars
  <2>2. phase # "failed" /\ phase' # "failed"
    BY <1>14 DEF Park, Complete
  <2>3. QED
    BY <1>2, <2>1, <2>2, Captured
<1>15. CASE Crash
  <2>1. PICK n \in flushed..Len(log) : log' = SubSeq(log, 1, n)
    BY <1>15 DEF Crash
  <2>2. n \in 0..Len(log) /\ n \in Nat /\ n <= Len(log) /\ flushed <= n
    BY <1>1
  <2>3. /\ log' \in Seq(Rows) /\ Len(log') = n /\ \A i \in 1..n : log'[i] = log[i]
    BY <1>1, <2>1, <2>2, Prefix
  <2>4. flushed' = n /\ phase # "failed" /\ phase' # "failed" /\ failures' = failures
    BY <1>15, <2>3 DEF Crash, RunEnds, Again
  <2>5. ASSUME NEW k \in failures' PROVE k \in 0..flushed' /\ SeamAt(k)'
    <3>1. k \in 0..flushed /\ SeamAt(k)
      BY <2>4 DEF LogInv
    <3>2. k \in Nat /\ k <= flushed /\ flushed \in Nat /\ flushed' \in Nat /\ flushed <= flushed'
          /\ \A m \in 1..flushed : log'[m] = log[m]
      BY <1>1, <2>2, <2>3, <2>4, <3>1
    <3>3. QED
      BY <2>4, <3>1, <3>2, SeamStays
  <2>6. QED
    BY <2>2, <2>3, <2>4, <2>5 DEF LogInv
<1>16. CASE LateRow
  <2>1. PICK e \in Element, type \in {"start", "variables"} \cup Telling, n \in flushed..Len(log) :
          Between(n, [Row(type, e) EXCEPT !.late = TRUE])
    BY <1>16 DEF LateRow
  <2> DEFINE row == [Row(type, e) EXCEPT !.late = TRUE]
  <2>2. row \in Rows /\ row.late
    BY RowIn DEF Row
  <2>3. phase' = phase /\ failures' = failures
    BY <1>16 DEF LateRow
  <2> HIDE DEF row
  <2>4. Between(n, row)
    BY <2>1 DEF row
  <2>5. QED
    BY <2>2, <2>3, <2>4, RowBetween
<1>17. CASE Cancel
  <2>1. <<Row("cancel", NoElement)>> \in Seq(Rows) /\ log' = log \o <<Row("cancel", NoElement)>>
    <3>1. Row("cancel", NoElement) \in Rows
      BY RowIn
    <3>2. QED
      BY <1>1, <1>17, <3>1, AppendIsConcat DEF Cancel
  <2>2. flushed' = Len(log') /\ failures' = failures /\ phase # "failed" /\ phase' # "failed"
    BY <1>17 DEF Cancel, ghostVars
  <2>3. QED
    BY <2>1, <2>2, Captured
<1>18. CASE RetryCommit
  <2>1. PICK n \in flushed..Len(log) : Between(n, Row("retry", NoElement))
    BY <1>18 DEF RetryCommit, Seam
  <2>2. Row("retry", NoElement) \in Rows /\ Row("retry", NoElement).type = "retry"
    BY RowIn
  <2>3. failures' = failures /\ phase' # "failed"
    BY <1>18 DEF RetryCommit, ghostVars, Again
  <2>4. QED
    BY <2>1, <2>2, <2>3, RowBetween
<1>19. CASE UNCHANGED vars
  BY <1>19, SameLog DEF vars, ghostVars
<1>20. QED
  BY <1>4, <1>5, <1>6, <1>7, <1>8, <1>9, <1>11, <1>12, <1>13, <1>14, <1>15, <1>16, <1>17, <1>18, <1>19
     DEF Next, Engine

----------------------------------------------------------------------------
(***************************************************************************)
(* The run, what it begins from, and the ghosts.                           *)
(***************************************************************************)

\* What a run keeps once it is over.
LEMMA Over == RunEnds => /\ at' \in [Element -> States] /\ data' \in Data /\ logged' \in Data
                        /\ replayed' \subseteq Element /\ called' \in BOOLEAN
  BY Constants DEF RunEnds

LEMMA RunStep == RunInv /\ [Next]_vars => RunInv'
<1> SUFFICES ASSUME RunInv, [Next]_vars PROVE RunInv'
  OBVIOUS
<1>1. /\ at \in [Element -> States] /\ data \in Data /\ logged \in Data
      /\ Empty \in Data /\ Quiet \in [Element -> States]
  BY Constants DEF RunInv
<1>2. \A S : Waits(S) \subseteq Element
  BY DEF Waits
<1>3. CASE Begin
  BY <1>1, <1>3 DEF Begin, RunInv
<1>4. CASE Resume
  <2>1. saved \in [at : [Element -> States], data : Data]
    BY <1>4 DEF Resume, RunInv
  <2>2. saved.at \in [Element -> States] /\ saved.data \in Data /\ Known(log) \subseteq Element
    BY <1>2, <2>1 DEF Known
  <2>3. QED
    BY <1>4, <2>2 DEF Resume, RunInv
<1>5. ASSUME NEW e \in Element, Start(e) PROVE RunInv'
  <2>1. at' \in [Element -> States]
    BY <1>1, <1>5 DEF Start, States
  <2>2. QED
    BY <1>5, <2>1 DEF Start, RunInv
<1>6. ASSUME NEW e \in Element, Wait(e) PROVE RunInv'
  <2>1. at' \in [Element -> States]
    BY <1>1, <1>6 DEF Wait, States
  <2>2. QED
    BY <1>6, <2>1 DEF Wait, RunInv
<1>7. ASSUME NEW e \in Element, End(e) PROVE RunInv'
  <2>1. at' \in [Element -> States]
    BY <1>1, <1>7 DEF End, States
  <2>2. data' \in Data /\ logged' \in Data
    <3>1. PICK mine \in Left(e), v \in Value : data' = [mine EXCEPT ![e] = v]
      BY <1>7 DEF End
    <3>2. mine \in Data
      BY LeftIn
    <3>3. data' \in Data
      BY <3>1, <3>2 DEF Data
    <3>4. QED
      BY <1>7, <3>3 DEF End
  <2>3. called' \in BOOLEAN
    BY <1>7 DEF End
  <2>4. phase' = phase /\ saved' = saved /\ replayed' = replayed /\ retriers' = retriers
    BY <1>7 DEF End
  <2>5. QED
    BY <2>1, <2>2, <2>3, <2>4 DEF RunInv
<1>8. ASSUME NEW e \in Element, CutShort(e) PROVE RunInv'
  <2>1. at' \in [Element -> States]
    BY <1>1, <1>8 DEF CutShort, States
  <2>2. QED
    BY <1>8, <2>1 DEF CutShort, RunInv
<1>9. ASSUME NEW rows, Fail(rows) PROVE RunInv'
  <2>1. phase' = "failed" /\ saved' = saved /\ retriers' = retriers /\ RunEnds
    BY <1>9 DEF Fail
  <2>2. QED
    BY <2>1, Over DEF RunInv
<1>10. CASE Settle
  BY <1>10 DEF Settle, RunInv
<1>11. CASE Checkpoint
  <2>1. saved' \in [at : [Element -> States], data : Data] /\ saved' # << >>
    BY <1>1, <1>11 DEF Checkpoint
  <2>2. QED
    BY <1>11, <2>1 DEF Checkpoint, RunInv
<1>12. CASE Park
  <2>1. saved' \in [at : [Element -> States], data : Data] /\ saved' # << >>
    BY <1>1, <1>12 DEF Park
  <2>2. phase' \in {"parked", "due"} /\ retriers' = retriers /\ RunEnds
    BY <1>12 DEF Park
  <2>3. QED
    BY <2>1, <2>2, Over DEF RunInv
<1>13. CASE Complete
  BY <1>13, Over DEF Complete, RunInv
<1>14. CASE Crash
  <2>1. phase' = Again /\ saved' = saved /\ retriers' = retriers /\ RunEnds
    BY <1>14 DEF Crash
  <2>2. QED
    BY <2>1, Over DEF RunInv, Again
<1>15. CASE Cancel \/ LateRow
  BY <1>15 DEF Cancel, LateRow, RunInv, runVars
<1>16. CASE RetryCheck
  <2>1. retriers' \in 0..MaxRetriers
    BY <1>16, Constants DEF RetryCheck, RunInv
  <2>2. QED
    BY <1>16, <2>1 DEF RetryCheck, RunInv, runVars
<1>17. CASE RetryCommit
  <2>1. retriers' \in 0..MaxRetriers
    BY <1>17, Constants DEF RetryCommit, RunInv
  <2>2. phase' = (IF phase = "failed" THEN Again ELSE phase) /\ saved' = saved /\ UNCHANGED runVars
    BY <1>17 DEF RetryCommit
  <2>3. QED
    BY <2>1, <2>2 DEF RunInv, runVars, Again
<1>18. CASE UNCHANGED vars
  BY <1>18 DEF vars, runVars, RunInv
<1>19. QED
  BY <1>3, <1>4, <1>5, <1>6, <1>7, <1>8, <1>9, <1>10, <1>11, <1>12, <1>13, <1>14, <1>15, <1>16, <1>17, <1>18
     DEF Next, Engine, ElementFails, RunFails

\* A row about a run is about one that was started.
LEMMA Noted ==
  ASSUME GhostInv, NEW e \in Element, NEW run, Note(e, run),
         Len(truth[e]) \in 1..Len(truth[e]) => run \in Runs
  PROVE  truth' \in [Element -> Seq(Runs)]
<1> DEFINE t == truth[e]
<1>1. truth \in [Element -> Seq(Runs)] /\ t \in Seq(Runs)
  BY DEF GhostInv
<1>2. CASE lost > 0
  BY <1>1, <1>2 DEF Note
<1>3. CASE ~(lost > 0)
  <2>1. truth' = [truth EXCEPT ![e] = [t EXCEPT ![Len(t)] = run]]
    BY <1>3 DEF Note
  <2>2. Len(t) \in Nat /\ DOMAIN t = 1..Len(t)
    BY <1>1, LenProperties
  <2>3. [t EXCEPT ![Len(t)] = run] \in Seq(Runs)
    <3>1. CASE Len(t) = 0
      <4>1. t = << >>
        BY <1>1, <3>1, EmptySeq
      <4> HIDE DEF t
      <4>2. [t EXCEPT ![Len(t)] = run] = t
        BY <4>1
      <4>3. QED
        BY <1>1, <4>2
    <3>2. CASE Len(t) # 0
      <4>1. Len(t) \in 1..Len(t) /\ run \in Runs
        BY <2>2, <3>2
      <4> HIDE DEF t
      <4>2. QED
        BY <1>1, <4>1, ExceptSeq
    <3>3. QED
      BY <3>1, <3>2
  <2> HIDE DEF t
  <2>4. QED
    BY <1>1, <2>1, <2>3
<1>4. QED
  BY <1>2, <1>3

\* The last run of an element, if there is one.
LEMMA LastRun ==
  ASSUME GhostInv, NEW e \in Element, Len(truth[e]) \in 1..Len(truth[e])
  PROVE  truth[e][Len(truth[e])] \in Runs
  BY ElementOfSeq DEF GhostInv

\* A life that is lost leaves no run behind.
LEMMA Lost ==
  ASSUME GhostInv, LoseLife, starts' = starts, refused' \in 0..MaxEvents, late' \in Nat
  PROVE  GhostInv'
<1>1. truth' \in [Element -> Seq(Runs)]
  <2>1. << >> \in Seq(Runs)
    BY EmptySeq
  <2>2. QED
    BY <2>1 DEF LoseLife
<1>2. lost' \in 0..MaxLost /\ lost' > 0
  BY Constants DEF LoseLife, GhostInv
<1>3. stray' \subseteq Element /\ missed' = {} /\ gap' = FALSE
  BY DEF LoseLife, Waits
<1>4. began' \in Data
  BY Constants DEF LoseLife
<1>5. QED
  BY <1>1, <1>2, <1>3, <1>4 DEF GhostInv

\* The ghosts of rows that are recorded stay in their sets.
LEMMA GhostRecorded ==
  ASSUME GhostInv, NEW rows \in Seq(Rows), NEW S \in SUBSET Element, Record(rows, S),
         \A n \in 1..Len(rows) : rows[n].type \in Telling => rows[n].el \in Element
  PROVE  /\ stray' \subseteq Element /\ missed' \subseteq Element \cup {NoElement} /\ gap' \in BOOLEAN
         /\ refused' \in 0..MaxEvents
<1> PICK w \in Seq(Rows) : Written(w, rows, S)
  BY Recorded
<1>1. \A n \in 1..Len(rows) : rows[n].el \in Element \cup {NoElement}
  <2>1. \A n \in 1..Len(rows) : rows[n] \in Rows
    BY ElementOfSeq
  <2>2. QED
    BY <2>1 DEF Rows
<1>2. \A e \in stray' : e \in S \/ \E n \in 1..Len(rows) : rows[n].el = e /\ rows[n].type \in Telling
  BY DEF Written
<1>3. \A e \in missed' : e \in missed \/ \E n \in 1..Len(rows) : rows[n].el = e
  BY DEF Written
<1>4. gap' \in BOOLEAN /\ refused' \in {refused, refused + 1} /\ (refused' # refused => MoreEvents)
  <2>1. gap \in BOOLEAN
    BY DEF GhostInv
  <2>2. QED
    BY <2>1 DEF Written
<1>5. refused' \in 0..MaxEvents
  BY <1>4, Constants DEF GhostInv, MoreEvents
<1>6. QED
  BY <1>1, <1>2, <1>3, <1>4, <1>5 DEF GhostInv

LEMMA GhostStep == LogInv /\ RunInv /\ GhostInv /\ [Next]_vars => GhostInv'
<1> SUFFICES ASSUME LogInv, RunInv, GhostInv, [Next]_vars PROVE GhostInv'
  OBVIOUS
<1>1. CASE UNCHANGED <<ghostVars, late>>
  BY <1>1 DEF ghostVars, rowVars, GhostInv
\* What recording leaves to its caller.
<1>2. ASSUME NEW rows \in Seq(Rows), NEW S \in SUBSET Element, Record(rows, S),
             \A n \in 1..Len(rows) : rows[n].type \in Telling => rows[n].el \in Element,
             truth' \in [Element -> Seq(Runs)], began' \in Data, starts' \in 0..MaxEvents,
             lost' = lost, late' = late
      PROVE  GhostInv'
  <2>1. /\ stray' \subseteq Element /\ missed' \subseteq Element \cup {NoElement} /\ gap' \in BOOLEAN
        /\ refused' \in 0..MaxEvents
    BY <1>2, GhostRecorded
  <2>2. QED
    BY <1>2, <2>1 DEF GhostInv
<1>3. CASE Begin
  <2> DEFINE rows == <<Snapshot(NoElement, Empty)>>
  <2>1. rows \in Seq(Rows) /\ \A n \in 1..Len(rows) : rows[n].type \notin Telling
    <3>1. Snapshot(NoElement, Empty).type \notin Telling
      BY DEF Snapshot, Telling, Ends
    <3>2. QED
      BY <3>1, SingleRows
  <2> HIDE DEF rows
  <2>2. /\ Record(rows, stray) /\ stray \in SUBSET Element /\ late' = late
        /\ truth' = truth /\ began' = began /\ starts' = starts /\ lost' = lost
    BY <1>3 DEF Begin, GhostInv, rows
  <2>3. QED
    BY <1>2, <2>1, <2>2 DEF GhostInv
<1>4. CASE Resume
  <2>1. PICK order \in Orders(ParkedOn(saved.at) \ Known(log)) :
          Record([n \in DOMAIN order |-> Row("wait", order[n])], stray \ ParkedOn(saved.at))
    BY <1>4 DEF Resume
  <2> DEFINE rows == [n \in DOMAIN order |-> Row("wait", order[n])]
             W == ParkedOn(saved.at) \ Known(log)
  <2>2. W \in SUBSET Element
    BY DEF ParkedOn
  <2>3. rows \in Seq(Rows) /\ \A n \in 1..Len(rows) : rows[n].el \in Element
    <3> HIDE DEF W
    <3>1. rows \in Seq(Rows) /\ \A n \in DOMAIN order : order[n] \in W
      BY <2>1, <2>2, OrderRows DEF W
    <3>2. \A n \in DOMAIN rows : rows[n].el \in Element
      BY <2>2, <3>1 DEF Row
    <3> HIDE DEF rows
    <3>3. QED
      BY <3>1, <3>2, LenProperties
  <2> HIDE DEF rows
  <2>4. /\ Record(rows, stray \ ParkedOn(saved.at)) /\ stray \ ParkedOn(saved.at) \in SUBSET Element
        /\ late' = late /\ truth' = truth /\ began' = began /\ starts' = starts /\ lost' = lost
    BY <1>4, <2>1 DEF Resume, GhostInv, rows
  <2>5. QED
    BY <1>2, <2>3, <2>4 DEF GhostInv
<1>5. ASSUME NEW e \in Element, NEW type \in {"start", "wait", "end", "error", "discard"}
      PROVE  /\ <<Row(type, e)>> \in Seq(Rows)
             /\ \A n \in 1..Len(<<Row(type, e)>>) : <<Row(type, e)>>[n].el \in Element
  BY SingleRows
<1>6. ASSUME NEW e \in Element, Start(e) PROVE GhostInv'
  <2>1. starts' \in 0..MaxEvents
    BY <1>6, Constants DEF Start, MoreEvents, GhostInv
  <2>2. began' \in Data
    BY <1>6 DEF Start, GhostInv, RunInv, Data
  <2>3. truth' \in [Element -> Seq(Runs)]
    <3> DEFINE run == [waited |-> 0, state |-> "open", change |-> {}, unsure |-> FALSE]
    <3>1. run \in Runs
      BY DEF Runs
    <3> HIDE DEF run
    <3>2. truth \in [Element -> Seq(Runs)] /\ Append(truth[e], run) \in Seq(Runs)
      BY <3>1, AppendProperties DEF GhostInv
    <3>3. truth' = IF lost > 0 THEN truth ELSE [truth EXCEPT ![e] = Append(truth[e], run)]
      BY <1>6 DEF Start, run
    <3>4. QED
      BY <3>2, <3>3
  <2>4. lost' = lost /\ late' = late /\ Record(<<Row("start", e)>>, stray) /\ stray \in SUBSET Element
    BY <1>6 DEF Start, GhostInv
  <2>5. QED
    BY <1>2, <1>5, <2>1, <2>2, <2>3, <2>4
<1>7. ASSUME NEW e \in Element, Wait(e) PROVE GhostInv'
  <2> DEFINE run == [truth[e][Len(truth[e])] EXCEPT !.waited = Len(log) + 1]
  <2>1. Len(truth[e]) \in 1..Len(truth[e]) => run \in Runs
    <3>1. Len(log) + 1 \in Nat
      BY LenProperties DEF LogInv
    <3>2. QED
      BY <3>1, LastRun DEF Runs
  <2>2. Note(e, run) /\ began' = began /\ starts' = starts /\ lost' = lost /\ late' = late
    BY <1>7 DEF Wait
  <2> HIDE DEF run
  <2>3. truth' \in [Element -> Seq(Runs)]
    BY <2>1, <2>2, Noted
  <2>4. PICK rows \in {<< >>, <<Row("wait", e)>>}, S \in SUBSET Element : Record(rows, S)
    <3>1. stray \cup {e} \in SUBSET Element /\ stray \ {e} \in SUBSET Element
      BY DEF GhostInv
    <3>2. QED
      BY <1>7, <3>1 DEF Wait
  <2>5. rows \in Seq(Rows) /\ \A n \in 1..Len(rows) : rows[n].el \in Element
    <3>1. CASE rows = << >>
      BY <3>1, EmptySeq
    <3>2. CASE rows = <<Row("wait", e)>>
      BY <1>5, <3>2
    <3>3. QED
      BY <3>1, <3>2
  <2>6. QED
    BY <1>2, <2>2, <2>3, <2>4, <2>5 DEF GhostInv
<1>8. ASSUME NEW e \in Element, End(e) PROVE GhostInv'
  <2>1. PICK mine \in Left(e), v \in Value :
          Note(e, Ended(e, mine, v)) /\ Record(Ending(e, mine, v), stray)
    BY <1>8 DEF End, Ending
  <2> DEFINE c == Change(e, began[e], v)
             w == gap \/ (data # mine /\ mine[e] # v)
             r == truth[e][Len(truth[e])]
             rows == Ending(e, mine, v)
  <2>2. c \in SUBSET AnyChange
    <3>1. began[e] \in Value
      BY DEF GhostInv, Data
    <3>2. c \in {Change(d, u, x) : d \in Element, u \in Value, x \in Value}
      BY <3>1
    <3> HIDE DEF c
    <3>3. c \subseteq AnyChange
      BY <3>2 DEF AnyChange
    <3>4. QED
      BY <3>3
  <2>3. Len(truth[e]) \in 1..Len(truth[e]) => Ended(e, mine, v) \in Runs
    <3>1. Ended(e, mine, v) = [r EXCEPT !.state = "ended", !.change = c, !.unsure = w]
      BY DEF Ended
    <3>2. w \in BOOLEAN
      BY DEF GhostInv
    <3>3. Len(truth[e]) \in 1..Len(truth[e]) => r \in Runs
      BY LastRun
    <3> HIDE DEF c, w, r
    <3>4. r \in Runs => [r EXCEPT !.state = "ended", !.change = c, !.unsure = w] \in Runs
      BY <2>2, <3>2 DEF Runs
    <3>5. QED
      BY <3>1, <3>3, <3>4
  <2>4. truth' \in [Element -> Seq(Runs)]
    BY <2>1, <2>3, Noted
  <2>5. rows \in Seq(Rows) /\ \A n \in 1..Len(rows) : rows[n].el \in Element
    <3>1. mine \in Data
      BY LeftIn
    <3>2. IsEnding(rows, e, mine, v)
      BY <3>1, EndRowsAre
    <3> HIDE DEF rows
    <3>3. QED
      BY <3>2 DEF IsEnding
  <2>6. Record(rows, stray) /\ stray \in SUBSET Element /\ began' = began /\ starts' = starts
        /\ lost' = lost /\ late' = late
    BY <1>8, <2>1 DEF End, GhostInv
  <2> HIDE DEF rows
  <2>7. QED
    BY <1>2, <2>4, <2>5, <2>6 DEF GhostInv
<1>9. ASSUME NEW e \in Element, CutShort(e) PROVE GhostInv'
  <2> DEFINE run == [truth[e][Len(truth[e])] EXCEPT !.state = "cut"]
  <2>1. Len(truth[e]) \in 1..Len(truth[e]) => run \in Runs
    BY LastRun DEF Runs
  <2>2. /\ Note(e, run) /\ began' = began /\ starts' = starts /\ lost' = lost /\ late' = late
        /\ Record(<<Row("discard", e)>>, stray) /\ stray \in SUBSET Element
    BY <1>9 DEF CutShort, Discarded, GhostInv
  <2> HIDE DEF run
  <2>3. truth' \in [Element -> Seq(Runs)]
    BY <2>1, <2>2, Noted
  <2>4. QED
    BY <1>2, <1>5, <2>2, <2>3 DEF GhostInv
<1>10. ASSUME NEW rows, Fail(rows) PROVE GhostInv'
  <2>1. LoseLife /\ starts' = starts /\ late' = late /\ \E K \in SUBSET DOMAIN rows : Insert(rows, K)
    BY <1>10 DEF Fail
  <2>2. refused' = refused \/ (MoreEvents /\ refused' = refused + 1)
    BY <2>1 DEF Insert
  <2>3. refused' \in 0..MaxEvents
    BY <2>2, Constants DEF MoreEvents, GhostInv
  <2>4. QED
    BY <2>1, <2>3, Lost DEF GhostInv
<1>11. CASE Crash
  <2>1. PICK more \in 0..MaxLate : late' = late + more
    BY <1>11 DEF Crash
  <2>2. LoseLife /\ starts' = starts /\ refused' = refused /\ late' \in Nat
    BY <1>11, <2>1, Constants DEF Crash, GhostInv
  <2>3. QED
    BY <2>2, Lost DEF GhostInv
<1>12. CASE LateRow
  <2>1. /\ late' \in Nat /\ (late' > 0 => late > 0) /\ stray' \subseteq Element
        /\ UNCHANGED <<truth, began, starts, lost, refused, missed, gap>>
    BY <1>12 DEF LateRow, GhostInv
  <2>2. QED
    BY <2>1 DEF GhostInv
<1>13. CASE Settle \/ Checkpoint \/ Park \/ Complete \/ Cancel \/ RetryCheck \/ RetryCommit
  BY <1>1, <1>13 DEF Settle, Checkpoint, Park, Complete, Cancel, RetryCheck, RetryCommit
<1>14. QED
  BY <1>1, <1>3, <1>4, <1>6, <1>7, <1>8, <1>9, <1>10, <1>11, <1>12, <1>13
     DEF Next, Engine, ElementFails, RunFails, vars

----------------------------------------------------------------------------
(***************************************************************************)
(* The waits.                                                              *)
(***************************************************************************)

\* What the next run begins to wait on.
Expected == IF saved = << >> THEN {} ELSE ParkedOn(saved.at)

\* While it runs an instance waits where its elements do, and between two runs
\* on no more than what the next run begins with, but for what was left wrong.
WaitsInv ==
  /\ phase = "running" => \A e \in Element \ stray : e \in Waits(log) <=> at[e] = "waiting"
  /\ phase = "parked" => Waits(log) \ stray = ParkedOn(saved.at) \ stray
  /\ phase \in {"new", "due", "failed"} => Waits(log) \subseteq stray \cup Expected
  /\ phase \in {"completed", "canceled"} => Waits(log) \subseteq stray
  /\ phase = "canceled" /\ lost = 0 => Waits(log) = {}

\* Rows that are recorded are as good as written for every element that is not
\* left stray, and they tell of those that were.
LEMMA WaitsRecorded ==
  ASSUME LogInv, NEW rows \in Seq(Rows), NEW S, Record(rows, S), NEW e \in Element \ stray',
         \A n \in 1..Len(rows) : rows[n].type # "cancel"
  PROVE  /\ e \in Waits(log') <=> e \in Waits(log \o rows)
         /\ e \in S => \E n \in 1..Len(rows) : rows[n].el = e /\ rows[n].type \in Telling
<1>1. PICK w \in Seq(Rows) : Written(w, rows, S)
  BY Recorded
<1>2. \A n \in 1..Len(rows) : rows[n].type # "cancel" /\ (w[n] = rows[n] \/ (w[n] = Hole /\ Mute(rows[n], e)))
  BY <1>1 DEF Mute, Written
<1>3. log \in Seq(Rows)
  BY DEF LogInv
<1>4. e \in Waits(log \o w) <=> e \in Waits(log \o rows)
  <2>1. Len(w) = Len(rows)
    BY <1>1 DEF Written
  <2>2. QED
    BY <1>2, <1>3, <2>1, SameTelling
<1>5. QED
  BY <1>1, <1>4 DEF Written

\* The rows of the waits that a run announces again.
LEMMA Announced ==
  ASSUME LogInv, NEW order \in Orders(ParkedOn(saved.at) \ Known(log))
  PROVE  LET rows == [n \in DOMAIN order |-> Row("wait", order[n])]
         IN  /\ rows \in Seq(Rows) /\ Waits(log \o rows) = Waits(log) \cup ParkedOn(saved.at)
             /\ \A n \in 1..Len(rows) : rows[n].type = "wait" /\ rows[n].el \in ParkedOn(saved.at)
<1> DEFINE S == ParkedOn(saved.at) \ Known(log)
           rows == [n \in DOMAIN order |-> Row("wait", order[n])]
<1>1. S \in SUBSET Element
  BY DEF ParkedOn
<1>2. /\ rows \in Seq(Rows)
      /\ \A n \in DOMAIN order : order[n] \in S
      /\ \A e \in S : \E n \in DOMAIN order : order[n] = e
  <2> HIDE DEF S
  <2>1. order \in Orders(S)
    BY DEF S
  <2>2. QED
    BY <1>1, <2>1, OrderRows
<1>3. /\ DOMAIN rows = DOMAIN order
      /\ \A n \in DOMAIN order : rows[n].type = "wait" /\ rows[n].el = order[n]
  BY DEF Row
<1> HIDE DEF rows
<1>4. ASSUME NEW e \in Element PROVE /\ e \in Waits(rows) <=> e \in S
                                    /\ \A m \in DOMAIN rows : Keeps(rows[m], e)
  <2>1. \A m \in DOMAIN rows : Keeps(rows[m], e)
    BY <1>3 DEF Keeps, Ends
  <2>2. ASSUME e \in S PROVE e \in Waits(rows)
    BY <1>2, <1>3, <2>1, <2>2, WaitsOn
  <2>3. ASSUME e \in Waits(rows) PROVE e \in S
    BY <1>2, <1>3, <2>3 DEF Waits
  <2>4. QED
    BY <2>1, <2>2, <2>3
<1>5. \A e \in Element : e \in Waits(log \o rows) <=> e \in S \/ e \in Waits(log)
  BY <1>2, <1>4, WaitsBehind DEF LogInv
<1>6. /\ Waits(log \o rows) \subseteq Element /\ Waits(log) \subseteq Element
      /\ ParkedOn(saved.at) \subseteq Element /\ Known(log) = Waits(log)
  BY DEF Known, Waits, ParkedOn
<1>7. \A e : e \in Waits(log \o rows) <=> e \in Waits(log) \/ e \in ParkedOn(saved.at)
  BY <1>5, <1>6
<1>8. \A n \in 1..Len(rows) : rows[n].type = "wait" /\ rows[n].el \in ParkedOn(saved.at)
  BY <1>2, <1>3, LenProperties
<1>9. QED
  BY <1>2, <1>7, <1>8 DEF rows

\* Nothing waits behind a row process.cancel.
LEMMA Canceled ==
  ASSUME LogInv, Cancel
  PROVE  Waits(log') = {}
<1> DEFINE row == Row("cancel", NoElement)
<1>1. row \in Rows /\ row.type = "cancel" /\ \A d \in Element : ~Keeps(row, d)
  BY RowIn DEF Row, Keeps
<1>2. log' = log \o <<row>>
  BY <1>1, AppendIsConcat DEF Cancel, LogInv
<1> HIDE DEF row
<1>3. \A d \in Element : d \notin Waits(log \o <<row>>)
  BY <1>1, OneRow DEF LogInv
<1>4. QED
  BY <1>2, <1>3 DEF Waits

LEMMA WaitsStep == LogInv /\ RunInv /\ GhostInv /\ WaitsInv /\ [Next]_vars => WaitsInv'
<1> SUFFICES ASSUME LogInv, RunInv, GhostInv, WaitsInv, [Next]_vars PROVE WaitsInv'
  OBVIOUS
<1>1. /\ log \in Seq(Rows) /\ Len(log) \in Nat /\ at \in [Element -> States]
      /\ Waits(log) \subseteq Element /\ Waits(log') \subseteq Element
      /\ << >> \in Seq(Rows) /\ log \o << >> = log
  BY LenProperties, EmptySeq, ConcatEmptySeq DEF LogInv, RunInv, Waits
\* What a run records of one element, as it comes to where it is then.
<1>2. ASSUME NEW e \in Element, NEW rows \in Seq(Rows), NEW S, Record(rows, S), stray \ {e} \subseteq S,
             \A n \in 1..Len(rows) : rows[n].el = e /\ rows[n].type # "cancel",
             phase = "running", phase' = "running",
             \A d \in Element \ {e} : /\ at'[d] = "waiting" <=> at[d] = "waiting"
                                      /\ d \in Waits(log \o rows) <=> d \in Waits(log),
             e \notin stray' => (e \in Waits(log \o rows) <=> at'[e] = "waiting")
      PROVE  WaitsInv'
  <2>1. \A d \in Element \ stray' : d \in Waits(log') <=> at'[d] = "waiting"
    <3> TAKE d \in Element \ stray'
    <3>1. (d \in Waits(log') <=> d \in Waits(log \o rows)) /\ (d \in S => \E n \in 1..Len(rows) : rows[n].el = d)
      BY <1>2, WaitsRecorded
    <3>2. CASE d = e
      BY <1>2, <3>1, <3>2
    <3>3. CASE d # e
      <4>1. d \notin stray
        BY <1>2, <3>1, <3>3
      <4>2. QED
        BY <1>2, <3>1, <3>3, <4>1 DEF WaitsInv
    <3>4. QED
      BY <3>2, <3>3
  <2>2. QED
    BY <1>2, <2>1 DEF WaitsInv
<1>3. CASE Begin
  <2> DEFINE rows == <<Snapshot(NoElement, Empty)>>
  <2>1. Snapshot(NoElement, Empty) \in Neutral
    BY Constants, RowIn
  <2>2. rows \in Seq(Neutral)
    BY <2>1
  <2>3. rows \in Seq(Rows) /\ \A n \in 1..Len(rows) : rows[n].type = "variables"
    BY SingleRows DEF Snapshot
  <2> HIDE DEF rows
  <2>4. Waits(log \o rows) = Waits(log)
    BY <1>1, <2>2, NeutralRows
  <2>5. saved = << >> /\ phase' = "running" /\ at' = Quiet /\ Record(rows, stray) /\ phase = "new"
    BY <1>3 DEF Begin, RunInv, rows
  <2>6. Waits(log) \subseteq stray
    BY <2>5 DEF WaitsInv, Expected
  <2>7. ASSUME NEW d \in Element \ stray' PROVE d \notin Waits(log') /\ at'[d] # "waiting"
    <3>1. \A n \in 1..Len(rows) : rows[n].type # "cancel" /\ rows[n].type \notin Telling
      BY <2>3 DEF Telling, Ends
    <3>2. (d \in Waits(log') <=> d \in Waits(log \o rows)) /\ d \notin stray
      BY <2>3, <2>5, <3>1, WaitsRecorded
    <3>3. QED
      BY <2>4, <2>5, <2>6, <3>2 DEF Quiet
  <2>8. QED
    BY <2>5, <2>7 DEF WaitsInv
<1>4. CASE Resume
  <2>1. PICK order \in Orders(ParkedOn(saved.at) \ Known(log)) :
          Record([n \in DOMAIN order |-> Row("wait", order[n])], stray \ ParkedOn(saved.at))
    BY <1>4 DEF Resume
  <2> DEFINE rows == [n \in DOMAIN order |-> Row("wait", order[n])]
  <2>2. /\ rows \in Seq(Rows) /\ Waits(log \o rows) = Waits(log) \cup ParkedOn(saved.at)
        /\ \A n \in 1..Len(rows) : rows[n].type = "wait" /\ rows[n].el \in ParkedOn(saved.at)
    BY Announced
  <2> HIDE DEF rows
  <2>3. Record(rows, stray \ ParkedOn(saved.at))
    BY <2>1 DEF rows
  <2>4. phase' = "running" /\ at' = saved.at /\ phase \in {"parked", "due"} /\ saved # << >>
    BY <1>4 DEF Resume, RunInv
  <2>5. Waits(log) \subseteq stray \cup ParkedOn(saved.at)
    BY <2>4 DEF WaitsInv, Expected
  <2>6. ASSUME NEW d \in Element \ stray' PROVE d \in Waits(log') <=> at'[d] = "waiting"
    <3>1. at'[d] = "waiting" <=> d \in ParkedOn(saved.at)
      BY <2>4 DEF ParkedOn
    <3>2. \A n \in 1..Len(rows) : rows[n].type # "cancel"
      BY <2>2
    <3>3. /\ d \in Waits(log') <=> d \in Waits(log \o rows)
          /\ d \in stray \ ParkedOn(saved.at) => \E n \in 1..Len(rows) : rows[n].el = d
      BY <2>2, <2>3, <3>2, WaitsRecorded
    <3>4. QED
      BY <2>2, <2>5, <3>1, <3>3
  <2>7. QED
    BY <2>4, <2>6 DEF WaitsInv
<1>5. ASSUME NEW e \in Element, Start(e) PROVE WaitsInv'
  <2> DEFINE row == Row("start", e)
  <2>1. row \in Rows /\ row.type = "start" /\ row.el = e /\ \A d \in Element : Keeps(row, d)
    BY SingleRows DEF Row, Keeps, Ends
  <2>2. /\ Record(<<row>>, stray) /\ phase = "running" /\ phase' = phase /\ at[e] = "idle"
        /\ at' = [at EXCEPT ![e] = "started"]
    BY <1>5 DEF Start
  <2> HIDE DEF row
  <2>3. /\ <<row>> \in Seq(Rows) /\ \A n \in 1..Len(<<row>>) : <<row>>[n].el = e /\ <<row>>[n].type # "cancel"
        /\ \A d \in Element : d \in Waits(log \o <<row>>) <=> d \in Waits(log)
    BY <1>1, <2>1, OneRow
  <2>4. \A d \in Element : at'[d] = "waiting" <=> at[d] = "waiting"
    BY <1>1, <2>2
  <2>5. ASSUME e \notin stray' PROVE e \in Waits(log \o <<row>>) <=> at'[e] = "waiting"
    <3>1. e \notin stray
      <4>1. \A n \in 1..Len(<<row>>) : <<row>>[n].type # "cancel" /\ <<row>>[n].type \notin Telling
        BY <2>1, <2>3 DEF Telling, Ends
      <4>2. QED
        BY <2>2, <2>3, <2>5, <4>1, WaitsRecorded
    <3>2. QED
      BY <2>2, <2>3, <2>4, <3>1 DEF WaitsInv
  <2>6. QED
    BY <1>2, <2>2, <2>3, <2>4, <2>5
<1>6. ASSUME NEW e \in Element, Wait(e) PROVE WaitsInv'
  <2> DEFINE row == Row("wait", e)
             S == IF e \in replayed \ Waits(log) THEN stray \cup {e} ELSE stray \ {e}
  <2>1. row \in Rows /\ row.type = "wait" /\ row.el = e /\ \A d \in Element : Keeps(row, d)
    BY SingleRows DEF Row, Keeps, Ends
  <2>2. /\ Record(IF e \in replayed THEN << >> ELSE <<row>>, S) /\ phase = "running" /\ phase' = phase
        /\ at' = [at EXCEPT ![e] = "waiting"] /\ stray \ {e} \subseteq S
    BY <1>6 DEF Wait
  <2> HIDE DEF row
  <2>3. \A d \in Element \ {e} : at'[d] = "waiting" <=> at[d] = "waiting"
    BY <1>1, <2>2
  <2>4. at'[e] = "waiting"
    BY <1>1, <2>2
  <2>5. CASE e \in replayed
    <3>1. ASSUME e \notin stray' PROVE e \in Waits(log)
      <4> DEFINE none == << >>
      <4>1. Record(none, S) /\ none \in Seq(Rows) /\ Len(none) = 0
        BY <1>1, <2>2, <2>5
      <4> HIDE DEF S, none
      <4>2. 1..Len(none) = {} /\ e \in Element \ stray'
        BY <3>1, <4>1
      <4>3. e \notin S
        BY <4>1, <4>2, WaitsRecorded
      <4>4. QED
        BY <1>6, <2>5, <4>3 DEF S
    <3> HIDE DEF S
    <3>2. Record(<< >>, S) /\ \A n \in 1..Len(<< >>) : << >>[n].el = e /\ << >>[n].type # "cancel"
      BY <2>2, <2>5
    <3>3. QED
      BY <1>1, <1>2, <2>2, <2>3, <2>4, <3>1, <3>2
  <2>6. CASE e \notin replayed
    <3> HIDE DEF S
    <3>1. /\ <<row>> \in Seq(Rows) /\ \A n \in 1..Len(<<row>>) : <<row>>[n].el = e /\ <<row>>[n].type # "cancel"
          /\ \A d \in Element : d \in Waits(log \o <<row>>) <=> d = e \/ d \in Waits(log)
      BY <1>1, <2>1, OneRow
    <3>2. Record(<<row>>, S)
      BY <2>2, <2>6
    <3>3. QED
      BY <1>2, <2>2, <2>3, <2>4, <3>1, <3>2
  <2>7. QED
    BY <2>5, <2>6
<1>7. ASSUME NEW e \in Element, NEW rows \in Seq(Rows), Record(rows, stray),
             \A n \in 1..Len(rows) : rows[n].el = e /\ rows[n].type # "cancel",
             phase = "running", phase' = phase, at' = [at EXCEPT ![e] = "idle"],
             Waits(log \o rows) = Waits(log) \ {e}
      PROVE  WaitsInv'
  <2>1. /\ \A d \in Element \ {e} : at'[d] = "waiting" <=> at[d] = "waiting"
        /\ at'[e] = "idle"
    BY <1>1, <1>7
  <2>2. QED
    BY <1>2, <1>7, <2>1
<1>8. ASSUME NEW e \in Element, End(e) PROVE WaitsInv'
  <2>1. PICK mine \in Left(e), v \in Value : Record(Ending(e, mine, v), stray)
    BY <1>8 DEF End, Ending
  <2> DEFINE rows == Ending(e, mine, v)
  <2>2. mine \in Data
    BY LeftIn
  <2>3. Waits(log \o rows) = Waits(log) \ {e} /\ IsEnding(rows, e, mine, v)
    BY <1>1, <2>2, EndRows, EndRowsAre DEF Ending
  <2>4. Record(rows, stray)
    BY <2>1
  <2> HIDE DEF rows
  <2>5. rows \in Seq(Rows) /\ \A n \in 1..Len(rows) : rows[n].el = e /\ rows[n].type # "cancel"
    BY <2>3 DEF IsEnding
  <2>6. QED
    BY <1>7, <1>8, <2>3, <2>4, <2>5 DEF End
<1>9. ASSUME NEW e \in Element, CutShort(e) PROVE WaitsInv'
  <2> DEFINE row == Row("discard", e)
  <2>1. row \in Rows /\ row.type = "discard" /\ row.el = e /\ \A d \in Element : Keeps(row, d) <=> d # e
    BY SingleRows DEF Row, Keeps, Ends
  <2>2. Record(<<row>>, stray) /\ phase = "running" /\ phase' = phase /\ at' = [at EXCEPT ![e] = "idle"]
    BY <1>9 DEF CutShort, Discarded
  <2> HIDE DEF row
  <2>3. /\ <<row>> \in Seq(Rows) /\ \A n \in 1..Len(<<row>>) : <<row>>[n].el = e /\ <<row>>[n].type # "cancel"
        /\ \A d \in Element : d \in Waits(log \o <<row>>) <=> d \in Waits(log) /\ d # e
    BY <1>1, <2>1, OneRow
  <2>4. Waits(log \o <<row>>) \subseteq Element
    BY DEF Waits
  <2>5. Waits(log \o <<row>>) = Waits(log) \ {e}
    BY <1>1, <2>3, <2>4
  <2>6. QED
    BY <1>7, <2>2, <2>3, <2>5
<1>10. CASE LoseLife /\ saved' = saved /\ phase' \in {"failed", "new", "due"}
  BY <1>10 DEF LoseLife, WaitsInv, Expected
<1>11. ASSUME NEW rows, Fail(rows) PROVE WaitsInv'
  BY <1>10, <1>11 DEF Fail
<1>12. CASE Crash
  BY <1>10, <1>12 DEF Crash, Again
<1>13. CASE Settle \/ Checkpoint
  BY <1>13 DEF Settle, Checkpoint, WaitsInv, ghostVars, rowVars
<1>14. CASE Park
  <2>1. /\ phase = "running" /\ phase' \in {"parked", "due"} /\ log' = log /\ stray' = stray
        /\ saved' = [at |-> at, data |-> data]
    BY <1>14 DEF Park, ghostVars, rowVars
  <2>2. saved'.at = at /\ saved' # << >>
    BY <2>1
  <2>3. Waits(log) \ stray = ParkedOn(at) \ stray
    BY <1>1, <2>1 DEF WaitsInv, ParkedOn
  <2>4. QED
    BY <2>1, <2>2, <2>3 DEF WaitsInv, Expected
<1>15. CASE Complete
  <2>1. phase = "running" /\ phase' = "completed" /\ log' = log /\ stray' = stray /\ \A e \in Element : at[e] = "idle"
    BY <1>15 DEF Complete, ghostVars, rowVars
  <2>2. QED
    BY <1>1, <2>1 DEF WaitsInv
<1>16. CASE Cancel
  <2>1. phase' = "canceled" /\ Waits(log') = {}
    BY <1>16, Canceled DEF Cancel
  <2>2. QED
    BY <2>1 DEF WaitsInv
\* A row behind the written ones, which says nothing of the others.
<1>17. ASSUME stray \subseteq stray', \A d \in Element \ stray' : d \in Waits(log') <=> d \in Waits(log),
              phase = "canceled" /\ lost = 0 => Waits(log') = Waits(log),
              saved' = saved, at' = at, lost' = lost,
              phase' = phase \/ (phase = "failed" /\ phase' \in {"new", "due"})
       PROVE  WaitsInv'
  <2>1. Waits(log') \ stray' = Waits(log) \ stray'
    BY <1>1, <1>17
  <2>2. phase' = "running" => \A e \in Element \ stray' : e \in Waits(log') <=> at'[e] = "waiting"
    BY <1>17 DEF WaitsInv
  <2>3. phase' = "parked" => Waits(log') \ stray' = ParkedOn(saved'.at) \ stray'
    BY <1>17, <2>1 DEF WaitsInv
  <2>4. /\ phase' \in {"new", "due", "failed"} => Waits(log') \subseteq stray' \cup Expected'
        /\ phase' \in {"completed", "canceled"} => Waits(log') \subseteq stray'
        /\ phase' = "canceled" /\ lost' = 0 => Waits(log') = {}
    BY <1>17, <2>1 DEF WaitsInv, Expected
  <2>5. QED
    BY <2>2, <2>3, <2>4 DEF WaitsInv
<1>18. CASE RetryCheck
  BY <1>18 DEF RetryCheck, WaitsInv, Expected, runVars, ghostVars, rowVars
<1>19. CASE LateRow
  <2>1. PICK e \in Element, type \in {"start", "variables"} \cup Telling, n \in flushed..Len(log) :
          /\ Between(n, [Row(type, e) EXCEPT !.late = TRUE])
          /\ stray' = IF type \in Telling THEN stray \cup {e} ELSE stray
    BY <1>19 DEF LateRow
  <2> DEFINE row == [Row(type, e) EXCEPT !.late = TRUE]
  <2>2. row \in Rows /\ row.type = type /\ row.el = e /\ row.type # "cancel"
    BY RowIn DEF Row, Telling, Ends
  <2>3. n \in 0..Len(log)
    BY <1>1 DEF LogInv
  <2>4. log' = Sew(log, n, row)
    BY <2>1 DEF Between, Sew
  <2> HIDE DEF row
  <2>5. \A d \in Element \ stray' : Mute(row, d)
    BY <2>1, <2>2 DEF Mute
  <2>6. \A d \in Element \ stray' : d \in Waits(log') <=> d \in Waits(log)
    BY <1>1, <2>2, <2>3, <2>4, <2>5, Sewn
  <2>7. lost # 0 /\ stray \subseteq stray'
    BY <1>19, <2>1 DEF LateRow, GhostInv
  <2>8. saved' = saved /\ at' = at /\ lost' = lost /\ phase' = phase
    BY <1>19 DEF LateRow, runVars
  <2>9. QED
    BY <1>17, <2>6, <2>7, <2>8
<1>20. CASE RetryCommit
  <2>1. PICK n \in flushed..Len(log) : Seam(n)
    BY <1>20 DEF RetryCommit
  <2> DEFINE row == Row("retry", NoElement)
  <2>2. row \in Rows /\ row.type = "retry"
    BY RowIn
  <2>3. n \in 0..Len(log)
    BY <1>1 DEF LogInv
  <2>4. log' = Sew(log, n, row)
    BY <2>1 DEF Seam, Between, Sew
  <2> HIDE DEF row
  <2>5. \A d \in Element : Mute(row, d)
    BY <2>2 DEF Mute, Telling, Ends
  <2>6. \A d \in Element : d \in Waits(log') <=> d \in Waits(log)
    BY <1>1, <2>2, <2>3, <2>4, <2>5, Sewn
  <2>7. Waits(log') = Waits(log)
    BY <1>1, <2>6
  <2>8. /\ saved' = saved /\ at' = at /\ stray' = stray /\ lost' = lost
        /\ phase' = IF phase = "failed" THEN Again ELSE phase
    BY <1>20 DEF RetryCommit, runVars, ghostVars, rowVars
  <2>9. QED
    BY <1>17, <2>7, <2>8 DEF Again
<1>21. CASE UNCHANGED vars
  BY <1>21 DEF vars, WaitsInv, Expected, runVars, ghostVars, rowVars
<1>22. QED
  BY <1>3, <1>4, <1>5, <1>6, <1>8, <1>9, <1>11, <1>12, <1>13, <1>14, <1>15, <1>16, <1>18, <1>19, <1>20, <1>21
     DEF Next, Engine, ElementFails, RunFails

----------------------------------------------------------------------------
(***************************************************************************)
(* The theorems.                                                           *)
(***************************************************************************)

LEMMA InitParts == Init => LogInv /\ RunInv /\ GhostInv /\ WaitsInv
<1> SUFFICES ASSUME Init PROVE LogInv /\ RunInv /\ GhostInv /\ WaitsInv
  OBVIOUS
<1>1. log = << >> /\ << >> \in Seq(Rows) /\ << >> \in Seq(Runs) /\ Len(<< >>) = 0 /\ DOMAIN << >> = {}
  BY EmptySeq DEF Init
<1>2. flushed = 0 /\ phase = "new" /\ failures = {}
  BY DEF Init
<1>3. LogInv
  BY <1>1, <1>2 DEF LogInv
<1>4. RunInv
  <2>1. at \in [Element -> States] /\ data \in Data /\ logged \in Data
    BY Constants DEF Init
  <2>2. phase = "new" /\ saved = << >> /\ replayed = {} /\ called = FALSE /\ retriers = 0
    BY DEF Init
  <2>3. 0 \in 0..MaxRetriers
    BY Constants
  <2>4. QED
    BY <2>1, <2>2, <2>3 DEF RunInv
<1>5. GhostInv
  <2>1. truth \in [Element -> Seq(Runs)]
    BY <1>1 DEF Init
  <2>2. stray \subseteq Element /\ missed = {} /\ gap \in BOOLEAN /\ began \in Data
    BY Constants DEF Init
  <2>3. starts \in 0..MaxEvents /\ refused \in 0..MaxEvents /\ lost \in 0..MaxLost /\ late = 0
    BY Constants DEF Init
  <2>4. QED
    BY <2>1, <2>2, <2>3 DEF GhostInv
<1>6. Waits(log) = {}
  BY <1>1 DEF Waits
<1>7. WaitsInv
  BY <1>2, <1>6 DEF WaitsInv
<1>8. QED
  BY <1>3, <1>4, <1>5, <1>7

\* However runs end, are lost, taken over, resumed and retried, and whichever rows
\* are refused, the log holds only rows the read side knows, and the state a run
\* begins from is there.
THEOREM ElementLogTypeCorrect == Spec => []TypeOK
<1>1. LogInv /\ RunInv /\ GhostInv /\ [Next]_vars => (LogInv /\ RunInv /\ GhostInv)'
  BY LogStep, RunStep, GhostStep
<1>2. QED
  BY <1>1, InitParts, Parts, PTL DEF Spec

\* Behind a failed attempt comes process.retry before any row of the next one,
\* whichever of the callers that retry at once made the instance due (retry,
\* process-engine.ts); only a run that lost its lease writes in between.
THEOREM SeamsAreMarked == Spec => []SeamMarked
<1>1. LogInv /\ RunInv /\ [Next]_vars => (LogInv /\ RunInv)'
  BY LogStep, RunStep
<1>2. LogInv => SeamMarked
  <2> SUFFICES ASSUME LogInv, NEW n \in failures, NEW m \in (n + 1)..Len(log), ~log[m].late
               PROVE  \E k \in (n + 1)..m : log[k].type = "retry"
    BY DEF SeamMarked
  <2>1. SeamAt(n) /\ n \in 0..flushed /\ flushed \in 0..Len(log) /\ Len(log) \in Nat
    BY LenProperties DEF LogInv
  <2>2. CASE phase = "failed" /\ LateTo(n, flushed)
    BY <2>1, <2>2 DEF LateTo, LogInv
  <2>3. CASE \E k \in (n + 1)..flushed : log[k].type = "retry" /\ LateTo(n, k - 1)
    <3>1. PICK k \in (n + 1)..flushed : log[k].type = "retry" /\ LateTo(n, k - 1)
      BY <2>3
    <3>2. ~(m <= k - 1)
      BY <2>1, <3>1 DEF LateTo
    <3>3. k \in (n + 1)..m
      BY <2>1, <3>2
    <3>4. QED
      BY <3>1, <3>3
  <2>4. QED
    BY <2>1, <2>2, <2>3 DEF SeamAt
<1>3. QED
  BY <1>1, <1>2, InitParts, PTL DEF Spec

\* An instance at rest waits on exactly the elements the log says, but for those
\* that a lost life, a run without a lease or a refused row has left wrong
\* (waitingActivities, event-feed.ts).
THEOREM WaitsAreTrueAlways == Spec => []WaitsAreTrue
<1>1. LogInv /\ RunInv /\ GhostInv /\ WaitsInv /\ [Next]_vars => (LogInv /\ RunInv /\ GhostInv /\ WaitsInv)'
  BY LogStep, RunStep, GhostStep, WaitsStep
<1>2. WaitsInv => WaitsAreTrue
  BY DEF WaitsInv, WaitsAreTrue
<1>3. QED
  BY <1>1, <1>2, InitParts, PTL DEF Spec

----------------------------------------------------------------------------
(***************************************************************************)
(* The runs that a log tells of.                                           *)
(***************************************************************************)

Is(row, type, e) == row.type = type /\ row.el = e

StartsIn(l, e) == {n \in DOMAIN l : Is(l[n], "start", e)}

\* The rows of the run of e that began with row n.
RunRows(l, e, n, type) ==
  {m \in DOMAIN l : n < m /\ Is(l[m], type, e) /\ \A s \in StartsIn(l, e) : n < s => m < s}

\* How many of S come up to n.
Rank(S, n) == Cardinality({m \in S : m <= n})

IsLast(S, n) == n \in S /\ \A m \in S : m <= n

\* A row behind the others, each at its place.
LEMMA RowBehind ==
  ASSUME NEW l \in Seq(Rows), NEW row \in Rows
  PROVE  /\ Append(l, row) \in Seq(Rows) /\ Len(l) \in Nat
         /\ DOMAIN l = 1..Len(l) /\ DOMAIN Append(l, row) = 1..(Len(l) + 1)
         /\ \A n \in DOMAIN l : Append(l, row)[n] = l[n] /\ l[n] \in Rows
         /\ Append(l, row)[Len(l) + 1] = row
         /\ Len(Append(l, row)) = Len(l) + 1
  BY AppendProperties, LenProperties, ElementOfSeq

LEMMA StartAdded ==
  ASSUME NEW l \in Seq(Rows), NEW row \in Rows, NEW e
  PROVE  StartsIn(Append(l, row), e) = StartsIn(l, e) \cup (IF Is(row, "start", e) THEN {Len(l) + 1} ELSE {})
<1> DEFINE q == Append(l, row)
<1>1. /\ Len(l) \in Nat /\ DOMAIN l = 1..Len(l) /\ DOMAIN q = 1..(Len(l) + 1)
      /\ \A n \in DOMAIN l : q[n] = l[n]
      /\ q[Len(l) + 1] = row
  BY RowBehind
<1> HIDE DEF q
<1>2. \A n \in 1..(Len(l) + 1) : n \in 1..Len(l) \/ n = Len(l) + 1
  BY <1>1
<1>3. Len(l) + 1 \in 1..(Len(l) + 1) /\ \A n \in 1..Len(l) : n \in 1..(Len(l) + 1)
  BY <1>1
<1>4. StartsIn(q, e) = StartsIn(l, e) \cup (IF Is(row, "start", e) THEN {Len(l) + 1} ELSE {})
  BY <1>1, <1>2, <1>3 DEF StartsIn
<1>5. QED
  BY <1>4 DEF q

\* A row belongs to the last run of its element, unless it starts one.
LEMMA RowAdded ==
  ASSUME NEW l \in Seq(Rows), NEW row \in Rows, NEW e, NEW n \in StartsIn(l, e), NEW type
  PROVE  RunRows(Append(l, row), e, n, type) =
           RunRows(l, e, n, type) \cup
           (IF Is(row, type, e) /\ row.type # "start" /\ IsLast(StartsIn(l, e), n) THEN {Len(l) + 1} ELSE {})
<1> DEFINE q == Append(l, row)
           S == StartsIn(l, e)
           T == StartsIn(q, e)
<1>1. /\ Len(l) \in Nat /\ DOMAIN l = 1..Len(l) /\ DOMAIN q = 1..(Len(l) + 1)
      /\ \A m \in DOMAIN l : q[m] = l[m]
      /\ q[Len(l) + 1] = row
  BY RowBehind
<1>2. T = S \cup (IF Is(row, "start", e) THEN {Len(l) + 1} ELSE {}) /\ S \subseteq 1..Len(l) /\ n \in S
  BY <1>1, StartAdded DEF StartsIn
<1>a. RunRows(q, e, n, type) = {m \in DOMAIN q : n < m /\ Is(q[m], type, e) /\ \A s \in T : n < s => m < s}
  BY DEF RunRows
<1>b. RunRows(l, e, n, type) = {m \in DOMAIN l : n < m /\ Is(l[m], type, e) /\ \A s \in S : n < s => m < s}
  BY DEF RunRows
<1> HIDE DEF q, S, T
<1>3. ASSUME NEW m \in 1..Len(l)
      PROVE  (\A s \in T : n < s => m < s) <=> (\A s \in S : n < s => m < s)
  <2>1. m < Len(l) + 1
    BY <1>1
  <2>2. QED
    BY <1>2, <2>1
<1>4. \A m \in 1..Len(l) : m \in RunRows(q, e, n, type) <=> m \in RunRows(l, e, n, type)
  <2> TAKE m \in 1..Len(l)
  <2>1. m \in 1..(Len(l) + 1)
    BY <1>1
  <2>2. QED
    BY <1>1, <1>3, <1>a, <1>b, <2>1
<1>5. (\A s \in T : n < s => Len(l) + 1 < s) <=> IsLast(S, n) /\ ~Is(row, "start", e)
  <2>1. \A s \in S : s \in Nat /\ s <= Len(l) /\ n \in Nat
    BY <1>1, <1>2
  <2>2. n < Len(l) + 1 /\ ~(Len(l) + 1 < Len(l) + 1)
    BY <1>1, <1>2
  <2>3. (\A s \in T : n < s => Len(l) + 1 < s) => IsLast(S, n) /\ ~Is(row, "start", e)
    <3>1. ASSUME \A s \in T : n < s => Len(l) + 1 < s PROVE IsLast(S, n) /\ ~Is(row, "start", e)
      <4>1. ~Is(row, "start", e)
        BY <1>2, <2>2, <3>1
      <4>2. ASSUME NEW s \in S PROVE s <= n
        BY <1>1, <1>2, <2>1, <3>1
      <4>3. QED
        BY <1>2, <4>1, <4>2 DEF IsLast
    <3>2. QED
      BY <3>1
  <2>4. IsLast(S, n) /\ ~Is(row, "start", e) => (\A s \in T : n < s => Len(l) + 1 < s)
    BY <1>2, <2>1 DEF IsLast
  <2>5. QED
    BY <2>3, <2>4
<1>6. Len(l) + 1 \in RunRows(q, e, n, type) <=> Is(row, type, e) /\ row.type # "start" /\ IsLast(S, n)
  <2>1. n < Len(l) + 1 /\ Len(l) + 1 \in 1..(Len(l) + 1)
    BY <1>1, <1>2
  <2>2. Len(l) + 1 \in RunRows(q, e, n, type) <=> Is(row, type, e) /\ IsLast(S, n) /\ ~Is(row, "start", e)
    BY <1>1, <1>5, <1>a, <2>1
  <2>3. QED
    BY <2>2 DEF Is
<1>7. RunRows(q, e, n, type) \subseteq 1..(Len(l) + 1) /\ RunRows(l, e, n, type) \subseteq 1..Len(l)
  BY <1>1, <1>a, <1>b
<1>8. \A m \in 1..(Len(l) + 1) : m \in 1..Len(l) \/ m = Len(l) + 1
  BY <1>1
<1>9. Len(l) + 1 \notin 1..Len(l)
  BY <1>1
<1>10. \A m : m \in RunRows(q, e, n, type) <=>
          m \in RunRows(l, e, n, type) \/ (m = Len(l) + 1 /\ Is(row, type, e) /\ row.type # "start" /\ IsLast(S, n))
  BY <1>4, <1>6, <1>7, <1>8, <1>9
<1>11. RunRows(q, e, n, type) = RunRows(l, e, n, type) \cup
         (IF Is(row, type, e) /\ row.type # "start" /\ IsLast(S, n) THEN {Len(l) + 1} ELSE {})
  BY <1>10
<1>12. QED
  BY <1>11 DEF q, S

LEMMA RowElsewhere ==
  ASSUME NEW l \in Seq(Rows), NEW row \in Rows, NEW e, NEW n \in StartsIn(l, e), NEW type,
         ~(Is(row, type, e) /\ row.type # "start" /\ IsLast(StartsIn(l, e), n))
  PROVE  RunRows(Append(l, row), e, n, type) = RunRows(l, e, n, type)
<1> DEFINE A == RunRows(Append(l, row), e, n, type)
           B == RunRows(l, e, n, type)
           C == IF Is(row, type, e) /\ row.type # "start" /\ IsLast(StartsIn(l, e), n) THEN {Len(l) + 1} ELSE {}
<1>1. A = B \cup C
  BY RowAdded
<1>2. C = {}
  OBVIOUS
<1> HIDE DEF A, B, C
<1>3. A = B
  BY <1>1, <1>2
<1>4. QED
  BY <1>3 DEF A, B

LEMMA RowOfLast ==
  ASSUME NEW l \in Seq(Rows), NEW row \in Rows, NEW e, NEW n \in StartsIn(l, e), NEW type,
         Is(row, type, e), type # "start", IsLast(StartsIn(l, e), n)
  PROVE  RunRows(Append(l, row), e, n, type) = RunRows(l, e, n, type) \cup {Len(l) + 1}
<1> DEFINE A == RunRows(Append(l, row), e, n, type)
           B == RunRows(l, e, n, type)
           C == IF Is(row, type, e) /\ row.type # "start" /\ IsLast(StartsIn(l, e), n) THEN {Len(l) + 1} ELSE {}
<1>1. A = B \cup C
  BY RowAdded
<1>2. C = {Len(l) + 1}
  BY DEF Is
<1> HIDE DEF A, B, C
<1>3. A = B \cup {Len(l) + 1}
  BY <1>1, <1>2
<1>4. QED
  BY <1>3 DEF A, B

LEMMA NoStart ==
  ASSUME NEW l \in Seq(Rows), NEW row \in Rows, NEW e, ~Is(row, "start", e)
  PROVE  StartsIn(Append(l, row), e) = StartsIn(l, e)
<1> DEFINE A == StartsIn(Append(l, row), e)
           B == StartsIn(l, e)
           C == IF Is(row, "start", e) THEN {Len(l) + 1} ELSE {}
<1>1. A = B \cup C
  BY StartAdded
<1>2. C = {}
  OBVIOUS
<1> HIDE DEF A, B, C
<1>3. A = B
  BY <1>1, <1>2
<1>4. QED
  BY <1>3 DEF A, B

\* A run that has just begun has no row of its own yet.
LEMMA NoRowYet ==
  ASSUME NEW l \in Seq(Rows), NEW row \in Rows, NEW e, NEW type
  PROVE  RunRows(Append(l, row), e, Len(l) + 1, type) = {}
<1>1. Len(l) \in Nat /\ DOMAIN Append(l, row) = 1..(Len(l) + 1)
  BY RowBehind
<1>2. \A m \in 1..(Len(l) + 1) : ~(Len(l) + 1 < m)
  BY <1>1
<1>3. QED
  BY <1>1, <1>2 DEF RunRows

----------------------------------------------------------------------------
\* The starts of an element are counted.
LEMMA StartsCount ==
  ASSUME NEW l \in Seq(Rows), NEW e
  PROVE  /\ IsFiniteSet(StartsIn(l, e)) /\ StartsIn(l, e) \subseteq 1..Len(l) /\ Len(l) \in Nat
         /\ StartsIn(l, e) \subseteq Nat
<1>1. Len(l) \in Nat /\ StartsIn(l, e) \subseteq 1..Len(l)
  BY LenProperties DEF StartsIn
<1>2. IsFiniteSet(1..Len(l))
  BY <1>1, FS_Interval
<1>3. QED
  BY <1>1, <1>2, FS_Subset

LEMMA Ranks ==
  ASSUME NEW S \in SUBSET Nat, IsFiniteSet(S), NEW n \in S
  PROVE  /\ Cardinality(S) \in Nat /\ Rank(S, n) \in 1..Cardinality(S)
         /\ Rank(S, n) = Cardinality(S) <=> IsLast(S, n)
<1> DEFINE U == {m \in S : m <= n}
<1>1. U \in SUBSET S /\ n \in U
  OBVIOUS
<1>2. /\ Cardinality(S) \in Nat /\ IsFiniteSet(U) /\ Cardinality(U) <= Cardinality(S)
      /\ Cardinality(S) = Cardinality(U) => S = U
  BY <1>1, FS_Subset, FS_CardinalityType
<1>3. Cardinality(U) \in Nat /\ Cardinality(U) # 0
  BY <1>1, <1>2, FS_CardinalityType, FS_EmptySet
<1>4. U = S <=> IsLast(S, n)
  BY DEF IsLast
<1>5. Rank(S, n) = Cardinality(U)
  BY DEF Rank
<1> HIDE DEF U
<1>6. QED
  BY <1>2, <1>3, <1>4, <1>5

LEMMA RankGrows ==
  ASSUME NEW S \in SUBSET Nat, IsFiniteSet(S), NEW n \in S, NEW m \in S, n < m
  PROVE  Rank(S, n) < Rank(S, m)
<1> DEFINE U == {x \in S : x <= n}
           V == {x \in S : x <= m}
<1>1. U \in SUBSET V /\ V \in SUBSET S /\ m \in V /\ m \notin U
  <2>1. \A x \in S : x <= n => x <= m
    OBVIOUS
  <2>2. m <= m /\ ~(m <= n)
    OBVIOUS
  <2>3. QED
    BY <2>1, <2>2
<1>2. IsFiniteSet(V) /\ Cardinality(V) \in Nat
  BY <1>1, FS_Subset, FS_CardinalityType
<1>3. IsFiniteSet(U) /\ Cardinality(U) <= Cardinality(V) /\ Cardinality(U) # Cardinality(V) /\ Cardinality(U) \in Nat
  BY <1>1, <1>2, FS_Subset, FS_CardinalityType
<1>4. Rank(S, n) = Cardinality(U) /\ Rank(S, m) = Cardinality(V)
  BY DEF Rank
<1> HIDE DEF U, V
<1>5. QED
  BY <1>2, <1>3, <1>4

\* A number behind all others is the last, and changes no rank.
LEMMA RankAdded ==
  ASSUME NEW S \in SUBSET Nat, IsFiniteSet(S), NEW x \in Nat, \A m \in S : m < x
  PROVE  /\ IsFiniteSet(S \cup {x}) /\ Cardinality(S \cup {x}) = Cardinality(S) + 1
         /\ Rank(S \cup {x}, x) = Cardinality(S) + 1
         /\ \A n \in S : Rank(S \cup {x}, n) = Rank(S, n)
<1>1. x \notin S
  OBVIOUS
<1>2. IsFiniteSet(S \cup {x}) /\ Cardinality(S \cup {x}) = Cardinality(S) + 1
  BY <1>1, FS_AddElement
<1>3. {m \in S \cup {x} : m <= x} = S \cup {x}
  <2>1. \A m \in S \cup {x} : m <= x
    OBVIOUS
  <2>2. QED
    BY <2>1
<1>4. ASSUME NEW n \in S PROVE {m \in S \cup {x} : m <= n} = {m \in S : m <= n}
  <2>1. ~(x <= n)
    OBVIOUS
  <2>2. QED
    BY <2>1
<1>5. QED
  BY <1>2, <1>3, <1>4 DEF Rank

----------------------------------------------------------------------------
\* What the rows R of a wait say of a run.
WaitedIs(R, w) == IF R = {} THEN w = 0 ELSE w \in R /\ \A m \in R : m <= w

StateIn(l, e, n) == IF RunRows(l, e, n, "discard") # {} THEN "cut"
                    ELSE IF RunRows(l, e, n, "end") # {} THEN "ended" ELSE "open"

\* The last snapshot before row n has data d.
Behind(l, n, d) == \E q \in 1..(n - 1) : /\ l[q].type = "variables" /\ l[q].data = d
                                         /\ \A m \in 1..(n - 1) : m > q => l[m].type # "variables"

OwnRows(l, e, n, x) == {m \in RunRows(l, e, n, "variables") : m > x}

\* A run that has ended left no snapshot and no change, or one that differs
\* from the one before it by its change.
Shows(l, e, n, c) ==
  \E x \in DOMAIN l :
    /\ RunRows(l, e, n, "end") = {x}
    /\ \/ OwnRows(l, e, n, x) = {} /\ c = {}
       \/ \E p \in DOMAIN l, d \in Data : /\ OwnRows(l, e, n, x) = {p} /\ Behind(l, p, d)
                                          /\ VariableChanges(d, l[p].data) = c

\* The rows of a run say what it was.
Agrees(l, e, n, run) ==
  /\ WaitedIs(RunRows(l, e, n, "wait"), run.waited)
  /\ run.state = StateIn(l, e, n)
  /\ run.state = "ended" /\ ~run.unsure => Shows(l, e, n, run.change)

Numbered(S, k) == Cardinality(S) = k /\ \A i \in 1..k : \E n \in S : Rank(S, n) = i

\* The log tells of the runs t of e, one after the other.
RunsOf(l, e, t) ==
  /\ Numbered(StartsIn(l, e), Len(t))
  /\ \A n \in StartsIn(l, e) : Agrees(l, e, n, t[Rank(StartsIn(l, e), n)])
  /\ \A n \in DOMAIN l : ~Is(l[n], "error", e)
  /\ (\E n \in DOMAIN l : Is(l[n], "end", e)) <=> (\E k \in 1..Len(t) : t[k].state = "ended")

LEMMA BehindStays ==
  ASSUME NEW l \in Seq(Rows), NEW q, \A m \in 1..Len(l) : q[m] = l[m], NEW n \in 1..(Len(l) + 1), NEW d,
         Behind(l, n, d)
  PROVE  Behind(q, n, d)
<1>1. Len(l) \in Nat
  BY LenProperties
<1>2. \A m \in 1..(n - 1) : q[m] = l[m]
  BY <1>1
<1>3. QED
  BY <1>2 DEF Behind

LEMMA BehindNext ==
  ASSUME NEW l \in Seq(Rows), NEW row \in Rows
  PROVE  /\ row.type = "variables" => Behind(Append(l, row), Len(l) + 2, row.data)
         /\ \A d : row.type # "variables" /\ Behind(l, Len(l) + 1, d) => Behind(Append(l, row), Len(l) + 2, d)
<1> DEFINE q == Append(l, row)
<1>1. Len(l) \in Nat /\ (\A m \in 1..Len(l) : q[m] = l[m]) /\ q[Len(l) + 1] = row
  BY RowBehind
<1> HIDE DEF q
<1>2. /\ Len(l) + 2 - 1 = Len(l) + 1 /\ Len(l) + 1 - 1 = Len(l) /\ Len(l) + 1 \in 1..(Len(l) + 1)
      /\ \A m \in 1..(Len(l) + 1) : m \in 1..Len(l) \/ m = Len(l) + 1
      /\ \A m \in 1..Len(l) : m \in 1..(Len(l) + 1)
      /\ \A m \in 1..(Len(l) + 1) : ~(m > Len(l) + 1)
  BY <1>1
<1>3. row.type = "variables" => Behind(q, Len(l) + 2, row.data)
  BY <1>1, <1>2 DEF Behind
<1>4. ASSUME NEW d, row.type # "variables", Behind(l, Len(l) + 1, d) PROVE Behind(q, Len(l) + 2, d)
  <2>1. PICK p \in 1..Len(l) : /\ l[p].type = "variables" /\ l[p].data = d
                               /\ \A m \in 1..Len(l) : m > p => l[m].type # "variables"
    BY <1>2, <1>4 DEF Behind
  <2>2. \A m \in 1..(Len(l) + 1) : m > p => q[m].type # "variables"
    BY <1>1, <1>2, <1>4, <2>1
  <2>3. QED
    BY <1>1, <1>2, <2>1, <2>2 DEF Behind
<1>5. QED
  BY <1>3, <1>4 DEF q

\* A run whose rows are the same was the same.
LEMMA AgreesStays ==
  ASSUME NEW l \in Seq(Rows), NEW q \in Seq(Rows), Len(l) <= Len(q), \A m \in 1..Len(l) : q[m] = l[m],
         NEW e, NEW n, NEW run, Agrees(l, e, n, run),
         \A type \in {"wait", "end", "discard", "variables"} : RunRows(q, e, n, type) = RunRows(l, e, n, type)
  PROVE  Agrees(q, e, n, run)
<1>1. /\ RunRows(q, e, n, "wait") = RunRows(l, e, n, "wait")
      /\ RunRows(q, e, n, "end") = RunRows(l, e, n, "end")
      /\ RunRows(q, e, n, "discard") = RunRows(l, e, n, "discard")
      /\ RunRows(q, e, n, "variables") = RunRows(l, e, n, "variables")
  OBVIOUS
<1>2. /\ Len(l) \in Nat /\ Len(q) \in Nat /\ DOMAIN l = 1..Len(l) /\ DOMAIN q = 1..Len(q)
      /\ \A m \in DOMAIN l : q[m] = l[m]
  BY LenProperties
<1>3. \A p \in DOMAIN l : \A d : Behind(l, p, d) => Behind(q, p, d)
  <2>1. \A p \in DOMAIN l : p \in 1..(Len(l) + 1)
    BY <1>2
  <2>2. QED
    BY <2>1, BehindStays
<1>4. \A p \in DOMAIN l : p \in DOMAIN q
  BY <1>2
<1>5. \A x : OwnRows(q, e, n, x) = OwnRows(l, e, n, x)
  BY <1>1 DEF OwnRows
<1>6. ASSUME NEW c, Shows(l, e, n, c) PROVE Shows(q, e, n, c)
  <2>1. PICK x \in DOMAIN l :
          /\ RunRows(l, e, n, "end") = {x}
          /\ \/ OwnRows(l, e, n, x) = {} /\ c = {}
             \/ \E p \in DOMAIN l, d \in Data : /\ OwnRows(l, e, n, x) = {p} /\ Behind(l, p, d)
                                                /\ VariableChanges(d, l[p].data) = c
    BY <1>6 DEF Shows
  <2>2. CASE OwnRows(l, e, n, x) = {} /\ c = {}
    BY <1>1, <1>4, <1>5, <2>1, <2>2 DEF Shows
  <2>3. ASSUME NEW p \in DOMAIN l, NEW d \in Data, OwnRows(l, e, n, x) = {p}, Behind(l, p, d),
               VariableChanges(d, l[p].data) = c
        PROVE  Shows(q, e, n, c)
    <3>1. p \in DOMAIN q /\ OwnRows(q, e, n, x) = {p} /\ Behind(q, p, d) /\ VariableChanges(d, q[p].data) = c
      BY <1>2, <1>3, <1>4, <1>5, <2>3
    <3>2. x \in DOMAIN q /\ RunRows(q, e, n, "end") = {x}
      BY <1>1, <1>4, <2>1
    <3>3. QED
      BY <3>1, <3>2 DEF Shows
  <2>4. QED
    BY <2>1, <2>2, <2>3
<1>7. QED
  BY <1>1, <1>6 DEF Agrees, StateIn

----------------------------------------------------------------------------
\* Rows that say nothing of e.
LEMMA OtherRows ==
  ASSUME NEW l \in Seq(Rows), NEW w \in Seq(Rows), NEW e, NEW t, RunsOf(l, e, t),
         \A n \in 1..Len(w) : w[n].el # e
  PROVE  RunsOf(l \o w, e, t)
<1> DEFINE q == l \o w
<1>1. /\ q \in Seq(Rows) /\ Len(q) = Len(l) + Len(w)
      /\ \A m \in 1..Len(l) : q[m] = l[m]
      /\ \A m \in 1..Len(w) : q[Len(l) + m] = w[m]
  <2>1. q \in Seq(Rows) /\ Len(q) = Len(l) + Len(w)
    BY TwoParts
  <2>2. \A m \in 1..Len(l) : q[m] = l[m]
    BY TwoParts
  <2>3. \A m \in 1..Len(w) : q[Len(l) + m] = w[m]
    BY TwoParts
  <2>4. QED
    BY <2>1, <2>2, <2>3
<1>2. Len(l) \in Nat /\ Len(w) \in Nat /\ DOMAIN l = 1..Len(l) /\ DOMAIN q = 1..Len(q) /\ Len(l) <= Len(q)
  BY <1>1, LenProperties
<1> HIDE DEF q
<1>3. \A m \in DOMAIN l : m \in DOMAIN q /\ q[m] = l[m]
  BY <1>1, <1>2
<1>4. \A m \in DOMAIN q : \A type : Is(q[m], type, e) => m \in DOMAIN l
  <2> SUFFICES ASSUME NEW m \in DOMAIN q, m \notin DOMAIN l PROVE q[m].el # e
    BY DEF Is
  <2>1. m - Len(l) \in 1..Len(w) /\ Len(l) + (m - Len(l)) = m
    BY <1>1, <1>2
  <2>2. q[Len(l) + (m - Len(l))] = w[m - Len(l)]
    BY <1>1, <2>1
  <2>3. QED
    BY <2>1, <2>2
<1>5. \A type, m : m \in DOMAIN q /\ Is(q[m], type, e) <=> m \in DOMAIN l /\ Is(l[m], type, e)
  BY <1>3, <1>4
<1>6. StartsIn(q, e) = StartsIn(l, e)
  BY <1>5 DEF StartsIn
<1>7. \A n, type : RunRows(q, e, n, type) = RunRows(l, e, n, type)
  BY <1>5, <1>6 DEF RunRows
<1>8. \A n \in StartsIn(l, e) : Agrees(q, e, n, t[Rank(StartsIn(l, e), n)])
  <2> TAKE n \in StartsIn(l, e)
  <2>1. Agrees(l, e, n, t[Rank(StartsIn(l, e), n)])
    BY DEF RunsOf
  <2>2. QED
    BY <1>1, <1>2, <1>7, <2>1, AgreesStays
<1>9. \A n \in DOMAIN q : ~Is(q[n], "error", e)
  BY <1>5 DEF RunsOf
<1>10. (\E n \in DOMAIN q : Is(q[n], "end", e)) <=> \E n \in DOMAIN l : Is(l[n], "end", e)
  BY <1>5
<1>11. RunsOf(q, e, t)
  BY <1>6, <1>8, <1>9, <1>10 DEF RunsOf
<1>12. QED
  BY <1>11 DEF q

\* A row that starts a run of e.
LEMMA RowOfStart ==
  ASSUME NEW l \in Seq(Rows), NEW row \in Rows, NEW e, NEW t \in Seq(Runs), RunsOf(l, e, t),
         Is(row, "start", e), NEW run \in Runs, run.waited = 0, run.state = "open"
  PROVE  RunsOf(Append(l, row), e, Append(t, run))
<1> DEFINE q == Append(l, row)
           S == StartsIn(l, e)
           x == Len(l) + 1
           u == Append(t, run)
<1>1. /\ Len(l) \in Nat /\ DOMAIN l = 1..Len(l) /\ DOMAIN q = 1..x
      /\ (\A m \in DOMAIN l : q[m] = l[m]) /\ q[x] = row
  BY RowBehind
<1>2. StartsIn(q, e) = S \cup {x}
  BY StartAdded
<1>3. S \in SUBSET Nat /\ IsFiniteSet(S) /\ x \in Nat /\ \A m \in S : m < x
  <2>1. S \subseteq 1..Len(l) /\ IsFiniteSet(S) /\ S \subseteq Nat
    BY StartsCount
  <2> HIDE DEF S
  <2>2. QED
    BY <1>1, <2>1
<1>4. /\ Cardinality(S \cup {x}) = Cardinality(S) + 1 /\ Rank(S \cup {x}, x) = Cardinality(S) + 1
      /\ \A n \in S : Rank(S \cup {x}, n) = Rank(S, n)
  <2> HIDE DEF S, x
  <2>1. QED
    BY <1>3, RankAdded
<1>5. Numbered(S, Len(t)) /\ \A n \in S : Rank(S, n) \in 1..Cardinality(S)
  <2>1. Numbered(S, Len(t))
    BY DEF RunsOf
  <2> HIDE DEF S
  <2>2. QED
    BY <1>3, <2>1, Ranks
<1>6. /\ Len(t) \in Nat /\ Len(u) = Len(t) + 1 /\ u[Len(t) + 1] = run
      /\ \A k \in 1..Len(t) : u[k] = t[k]
  BY LenProperties, AppendProperties
<1>7. \A n \in S : Agrees(q, e, n, t[Rank(S, n)])
  <2> TAKE n \in S
  <2>1. Agrees(l, e, n, t[Rank(S, n)])
    BY DEF RunsOf
  <2>2. \A type \in {"wait", "end", "discard", "variables"} : RunRows(q, e, n, type) = RunRows(l, e, n, type)
    <3>1. ~(row.type # "start")
      BY DEF Is
    <3>2. QED
      BY <3>1, RowElsewhere
  <2>3. q \in Seq(Rows) /\ Len(l) <= Len(q) /\ \A m \in 1..Len(l) : q[m] = l[m]
    BY RowBehind
  <2> HIDE DEF q
  <2>4. QED
    BY <2>1, <2>2, <2>3, AgreesStays
<1>8. Agrees(q, e, x, run)
  <2>1. \A type : RunRows(q, e, x, type) = {}
    BY NoRowYet
  <2> HIDE DEF q, x
  <2>2. QED
    BY <2>1 DEF Agrees, WaitedIs, StateIn
<1>9. \A type : type # "start" => ~Is(row, type, e)
  BY DEF Is
<1>10. /\ \A m \in 1..x : m \in 1..Len(l) \/ m = x
       /\ \A m \in 1..Len(l) : m \in 1..x
       /\ \A k \in 1..(Len(t) + 1) : k \in 1..Len(t) \/ k = Len(t) + 1
       /\ \A k \in 1..Len(t) : k \in 1..(Len(t) + 1)
  BY <1>1, <1>6
<1>11. (\A n \in DOMAIN l : ~Is(l[n], "error", e)) /\
       ((\E n \in DOMAIN l : Is(l[n], "end", e)) <=> (\E k \in 1..Len(t) : t[k].state = "ended"))
  BY DEF RunsOf
<1> HIDE DEF q, S, x, u
<1>12. Numbered(S \cup {x}, Len(u))
  <2>1. \A i \in 1..Len(t) : \E n \in S : Rank(S \cup {x}, n) = i
    BY <1>4, <1>5 DEF Numbered
  <2>2. QED
    BY <1>4, <1>5, <1>6, <1>10, <2>1 DEF Numbered
<1>13. \A n \in S \cup {x} : Agrees(q, e, n, u[Rank(S \cup {x}, n)])
  <2>1. \A n \in S : Agrees(q, e, n, u[Rank(S \cup {x}, n)])
    <3>1. \A n \in S : u[Rank(S, n)] = t[Rank(S, n)]
      BY <1>5, <1>6 DEF Numbered
    <3>2. QED
      BY <1>4, <1>7, <3>1
  <2>2. Agrees(q, e, x, u[Rank(S \cup {x}, x)])
    <3>1. u[Rank(S \cup {x}, x)] = run
      BY <1>4, <1>5, <1>6 DEF Numbered
    <3>2. QED
      BY <1>8, <3>1
  <2>3. QED
    BY <2>1, <2>2
<1>14. \A n \in DOMAIN q : ~Is(q[n], "error", e)
  BY <1>1, <1>9, <1>10, <1>11
<1>15. (\E n \in DOMAIN q : Is(q[n], "end", e)) <=> \E n \in DOMAIN l : Is(l[n], "end", e)
  BY <1>1, <1>9, <1>10
<1>16. (\E k \in 1..Len(u) : u[k].state = "ended") <=> \E k \in 1..Len(t) : t[k].state = "ended"
  BY <1>6, <1>10
<1>17. RunsOf(q, e, u)
  BY <1>2, <1>11, <1>12, <1>13, <1>14, <1>15, <1>16 DEF RunsOf
<1>18. QED
  BY <1>17 DEF q, u

\* The last run of e is the one that began last.
LEMMA LastStart ==
  ASSUME NEW l \in Seq(Rows), NEW e, NEW t \in Seq(Runs), RunsOf(l, e, t), t # << >>
  PROVE  /\ Len(t) \in 1..Len(t)
         /\ \E n \in StartsIn(l, e) : IsLast(StartsIn(l, e), n) /\ Agrees(l, e, n, t[Len(t)])
<1> DEFINE S == StartsIn(l, e)
<1>1. Len(t) \in Nat /\ Len(t) # 0
  BY LenProperties, EmptySeq
<1>2. Numbered(S, Len(t)) /\ IsFiniteSet(S) /\ S \in SUBSET Nat
  BY StartsCount DEF RunsOf
<1>3. \A n \in S : Agrees(l, e, n, t[Rank(S, n)])
  BY DEF RunsOf
<1> HIDE DEF S
<1>4. PICK n \in S : Rank(S, n) = Len(t)
  BY <1>1, <1>2 DEF Numbered
<1>5. IsLast(S, n)
  BY <1>2, <1>4, Ranks DEF Numbered
<1>6. QED
  BY <1>1, <1>3, <1>4, <1>5 DEF S

\* A row of the last run of e.
LEMMA RowOfRun ==
  ASSUME NEW l \in Seq(Rows), NEW row \in Rows, NEW e, NEW t \in Seq(Runs), RunsOf(l, e, t), t # << >>,
         row.el = e, row.type \in {"wait", "end", "discard", "variables"}, NEW run \in Runs,
         \A n \in StartsIn(l, e) : IsLast(StartsIn(l, e), n) => Agrees(Append(l, row), e, n, run),
         run.state = "ended" <=> row.type = "end" \/ t[Len(t)].state = "ended"
  PROVE  RunsOf(Append(l, row), e, [t EXCEPT ![Len(t)] = run])
<1> DEFINE q == Append(l, row)
           S == StartsIn(l, e)
           u == [t EXCEPT ![Len(t)] = run]
<1>1. /\ Len(l) \in Nat /\ DOMAIN l = 1..Len(l) /\ DOMAIN q = 1..(Len(l) + 1)
      /\ (\A m \in DOMAIN l : q[m] = l[m]) /\ q[Len(l) + 1] = row
  BY RowBehind
<1>2. ~Is(row, "start", e) /\ ~Is(row, "error", e) /\ (Is(row, "end", e) <=> row.type = "end")
  BY DEF Is
<1>3. StartsIn(q, e) = S
  BY <1>2, NoStart
<1>4. /\ Numbered(S, Len(t)) /\ IsFiniteSet(S) /\ S \in SUBSET Nat
      /\ \A n \in S : Agrees(l, e, n, t[Rank(S, n)])
  BY StartsCount DEF RunsOf
<1>5. Len(t) \in 1..Len(t) /\ Len(t) \in Nat /\ DOMAIN t = 1..Len(t)
  BY LastStart, LenProperties
<1>6. u \in Seq(Runs) /\ Len(u) = Len(t) /\ \A k \in 1..Len(t) : u[k] = IF k = Len(t) THEN run ELSE t[k]
  BY <1>5, ExceptSeq
<1>7. \A n \in S : /\ Rank(S, n) \in 1..Len(t)
                   /\ Rank(S, n) = Len(t) <=> IsLast(S, n)
  <2> HIDE DEF S
  <2>1. QED
    BY <1>4, Ranks DEF Numbered
<1>8. \A n \in S : ~IsLast(S, n) => Agrees(q, e, n, t[Rank(S, n)])
  <2> SUFFICES ASSUME NEW n \in S, ~IsLast(S, n) PROVE Agrees(q, e, n, t[Rank(S, n)])
    OBVIOUS
  <2>1. Agrees(l, e, n, t[Rank(S, n)])
    BY <1>4
  <2>2. \A type \in {"wait", "end", "discard", "variables"} : RunRows(q, e, n, type) = RunRows(l, e, n, type)
    BY RowElsewhere
  <2>3. q \in Seq(Rows) /\ Len(l) <= Len(q) /\ \A m \in 1..Len(l) : q[m] = l[m]
    BY RowBehind
  <2> HIDE DEF q
  <2>4. QED
    BY <2>1, <2>2, <2>3, AgreesStays
<1>9. \A n \in S : IsLast(S, n) => Agrees(q, e, n, run)
  OBVIOUS
<1>10. (\A n \in DOMAIN l : ~Is(l[n], "error", e)) /\
       ((\E n \in DOMAIN l : Is(l[n], "end", e)) <=> (\E k \in 1..Len(t) : t[k].state = "ended"))
  BY DEF RunsOf
<1>11. /\ \A m \in 1..(Len(l) + 1) : m \in 1..Len(l) \/ m = Len(l) + 1
       /\ \A m \in 1..Len(l) : m \in 1..(Len(l) + 1)
       /\ Len(l) + 1 \in 1..(Len(l) + 1)
  BY <1>1
<1> HIDE DEF q, S, u
<1>12. \A n \in S : Agrees(q, e, n, u[Rank(S, n)])
  BY <1>6, <1>7, <1>8, <1>9
<1>13. \A n \in DOMAIN q : ~Is(q[n], "error", e)
  BY <1>1, <1>2, <1>10, <1>11
<1>14. (\E n \in DOMAIN q : Is(q[n], "end", e)) <=> (\E n \in DOMAIN l : Is(l[n], "end", e)) \/ row.type = "end"
  BY <1>1, <1>2, <1>11
<1>15. (\E k \in 1..Len(u) : u[k].state = "ended") <=> (\E k \in 1..Len(t) : t[k].state = "ended") \/ row.type = "end"
  <2>1. (\E k \in 1..Len(u) : u[k].state = "ended") <=>
          run.state = "ended" \/ \E k \in 1..Len(t) : k # Len(t) /\ t[k].state = "ended"
    BY <1>5, <1>6
  <2>2. (\E k \in 1..Len(t) : t[k].state = "ended") <=>
          t[Len(t)].state = "ended" \/ \E k \in 1..Len(t) : k # Len(t) /\ t[k].state = "ended"
    BY <1>5
  <2>3. QED
    BY <2>1, <2>2
<1>16. RunsOf(q, e, u)
  BY <1>3, <1>4, <1>6, <1>10, <1>12, <1>13, <1>14, <1>15 DEF RunsOf
<1>17. QED
  BY <1>16 DEF q, u

----------------------------------------------------------------------------
\* The run of e began to wait.
LEMMA WaitRow ==
  ASSUME NEW l \in Seq(Rows), NEW row \in Rows, NEW e, NEW t \in Seq(Runs), RunsOf(l, e, t), t # << >>,
         t[Len(t)].state = "open", Is(row, "wait", e)
  PROVE  RunsOf(Append(l, row), e, [t EXCEPT ![Len(t)] = [t[Len(t)] EXCEPT !.waited = Len(l) + 1]])
<1> DEFINE q == Append(l, row)
           r == t[Len(t)]
           run == [r EXCEPT !.waited = Len(l) + 1]
<1>1. Len(l) \in Nat /\ Len(t) \in 1..Len(t) /\ r \in Runs
  BY LenProperties, LastStart, ElementOfSeq
<1>2. /\ run \in Runs /\ run.waited = Len(l) + 1 /\ run.state = "open" /\ row.el = e /\ row.type = "wait"
  <2>1. r.state = "open" /\ row.el = e /\ row.type = "wait" /\ Len(l) + 1 \in Nat
    BY <1>1 DEF Is
  <2> HIDE DEF r
  <2>2. QED
    BY <1>1, <2>1 DEF Runs
<1>3. ASSUME NEW n \in StartsIn(l, e), IsLast(StartsIn(l, e), n) PROVE Agrees(q, e, n, run)
  <2>1. Agrees(l, e, n, r)
    <3>1. Rank(StartsIn(l, e), n) = Len(t)
      BY <1>3, StartsCount, Ranks DEF RunsOf, Numbered
    <3>2. QED
      BY <3>1 DEF RunsOf
  <2>2. RunRows(q, e, n, "wait") = RunRows(l, e, n, "wait") \cup {Len(l) + 1}
    BY <1>3, RowOfLast
  <2>3. RunRows(q, e, n, "end") = RunRows(l, e, n, "end") /\ RunRows(q, e, n, "discard") = RunRows(l, e, n, "discard")
    <3>1. ~Is(row, "end", e) /\ ~Is(row, "discard", e)
      BY <1>2 DEF Is
    <3>2. QED
      BY <3>1, RowElsewhere
  <2>4. \A m \in RunRows(l, e, n, "wait") : m \in Nat /\ m <= Len(l) + 1
    <3>1. DOMAIN l = 1..Len(l) /\ RunRows(l, e, n, "wait") \subseteq DOMAIN l
      BY LenProperties DEF RunRows
    <3>2. QED
      BY <1>1, <3>1
  <2> HIDE DEF q, run, r
  <2>5. WaitedIs(RunRows(q, e, n, "wait"), run.waited)
    <3>1. Len(l) + 1 <= Len(l) + 1
      BY <1>1
    <3>2. QED
      BY <1>2, <2>2, <2>4, <3>1 DEF WaitedIs
  <2>6. run.state = StateIn(q, e, n)
    <3>1. r.state = "open"
      BY DEF r
    <3>2. QED
      BY <1>2, <2>1, <2>3, <3>1 DEF Agrees, StateIn
  <2>7. QED
    BY <1>2, <2>5, <2>6 DEF Agrees
<1> HIDE DEF run
<1>4. QED
  BY <1>2, <1>3, RowOfRun DEF run

\* The run of e was cut short.
LEMMA DiscardRow ==
  ASSUME NEW l \in Seq(Rows), NEW row \in Rows, NEW e, NEW t \in Seq(Runs), RunsOf(l, e, t), t # << >>,
         t[Len(t)].state = "open", Is(row, "discard", e)
  PROVE  RunsOf(Append(l, row), e, [t EXCEPT ![Len(t)] = [t[Len(t)] EXCEPT !.state = "cut"]])
<1> DEFINE q == Append(l, row)
           r == t[Len(t)]
           run == [r EXCEPT !.state = "cut"]
<1>1. Len(t) \in 1..Len(t) /\ r \in Runs
  BY LastStart, ElementOfSeq
<1>2. /\ run \in Runs /\ run.waited = r.waited /\ run.state = "cut" /\ row.el = e /\ row.type = "discard"
  BY <1>1 DEF Runs, Is
<1>3. ASSUME NEW n \in StartsIn(l, e), IsLast(StartsIn(l, e), n) PROVE Agrees(q, e, n, run)
  <2>1. Agrees(l, e, n, r)
    <3>1. Rank(StartsIn(l, e), n) = Len(t)
      BY <1>3, StartsCount, Ranks DEF RunsOf, Numbered
    <3>2. QED
      BY <3>1 DEF RunsOf
  <2>2. RunRows(q, e, n, "discard") = RunRows(l, e, n, "discard") \cup {Len(l) + 1}
    BY <1>3, RowOfLast
  <2>3. RunRows(q, e, n, "wait") = RunRows(l, e, n, "wait")
    <3>1. ~Is(row, "wait", e)
      BY <1>2 DEF Is
    <3>2. QED
      BY <3>1, RowElsewhere
  <2> HIDE DEF q, run, r
  <2>4. StateIn(q, e, n) = "cut"
    BY <2>2 DEF StateIn
  <2>5. QED
    BY <1>2, <2>1, <2>3, <2>4 DEF Agrees
<1> HIDE DEF run
<1>4. QED
  BY <1>2, <1>3, RowOfRun DEF run

\* What the last run of e is behind its end.
LEMMA EndedRows ==
  ASSUME NEW l \in Seq(Rows), NEW row \in Rows, NEW e, NEW n \in StartsIn(l, e), IsLast(StartsIn(l, e), n),
         Is(row, "end", e), StateIn(l, e, n) = "open"
  PROVE  /\ RunRows(Append(l, row), e, n, "end") = {Len(l) + 1}
         /\ OwnRows(Append(l, row), e, n, Len(l) + 1) = {}
         /\ StateIn(Append(l, row), e, n) = "ended"
         /\ RunRows(Append(l, row), e, n, "wait") = RunRows(l, e, n, "wait")
         /\ RunRows(Append(l, row), e, n, "discard") = {}
<1> DEFINE q == Append(l, row)
<1>1. RunRows(l, e, n, "discard") = {} /\ RunRows(l, e, n, "end") = {}
  BY DEF StateIn
<1>2. ~Is(row, "wait", e) /\ ~Is(row, "discard", e) /\ ~Is(row, "variables", e)
  BY DEF Is
<1>3. /\ RunRows(q, e, n, "wait") = RunRows(l, e, n, "wait")
      /\ RunRows(q, e, n, "discard") = RunRows(l, e, n, "discard")
      /\ RunRows(q, e, n, "variables") = RunRows(l, e, n, "variables")
  BY <1>2, RowElsewhere
<1>4. RunRows(q, e, n, "end") = RunRows(l, e, n, "end") \cup {Len(l) + 1}
  BY RowOfLast
<1>5. \A m \in RunRows(l, e, n, "variables") : ~(m > Len(l) + 1)
  <2>1. Len(l) \in Nat /\ DOMAIN l = 1..Len(l) /\ RunRows(l, e, n, "variables") \subseteq DOMAIN l
    BY LenProperties DEF RunRows
  <2>2. QED
    BY <2>1
<1> HIDE DEF q
<1>6. OwnRows(q, e, n, Len(l) + 1) = {}
  BY <1>3, <1>5 DEF OwnRows
<1>7. StateIn(q, e, n) = "ended"
  BY <1>1, <1>3, <1>4 DEF StateIn
<1>8. /\ RunRows(q, e, n, "end") = {Len(l) + 1} /\ RunRows(q, e, n, "discard") = {}
  BY <1>1, <1>3, <1>4
<1>9. QED
  BY <1>3, <1>6, <1>7, <1>8 DEF q

\* The run of e ended and changed nothing, or nothing is known of its change.
LEMMA EndRow ==
  ASSUME NEW l \in Seq(Rows), NEW row \in Rows, NEW e, NEW t \in Seq(Runs), RunsOf(l, e, t), t # << >>,
         t[Len(t)].state = "open", Is(row, "end", e), NEW run \in Runs,
         run.waited = t[Len(t)].waited, run.state = "ended", ~run.unsure => run.change = {}
  PROVE  RunsOf(Append(l, row), e, [t EXCEPT ![Len(t)] = run])
<1> DEFINE q == Append(l, row)
           r == t[Len(t)]
<1>1. row.el = e /\ row.type = "end"
  BY DEF Is
<1>2. Len(l) + 1 \in DOMAIN q
  BY RowBehind
<1>3. ASSUME NEW n \in StartsIn(l, e), IsLast(StartsIn(l, e), n) PROVE Agrees(q, e, n, run)
  <2>1. Agrees(l, e, n, r)
    <3>1. Rank(StartsIn(l, e), n) = Len(t)
      BY <1>3, StartsCount, Ranks DEF RunsOf, Numbered
    <3>2. QED
      BY <3>1 DEF RunsOf
  <2>2. StateIn(l, e, n) = "open"
    BY <2>1 DEF Agrees
  <2>3. /\ RunRows(q, e, n, "end") = {Len(l) + 1} /\ OwnRows(q, e, n, Len(l) + 1) = {}
        /\ StateIn(q, e, n) = "ended" /\ RunRows(q, e, n, "wait") = RunRows(l, e, n, "wait")
    BY <1>3, <2>2, EndedRows
  <2> HIDE DEF q
  <2>4. ~run.unsure => Shows(q, e, n, run.change)
    BY <1>2, <2>3 DEF Shows
  <2>5. QED
    BY <2>1, <2>3, <2>4 DEF Agrees
<1>4. QED
  BY <1>1, <1>3, RowOfRun

\* The run of e ended and took a snapshot of what it changed.
LEMMA EndSnapshotRow ==
  ASSUME NEW l \in Seq(Rows), NEW row \in Rows, NEW snap \in Rows, NEW e, NEW t \in Seq(Runs),
         RunsOf(l, e, t), t # << >>, t[Len(t)].state = "open", Is(row, "end", e), Is(snap, "variables", e),
         NEW d \in Data, Behind(l, Len(l) + 1, d), NEW run \in Runs, run.waited = t[Len(t)].waited,
         run.state = "ended", ~run.unsure, run.change = VariableChanges(d, snap.data)
  PROVE  RunsOf(Append(Append(l, row), snap), e, [t EXCEPT ![Len(t)] = run])
<1> DEFINE q == Append(l, row)
           q2 == Append(q, snap)
           r == t[Len(t)]
           known == [run EXCEPT !.unsure = TRUE]
           u == [t EXCEPT ![Len(t)] = known]
<1>1. /\ known \in Runs /\ known.waited = run.waited /\ known.state = "ended" /\ known.unsure
  BY DEF Runs
<1>2. q \in Seq(Rows) /\ Len(q) = Len(l) + 1 /\ Len(l) \in Nat
  BY RowBehind
<1>3. q2 \in Seq(Rows) /\ Len(q) + 1 \in DOMAIN q2 /\ q2[Len(q) + 1] = snap /\ Len(q) + 1 \in 1..(Len(q) + 1)
      /\ DOMAIN q \subseteq DOMAIN q2
  <2>1. /\ q2 \in Seq(Rows) /\ Len(q) \in Nat /\ DOMAIN q = 1..Len(q) /\ DOMAIN q2 = 1..(Len(q) + 1)
        /\ q2[Len(q) + 1] = snap
    BY <1>2, RowBehind
  <2>2. QED
    BY <2>1
<1>4. RunsOf(q, e, u)
  <2> HIDE DEF known
  <2>1. QED
    BY <1>1, EndRow
<1>5. Len(t) \in 1..Len(t) /\ Len(t) \in Nat
  BY LastStart, LenProperties
<1>6. u \in Seq(Runs) /\ Len(u) = Len(t) /\ u[Len(t)] = known /\ u # << >>
  <2> HIDE DEF known
  <2>1. u \in Seq(Runs) /\ Len(u) = Len(t) /\ u[Len(t)] = known
    BY <1>1, <1>5, ExceptSeq
  <2>2. QED
    BY <1>5, <2>1, EmptySeq
<1>7. [u EXCEPT ![Len(u)] = run] = [t EXCEPT ![Len(t)] = run]
  <2> DEFINE k == Len(t)
  <2>1. t \in [1..k -> Runs]
    BY LenProperties
  <2>2. Len(u) = k
    BY <1>6
  <2> HIDE DEF k, known
  <2>3. [[t EXCEPT ![k] = known] EXCEPT ![k] = run] = [t EXCEPT ![k] = run]
    BY <2>1
  <2>4. QED
    BY <2>2, <2>3 DEF k
<1>8. snap.el = e /\ snap.type = "variables" /\ row.type # "variables"
  BY DEF Is
<1>9. ASSUME NEW n \in StartsIn(q, e), IsLast(StartsIn(q, e), n) PROVE Agrees(q2, e, n, run)
  <2>1. StartsIn(q, e) = StartsIn(l, e)
    <3>1. ~Is(row, "start", e)
      BY DEF Is
    <3>2. QED
      BY <3>1, NoStart
  <2>2. Agrees(l, e, n, r)
    <3>1. Rank(StartsIn(l, e), n) = Len(t)
      BY <1>9, <2>1, StartsCount, Ranks DEF RunsOf, Numbered
    <3>2. QED
      BY <2>1, <3>1 DEF RunsOf
  <2>3. StateIn(l, e, n) = "open"
    BY <2>2 DEF Agrees
  <2>4. /\ RunRows(q, e, n, "end") = {Len(l) + 1} /\ OwnRows(q, e, n, Len(l) + 1) = {}
        /\ RunRows(q, e, n, "wait") = RunRows(l, e, n, "wait") /\ RunRows(q, e, n, "discard") = {}
    BY <1>9, <2>1, <2>3, EndedRows
  <2>5. /\ RunRows(q2, e, n, "end") = RunRows(q, e, n, "end")
        /\ RunRows(q2, e, n, "wait") = RunRows(q, e, n, "wait")
        /\ RunRows(q2, e, n, "discard") = RunRows(q, e, n, "discard")
    <3>1. ~Is(snap, "end", e) /\ ~Is(snap, "wait", e) /\ ~Is(snap, "discard", e)
      BY <1>8 DEF Is
    <3> HIDE DEF q
    <3>2. QED
      BY <1>2, <1>9, <3>1, RowElsewhere
  <2>6. RunRows(q2, e, n, "variables") = RunRows(q, e, n, "variables") \cup {Len(q) + 1}
    <3> HIDE DEF q
    <3>1. QED
      BY <1>2, <1>9, RowOfLast
  <2>7. Behind(q2, Len(q) + 1, d)
    <3>1. Behind(q, Len(l) + 2, d)
      BY <1>8, BehindNext
    <3>2. Len(l) + 2 = Len(q) + 1
      BY <1>2
    <3>3. Behind(q, Len(q) + 1, d)
      BY <3>1, <3>2
    <3>4. \A m \in 1..Len(q) : q2[m] = q[m]
      BY <1>2, RowBehind
    <3>5. Len(q) + 1 \in 1..(Len(q) + 1)
      BY <1>2
    <3> HIDE DEF q, q2
    <3>6. QED
      BY <1>2, <3>3, <3>4, <3>5, BehindStays
  <2>8. Len(l) + 1 \in DOMAIN q
    BY RowBehind
  <2> HIDE DEF q2, q, r
  <2>9. OwnRows(q2, e, n, Len(l) + 1) = {Len(q) + 1}
    <3>1. Len(q) + 1 > Len(l) + 1
      BY <1>2
    <3>2. QED
      BY <2>4, <2>6, <3>1 DEF OwnRows
  <2>10. Shows(q2, e, n, run.change)
    <3>1. VariableChanges(d, q2[Len(q) + 1].data) = run.change
      BY <1>3
    <3>2. Len(l) + 1 \in DOMAIN q2 /\ RunRows(q2, e, n, "end") = {Len(l) + 1}
      BY <1>3, <2>4, <2>5, <2>8
    <3>3. QED
      BY <1>3, <2>7, <2>9, <3>1, <3>2 DEF Shows
  <2>11. StateIn(q2, e, n) = "ended"
    BY <2>4, <2>5 DEF StateIn
  <2>12. WaitedIs(RunRows(q2, e, n, "wait"), run.waited)
    BY <2>2, <2>4, <2>5 DEF Agrees, r
  <2>13. QED
    BY <2>10, <2>11, <2>12 DEF Agrees
<1>10. run.state = "ended" <=> snap.type = "end" \/ u[Len(u)].state = "ended"
  BY <1>1, <1>6
<1> HIDE DEF q, q2, u, known
<1>11. RunsOf(q2, e, [u EXCEPT ![Len(u)] = run])
  BY <1>2, <1>4, <1>6, <1>8, <1>9, <1>10, RowOfRun DEF q2
<1>12. QED
  BY <1>7, <1>11 DEF q2, q

\* A snapshot more of a run of whose change nothing is known.
LEMMA SnapshotRow ==
  ASSUME NEW l \in Seq(Rows), NEW row \in Rows, NEW e, NEW t \in Seq(Runs), RunsOf(l, e, t), t # << >>,
         t[Len(t)].state = "ended", t[Len(t)].unsure, Is(row, "variables", e)
  PROVE  RunsOf(Append(l, row), e, t)
<1> DEFINE q == Append(l, row)
           r == t[Len(t)]
<1>1. Len(t) \in 1..Len(t) /\ r \in Runs /\ row.el = e /\ row.type = "variables"
  BY LastStart, ElementOfSeq DEF Is
<1>2. ASSUME NEW n \in StartsIn(l, e), IsLast(StartsIn(l, e), n) PROVE Agrees(q, e, n, r)
  <2>1. Agrees(l, e, n, r)
    <3>1. Rank(StartsIn(l, e), n) = Len(t)
      BY <1>2, StartsCount, Ranks DEF RunsOf, Numbered
    <3>2. QED
      BY <3>1 DEF RunsOf
  <2>2. /\ RunRows(q, e, n, "end") = RunRows(l, e, n, "end")
        /\ RunRows(q, e, n, "wait") = RunRows(l, e, n, "wait")
        /\ RunRows(q, e, n, "discard") = RunRows(l, e, n, "discard")
    <3>1. ~Is(row, "end", e) /\ ~Is(row, "wait", e) /\ ~Is(row, "discard", e)
      BY <1>1 DEF Is
    <3>2. QED
      BY <3>1, RowElsewhere
  <2> HIDE DEF q
  <2>3. QED
    BY <2>1, <2>2 DEF Agrees, StateIn
<1>3. RunsOf(q, e, [t EXCEPT ![Len(t)] = r])
  BY <1>1, <1>2, RowOfRun
<1>4. [t EXCEPT ![Len(t)] = r] = t
  <2>1. t \in [1..Len(t) -> Runs]
    BY LenProperties
  <2>2. QED
    BY <2>1
<1>5. QED
  BY <1>3, <1>4

\* One variable that changes is the only change.
LEMMA OneChange ==
  ASSUME NEW d \in Data, NEW e \in Element, NEW v
  PROVE  VariableChanges(d, [d EXCEPT ![e] = v]) = Change(e, d[e], v)
<1> DEFINE w == [d EXCEPT ![e] = v]
<1>1. w[e] = v /\ \A x \in Element : x # e => w[x] = d[x]
  BY DEF Data
<1> HIDE DEF w
<1>2. \A x \in Element : x # e => Change(x, d[x], w[x]) = {}
  BY <1>1 DEF Change
<1>3. \A c : (\E x \in Element : c \in Change(x, d[x], w[x])) <=> c \in Change(e, d[e], v)
  BY <1>1, <1>2
<1>4. VariableChanges(d, w) = Change(e, d[e], v)
  BY <1>3 DEF VariableChanges
<1>5. QED
  BY <1>4 DEF w

----------------------------------------------------------------------------
(***************************************************************************)
(* What elementRuns reads.                                                 *)
(***************************************************************************)

LEMMA LeastIs ==
  ASSUME NEW S \in SUBSET Nat, NEW s \in S, \A m \in S : s <= m
  PROVE  Least(S) = s
<1> DEFINE P(n) == n \in S /\ \A m \in S : n <= m
<1>1. \A n : P(n) => n = s
  <2> SUFFICES ASSUME NEW n, P(n) PROVE n = s
    OBVIOUS
  <2>1. n <= s /\ s <= n /\ n \in Nat /\ s \in Nat
    OBVIOUS
  <2>2. QED
    BY <2>1
<1>2. P(s)
  OBVIOUS
<1> HIDE DEF P
<1>3. (CHOOSE n : P(n)) = s
  BY <1>1, <1>2
<1>4. QED
  BY <1>3 DEF Least, P

LEMMA LatestIs ==
  ASSUME NEW S \in SUBSET Nat, NEW s \in S, \A m \in S : m <= s
  PROVE  Latest(S) = s
<1> DEFINE P(n) == n \in S /\ \A m \in S : m <= n
<1>1. \A n : P(n) => n = s
  <2> SUFFICES ASSUME NEW n, P(n) PROVE n = s
    OBVIOUS
  <2>1. n <= s /\ s <= n /\ n \in Nat /\ s \in Nat
    OBVIOUS
  <2>2. QED
    BY <2>1
<1>2. P(s)
  OBVIOUS
<1> HIDE DEF P
<1>3. (CHOOSE n : P(n)) = s
  BY <1>1, <1>2
<1>4. QED
  BY <1>3 DEF Latest, P

\* A run goes on to the next start of its element.
LEMMA NextStartIs ==
  ASSUME log \in Seq(Rows), NEW e, NEW k, Numbered(StartsIn(log, e), k), NEW n \in StartsIn(log, e)
  PROVE  \A m \in DOMAIN log : m < NextStart(e, n) <=> \A s \in StartsIn(log, e) : n < s => m < s
<1> DEFINE S == StartsIn(log, e)
           U == {m \in S : m > n}
           x == Len(log) + 1
<1>1. /\ IsFiniteSet(S) /\ S \in SUBSET Nat /\ S \subseteq 1..Len(log) /\ Len(log) \in Nat
      /\ DOMAIN log = 1..Len(log)
  BY StartsCount, LenProperties
<1>2. NextStart(e, n) = Least(U \cup {x})
  BY DEF NextStart, Starts, Logged, StartsIn, Is
<1>3. x \in Nat /\ (\A m \in S : m < x) /\ \A m \in 1..Len(log) : m < x
  BY <1>1
<1>4. U \cup {x} \in SUBSET Nat
  BY <1>1, <1>3
<1> HIDE DEF S, x
<1>5. CASE IsLast(S, n)
  <2>1. U = {}
    <3>1. \A m \in S : ~(m > n)
      BY <1>1, <1>5 DEF IsLast
    <3>2. QED
      BY <3>1
  <2>2. \A m \in U \cup {x} : x <= m
    BY <1>3, <2>1
  <2>3. NextStart(e, n) = x
    BY <1>2, <1>4, <2>2, LeastIs
  <2>4. \A s \in S : ~(n < s)
    BY <2>1
  <2>5. QED
    BY <1>1, <1>3, <2>3, <2>4 DEF S
<1>6. CASE ~IsLast(S, n)
  <2>1. n \in S /\ Numbered(S, k)
    BY DEF S
  <2>2. Rank(S, n) \in 1..k /\ Rank(S, n) # k /\ k \in Nat
    BY <1>1, <1>6, <2>1, Ranks DEF Numbered
  <2>3. PICK s \in S : Rank(S, s) = Rank(S, n) + 1
    <3>1. Rank(S, n) + 1 \in 1..k
      BY <2>2
    <3>2. QED
      BY <2>1, <3>1 DEF Numbered
  <2>4. \A m \in S : Rank(S, m) \in Nat
    <3>1. \A m \in S : Rank(S, m) \in 1..Cardinality(S) /\ Cardinality(S) \in Nat
      BY <1>1, Ranks
    <3>2. QED
      BY <3>1
  <2>5. n < s
    <3>1. ~(s < n)
      <4>1. s < n => Rank(S, s) < Rank(S, n)
        BY <1>1, <2>1, RankGrows
      <4>2. QED
        BY <2>1, <2>3, <2>4, <4>1
    <3>2. s # n
      BY <2>1, <2>3, <2>4
    <3>3. QED
      BY <1>1, <2>1, <3>1, <3>2
  <2>6. ASSUME NEW m \in S, n < m PROVE s <= m
    <3>1. Rank(S, n) < Rank(S, m)
      BY <1>1, <2>1, <2>6, RankGrows
    <3>2. m < s => Rank(S, m) < Rank(S, s)
      BY <1>1, RankGrows
    <3>3. ~(m < s)
      BY <2>1, <2>3, <2>4, <3>1, <3>2
    <3>4. QED
      BY <1>1, <3>3
  <2>7. s \in U \cup {x} /\ \A m \in U \cup {x} : s <= m
    <3>1. s \in U
      BY <2>5
    <3>2. \A m \in U : s <= m
      BY <2>6
    <3>3. s <= x
      BY <1>1, <1>3
    <3>4. QED
      BY <3>1, <3>2, <3>3
  <2>8. NextStart(e, n) = s
    BY <1>2, <1>4, <2>7, LeastIs
  <2>9. ASSUME NEW m \in 1..Len(log) PROVE m < s <=> \A y \in S : n < y => m < y
    <3>1. ASSUME m < s, NEW y \in S, n < y PROVE m < y
      <4>1. s <= y /\ s \in Nat /\ y \in Nat /\ m \in Nat
        BY <1>1, <2>6, <3>1
      <4>2. QED
        BY <3>1, <4>1
    <3>2. QED
      BY <2>5, <3>1
  <2>10. QED
    BY <1>1, <2>8, <2>9 DEF S
<1>7. QED
  BY <1>5, <1>6

\* The rows that are read for a run are its own.
LEMMA RowsRead ==
  ASSUME log \in Seq(Rows), NEW e, NEW k, Numbered(StartsIn(log, e), k), NEW n \in StartsIn(log, e), NEW type
  PROVE  RowsOf(e, n, type) = RunRows(log, e, n, type)
<1>1. \A m \in DOMAIN log : m < NextStart(e, n) <=> \A s \in StartsIn(log, e) : n < s => m < s
  BY NextStartIs
<1>2. \A m \in DOMAIN log : m \in RowsOf(e, n, type) <=> m \in RunRows(log, e, n, type)
  BY <1>1 DEF RowsOf, RunRows, Logged, Is
<1>3. RowsOf(e, n, type) \subseteq DOMAIN log /\ RunRows(log, e, n, type) \subseteq DOMAIN log
  BY DEF RowsOf, RunRows, Logged
<1>4. QED
  BY <1>2, <1>3

\* What is read of a run is what it was.
LEMMA RunRead ==
  ASSUME log \in Seq(Rows), NEW e, NEW k, Numbered(StartsIn(log, e), k), NEW n \in StartsIn(log, e),
         NEW run, Agrees(log, e, n, run)
  PROVE  /\ ElementRun(e, n).waited = run.waited /\ ElementRun(e, n).state = run.state
         /\ run.state = "ended" /\ ~run.unsure => ElementRun(e, n).change = run.change
<1>1. \A type : RowsOf(e, n, type) = RunRows(log, e, n, type)
  BY RowsRead
<1>2. \A type : RunRows(log, e, n, type) \in SUBSET Nat
  <2>1. DOMAIN log = 1..Len(log) /\ Len(log) \in Nat
    BY LenProperties
  <2>2. QED
    BY <2>1 DEF RunRows
<1>3. ElementRun(e, n).waited = run.waited
  <2> DEFINE R == RunRows(log, e, n, "wait")
  <2>1. ElementRun(e, n).waited = IF R = {} THEN 0 ELSE Latest(R)
    BY <1>1 DEF ElementRun
  <2>2. R \in SUBSET Nat /\ WaitedIs(R, run.waited)
    BY <1>2 DEF Agrees
  <2> HIDE DEF R
  <2>3. R # {} => Latest(R) = run.waited
    BY <2>2, LatestIs DEF WaitedIs
  <2>4. QED
    BY <2>1, <2>2, <2>3 DEF WaitedIs
<1>4. ElementRun(e, n).state = run.state
  BY <1>1 DEF ElementRun, Agrees, StateIn
<1>5. ASSUME run.state = "ended", ~run.unsure PROVE Changes(e, n) = run.change
  <2> DEFINE c == run.change
  <2>1. PICK x \in DOMAIN log :
          /\ RunRows(log, e, n, "end") = {x}
          /\ \/ OwnRows(log, e, n, x) = {} /\ c = {}
             \/ \E p \in DOMAIN log, d \in Data : /\ OwnRows(log, e, n, x) = {p} /\ Behind(log, p, d)
                                                  /\ VariableChanges(d, log[p].data) = c
    BY <1>5 DEF Agrees, Shows
  <2>2. x \in Nat /\ DOMAIN log = 1..Len(log) /\ Len(log) \in Nat
    BY LenProperties
  <2>3. Latest({x}) = x
    <3>1. {x} \in SUBSET Nat /\ x \in {x} /\ \A m \in {x} : m <= x
      BY <2>2
    <3>2. QED
      BY <3>1, LatestIs
  <2>4. Own(e, n) = OwnRows(log, e, n, x)
    BY <1>1, <2>1, <2>3 DEF Own, OwnRows
  <2>5. RowsOf(e, n, "end") # {}
    BY <1>1, <2>1
  <2> HIDE DEF c
  <2>6. CASE OwnRows(log, e, n, x) = {} /\ c = {}
    BY <2>4, <2>6 DEF Changes, c
  <2>7. ASSUME NEW p \in DOMAIN log, NEW d \in Data, OwnRows(log, e, n, x) = {p}, Behind(log, p, d),
               VariableChanges(d, log[p].data) = c
        PROVE  Changes(e, n) = c
    <3>1. p \in Nat
      BY <2>2
    <3>2. Least(Own(e, n)) = p
      <4>1. {p} \in SUBSET Nat /\ p \in {p} /\ \A m \in {p} : p <= m
        BY <3>1
      <4>2. Least({p}) = p
        BY <4>1, LeastIs
      <4>3. QED
        BY <2>4, <2>7, <4>2
    <3>3. PICK q \in 1..(p - 1) : /\ log[q].type = "variables" /\ log[q].data = d
                                 /\ \A m \in 1..(p - 1) : m > q => log[m].type # "variables"
      BY <2>7 DEF Behind
    <3>4. q \in SnapshotsBefore(p) /\ SnapshotsBefore(p) \in SUBSET Nat
      BY <3>1, <3>3 DEF SnapshotsBefore
    <3>5. \A m \in SnapshotsBefore(p) : m <= q
      BY <3>1, <3>3 DEF SnapshotsBefore
    <3>6. Latest(SnapshotsBefore(p)) = q
      BY <3>4, <3>5, LatestIs
    <3>7. Before(p) = d
      BY <3>3, <3>4, <3>6 DEF Before
    <3>8. Own(e, n) # {}
      BY <2>4, <2>7
    <3>9. Changes(e, n) = VariableChanges(Before(p), log[p].data)
      BY <2>5, <3>2, <3>8 DEF Changes
    <3>10. QED
      BY <2>7, <3>7, <3>9
  <2>8. QED
    BY <2>1, <2>6, <2>7 DEF c
<1>6. ElementRun(e, n).change = Changes(e, n)
  BY DEF ElementRun
<1>7. QED
  BY <1>3, <1>4, <1>5, <1>6

\* The runs that are read are those the log tells of.
LEMMA RunsRead ==
  ASSUME log \in Seq(Rows), NEW e, NEW t \in Seq(Runs), RunsOf(log, e, t)
  PROVE  /\ Progress(e).runs = Len(t) /\ ~Progress(e).failed
         /\ Progress(e).done = \E k \in DOMAIN t : t[k].state = "ended"
         /\ Len(ElementRuns(e)) = Len(t)
         /\ \A k \in DOMAIN t :
              /\ ElementRuns(e)[k].waited = t[k].waited /\ ElementRuns(e)[k].state = t[k].state
              /\ t[k].state = "ended" /\ ~t[k].unsure => ElementRuns(e)[k].change = t[k].change
<1> DEFINE S == StartsIn(log, e)
<1>1. Starts(e) = S
  BY DEF Starts, Logged, StartsIn, Is
<1>2. /\ Numbered(S, Len(t)) /\ Len(t) \in Nat /\ DOMAIN t = 1..Len(t)
  BY LenProperties DEF RunsOf
<1>3. \A n \in S : Agrees(log, e, n, t[Rank(S, n)])
  BY DEF RunsOf
<1>4. (Logged("error", e) = {}) /\ (Logged("end", e) # {} <=> \E k \in DOMAIN t : t[k].state = "ended")
  BY <1>2 DEF RunsOf, Logged, Is
<1>5. ASSUME NEW k \in 1..Len(t)
      PROVE  /\ ElementRuns(e)[k].waited = t[k].waited /\ ElementRuns(e)[k].state = t[k].state
             /\ t[k].state = "ended" /\ ~t[k].unsure => ElementRuns(e)[k].change = t[k].change
  <2> DEFINE n == CHOOSE x \in S : Rank(S, x) = k
  <2>1. n \in S /\ Rank(S, n) = k
    BY <1>2 DEF Numbered
  <2>2. ElementRuns(e)[k] = ElementRun(e, n)
    BY <1>1, <1>2 DEF ElementRuns, Rank, Numbered
  <2> HIDE DEF n
  <2>3. Agrees(log, e, n, t[k])
    BY <1>3, <2>1
  <2>4. QED
    BY <1>2, <2>1, <2>2, <2>3, RunRead
<1>6. Len(ElementRuns(e)) = Len(t)
  BY <1>1, <1>2 DEF ElementRuns, Numbered
<1>7. Progress(e).runs = Len(t)
  BY <1>1, <1>2 DEF Progress, Numbered
<1>8. ~Progress(e).failed /\ Progress(e).done = \E k \in DOMAIN t : t[k].state = "ended"
  BY <1>4 DEF Progress
<1>9. QED
  BY <1>2, <1>5, <1>6, <1>7, <1>8

----------------------------------------------------------------------------
(***************************************************************************)
(* As long as no life was lost.                                            *)
(***************************************************************************)

AtRest   == phase \in {"parked", "due"}
Underway == phase = "running" \/ AtRest

\* Where the elements are, and the data: of the run, or saved between two runs.
Now    == IF AtRest THEN saved.at ELSE at
Values == IF AtRest THEN saved.data ELSE data

\* Nothing is left wrong or to be retried but by rows that were refused: a wait
\* at rest is in the log, and the last snapshot has the data.
CleanInv ==
  lost = 0 =>
    /\ stray \subseteq missed /\ replayed \subseteq missed /\ retriers = 0 /\ late = 0 /\ phase # "failed"
    /\ AtRest => \A e \in Element \ missed : e \in Waits(log) <=> e \in ParkedOn(saved.at)
    /\ phase = "running" => logged = data
    /\ Underway /\ ~gap => Behind(log, Len(log) + 1, Values)

\* The last run of e is open and began with the value its variable has now.
OpenRun(e) == truth[e] # << >> /\ truth[e][Len(truth[e])].state = "open" /\ began[e] = Values[e]

\* The log tells of the runs as they were, and an element that is not idle is
\* in its last run.
RunsInv ==
  lost = 0 => \A e \in Element \ missed :
    /\ RunsOf(log, e, truth[e])
    /\ Underway /\ Now[e] # "idle" => OpenRun(e)

\* Rows of e are written as they are, unless e is missed.
LEMMA OwnWritten ==
  ASSUME NEW rows \in Seq(Rows), NEW S, Record(rows, S), lost = 0, NEW e, e \notin missed',
         \A n \in 1..Len(rows) : rows[n].el = e
  PROVE  log' = log \o rows
<1>1. PICK w \in Seq(Rows) : Written(w, rows, S)
  BY Recorded
<1>2. Len(w) = Len(rows) /\ \A n \in 1..Len(rows) : w[n] = rows[n]
  BY <1>1 DEF Written
<1>3. w \in [1..Len(w) -> Rows] /\ rows \in [1..Len(rows) -> Rows]
  BY LenProperties
<1>4. w = rows
  BY <1>2, <1>3
<1>5. QED
  BY <1>1, <1>4 DEF Written

\* Rows of others change nothing of what the log tells of e.
LEMMA OthersTold ==
  ASSUME LogInv, NEW rows \in Seq(Rows), NEW S, Record(rows, S), NEW e \in Element,
         \A n \in 1..Len(rows) : rows[n].el # e, NEW t, RunsOf(log, e, t)
  PROVE  RunsOf(log', e, t)
<1>1. PICK w \in Seq(Rows) : Written(w, rows, S)
  BY Recorded
<1>2. Hole.el # e
  BY RowIn, Kinds
<1>3. \A n \in 1..Len(w) : w[n].el # e
  BY <1>1, <1>2 DEF Written
<1>4. log' = log \o w /\ log \in Seq(Rows)
  BY <1>1 DEF Written, LogInv
<1>5. QED
  BY <1>3, <1>4, OtherRows

\* The last snapshot behind new rows.
LEMMA BehindRows ==
  ASSUME NEW l \in Seq(Rows), NEW w \in Seq(Rows), NEW d,
         \/ Behind(l, Len(l) + 1, d) /\ \A n \in 1..Len(w) : w[n].type # "variables"
         \/ \E k \in 1..Len(w) : /\ w[k].type = "variables" /\ w[k].data = d
                                 /\ \A n \in 1..Len(w) : n > k => w[n].type # "variables"
  PROVE  Behind(l \o w, Len(l \o w) + 1, d)
<1> DEFINE q == l \o w
<1>1. /\ Len(q) = Len(l) + Len(w)
      /\ \A m \in 1..Len(l) : q[m] = l[m]
      /\ \A m \in 1..Len(w) : q[Len(l) + m] = w[m]
  <2>1. Len(q) = Len(l) + Len(w)
    BY TwoParts
  <2>2. \A m \in 1..Len(l) : q[m] = l[m]
    BY TwoParts
  <2>3. \A m \in 1..Len(w) : q[Len(l) + m] = w[m]
    BY TwoParts
  <2>4. QED
    BY <2>1, <2>2, <2>3
<1>2. Len(l) \in Nat /\ Len(w) \in Nat
  BY LenProperties
<1> HIDE DEF q
<1>3. \A m \in 1..Len(q) : m \in 1..Len(l) \/ \E k \in 1..Len(w) : m = Len(l) + k
  <2> TAKE m \in 1..Len(q)
  <2>1. CASE m > Len(l)
    <3>1. m - Len(l) \in 1..Len(w) /\ m = Len(l) + (m - Len(l))
      BY <1>1, <1>2, <2>1
    <3>2. QED
      BY <3>1
  <2>2. QED
    BY <1>1, <1>2, <2>1
<1>4. Len(q) + 1 - 1 = Len(q) /\ Len(l) + 1 - 1 = Len(l)
  BY <1>1, <1>2
<1>5. CASE Behind(l, Len(l) + 1, d) /\ \A n \in 1..Len(w) : w[n].type # "variables"
  <2>1. PICK p \in 1..Len(l) : /\ l[p].type = "variables" /\ l[p].data = d
                               /\ \A m \in 1..Len(l) : m > p => l[m].type # "variables"
    BY <1>4, <1>5 DEF Behind
  <2>2. p \in 1..Len(q) /\ q[p] = l[p]
    BY <1>1, <1>2
  <2>3. \A m \in 1..Len(q) : m > p => q[m].type # "variables"
    BY <1>1, <1>3, <1>5, <2>1
  <2>4. QED
    BY <1>4, <2>1, <2>2, <2>3 DEF Behind, q
<1>6. ASSUME NEW k \in 1..Len(w), w[k].type = "variables", w[k].data = d,
             \A n \in 1..Len(w) : n > k => w[n].type # "variables"
      PROVE  Behind(l \o w, Len(l \o w) + 1, d)
  <2>1. Len(l) + k \in 1..Len(q) /\ q[Len(l) + k] = w[k]
    BY <1>1, <1>2
  <2>2. ASSUME NEW m \in 1..Len(q), m > Len(l) + k PROVE q[m].type # "variables"
    <3>1. m \notin 1..Len(l)
      BY <1>2, <2>2
    <3>2. PICK j \in 1..Len(w) : m = Len(l) + j
      BY <1>3, <3>1
    <3>3. j > k /\ q[m] = w[j]
      BY <1>1, <1>2, <2>2, <3>2
    <3>4. QED
      BY <1>6, <3>3
  <2>3. QED
    BY <1>4, <1>6, <2>1, <2>2 DEF Behind, q
<1>7. QED
  BY <1>5, <1>6

\* The last snapshot of a run is the last one in the log, unless it was refused.
LEMMA BehindRecorded ==
  ASSUME LogInv, NEW rows \in Seq(Rows), NEW S, Record(rows, S), lost = 0, ~gap', NEW d,
         \/ /\ \A n \in 1..Len(rows) : rows[n].type # "variables"
            /\ ~gap => Behind(log, Len(log) + 1, d)
         \/ \E n \in 1..Len(rows) : /\ rows[n].type = "variables" /\ rows[n].data = d
                                    /\ \A m \in 1..Len(rows) : rows[m].type = "variables" => m <= n
  PROVE  Behind(log', Len(log') + 1, d)
<1>1. PICK w \in Seq(Rows) : Written(w, rows, S)
  BY Recorded
<1>2. /\ log' = log \o w /\ Len(w) = Len(rows) /\ Len(rows) \in Nat /\ log \in Seq(Rows)
      /\ \A n \in 1..Len(rows) : w[n] = rows[n] \/ w[n].type = "hole"
  BY <1>1, RowIn DEF Written, LogInv
<1>3. IF \A n \in 1..Len(rows) : rows[n].type # "variables" THEN ~gap
      ELSE \A n \in 1..Len(rows) :
             rows[n].type = "variables" /\ (\A m \in 1..Len(rows) : rows[m].type = "variables" => m <= n)
               => w[n] = rows[n]
  BY <1>1 DEF Written
<1>4. CASE \A n \in 1..Len(rows) : rows[n].type # "variables"
  <2>1. Behind(log, Len(log) + 1, d) /\ \A n \in 1..Len(w) : w[n].type # "variables"
    BY <1>2, <1>3, <1>4
  <2>2. QED
    BY <1>2, <2>1, BehindRows
<1>5. ASSUME NEW n \in 1..Len(rows), rows[n].type = "variables", rows[n].data = d,
             \A m \in 1..Len(rows) : rows[m].type = "variables" => m <= n
      PROVE  Behind(log', Len(log') + 1, d)
  <2>1. w[n] = rows[n]
    BY <1>3, <1>5
  <2>2. ASSUME NEW m \in 1..Len(w), m > n PROVE w[m].type # "variables"
    <3>1. m \in 1..Len(rows) /\ ~(m <= n)
      BY <1>2, <2>2
    <3>2. rows[m].type # "variables"
      BY <1>5, <3>1
    <3>3. QED
      BY <1>2, <3>1, <3>2
  <2>3. n \in 1..Len(w) /\ w[n].type = "variables" /\ w[n].data = d
    BY <1>2, <1>5, <2>1
  <2>4. QED
    BY <1>2, <2>2, <2>3, BehindRows
<1>6. QED
  BY <1>4, <1>5

\* One row more.
LEMMA OneMore ==
  ASSUME NEW l \in Seq(Rows), NEW row \in Rows
  PROVE  l \o <<row>> = Append(l, row) /\ Append(l, row) \in Seq(Rows)
  BY AppendIsConcat, RowBehind

\* A snapshot is taken when the data differs from the last one.
LEMMA SnapshotTaken ==
  ASSUME NEW l \in Seq(Rows), NEW e \in Element, NEW was \in Data, NEW now \in Data
  PROVE  /\ was = now => l \o SnapshotOf(e, was, now) = l
         /\ was # now => l \o SnapshotOf(e, was, now) = Append(l, Snapshot(e, now))
         /\ l \o SnapshotOf(e, was, now) \in Seq(Rows)
<1> DEFINE snap == Snapshot(e, now)
           q == l \o SnapshotOf(e, was, now)
<1>1. snap \in Rows
  BY RowIn
<1> HIDE DEF snap
<1>2. CASE was = now
  <2>1. q = l
    BY <1>2, ConcatEmptySeq DEF SnapshotOf
  <2>2. QED
    BY <1>2, <2>1
<1>3. CASE was # now
  <2>1. q = Append(l, snap)
    BY <1>1, <1>3, OneMore DEF SnapshotOf, snap
  <2>2. Append(l, snap) \in Seq(Rows)
    BY <1>1, OneMore
  <2>3. QED
    BY <1>3, <2>1, <2>2 DEF snap
<1>4. QED
  BY <1>2, <1>3

\* The log behind an element that ends.
EndLog(l, e, mine, v) == l \o Ending(e, mine, v)

\* Its rows come one after the other.
LEMMA EndTaken ==
  ASSUME NEW l \in Seq(Rows), NEW e \in Element, NEW mine \in Data, NEW v \in Value, logged \in Data
  PROVE  LET q1  == Append(l, Row("end", e))
             now == [mine EXCEPT ![e] = v] IN
         /\ logged = mine /\ mine = now => EndLog(l, e, mine, v) = q1
         /\ (logged = mine <=> mine # now) => EndLog(l, e, mine, v) = Append(q1, Snapshot(e, now))
         /\ logged # mine /\ mine # now =>
              EndLog(l, e, mine, v) = Append(Append(q1, Snapshot(e, mine)), Snapshot(e, now))
<1> DEFINE row == Row("end", e)
           now == [mine EXCEPT ![e] = v]
           a == SnapshotOf(e, logged, mine)
           b == SnapshotOf(e, mine, now)
           q1 == Append(l, row)
           q2 == IF logged = mine THEN q1 ELSE Append(q1, Snapshot(e, mine))
           q3 == IF mine = now THEN q2 ELSE Append(q2, Snapshot(e, now))
<1>1. row \in Rows
  BY SingleRows
<1>2. now \in Data
  BY DEF Data
<1>3. a \in Seq(Rows) /\ b \in Seq(Rows) /\ <<row>> \in Seq(Rows)
  <2>1. Snapshot(e, mine) \in Rows /\ Snapshot(e, now) \in Rows
    BY <1>2, RowIn
  <2> HIDE DEF now, row
  <2>2. QED
    BY <1>1, <2>1, EmptySeq DEF SnapshotOf
<1>4. EndSnapshots(e, mine, v) = a \o b
  BY DEF EndSnapshots
<1> HIDE DEF row, now
<1>5. l \o <<row>> = q1 /\ q1 \in Seq(Rows)
  BY <1>1, OneMore
<1> HIDE DEF q1
<1>6. q1 \o a = q2 /\ q2 \in Seq(Rows)
  <2>1. q1 \o a = q2
    BY <1>5, SnapshotTaken
  <2>2. q1 \o a \in Seq(Rows)
    BY <1>5, SnapshotTaken
  <2> HIDE DEF a, q2
  <2>3. QED
    BY <2>1, <2>2
<1> HIDE DEF q2
<1>7. q2 \o b = q3
  <2>0. q2 \in Seq(Rows)
    BY <1>6
  <2> HIDE DEF b, q3
  <2>1. CASE mine = now
    <3>1. q2 \o SnapshotOf(e, mine, now) = q2
      BY <1>2, <2>0, <2>1, SnapshotTaken
    <3>2. QED
      BY <2>1, <3>1 DEF b, q3
  <2>2. CASE mine # now
    <3>1. q2 \o SnapshotOf(e, mine, now) = Append(q2, Snapshot(e, now))
      BY <1>2, <2>0, <2>2, SnapshotTaken
    <3>2. QED
      BY <2>2, <3>1 DEF b, q3
  <2>3. QED
    BY <2>1, <2>2
<1> HIDE DEF a, b, q3
<1>8. l \o (<<row>> \o (a \o b)) = ((l \o <<row>>) \o a) \o b
  <2>1. a \o b \in Seq(Rows) /\ l \o <<row>> \in Seq(Rows)
    BY <1>3, ConcatProperties
  <2>2. l \o (<<row>> \o (a \o b)) = (l \o <<row>>) \o (a \o b)
    BY <1>3, <2>1, ConcatAssociative
  <2>3. (l \o <<row>>) \o (a \o b) = ((l \o <<row>>) \o a) \o b
    BY <1>3, <2>1, ConcatAssociative
  <2>4. QED
    BY <2>2, <2>3
<1>9. EndLog(l, e, mine, v) = q3
  BY <1>4, <1>5, <1>6, <1>7, <1>8 DEF EndLog, Ending, row
<1>10. /\ logged = mine /\ mine = now => q3 = q1
       /\ (logged = mine <=> mine # now) => q3 = Append(q1, Snapshot(e, now))
       /\ logged # mine /\ mine # now => q3 = Append(Append(q1, Snapshot(e, mine)), Snapshot(e, now))
  BY DEF q3, q2
<1>11. QED
  BY <1>9, <1>10 DEF row, now, q1

\* A life that goes on resumes what the log has: all it logs is waits whose rows
\* were refused, of elements that are missed.
LEMMA ResumedClean ==
  ASSUME LogInv, CleanInv, lost = 0, Resume
  PROVE  /\ replayed' \subseteq missed /\ AtRest
         /\ \E rows \in Seq(Rows) : /\ Record(rows, stray \ ParkedOn(saved.at))
                                    /\ \A n \in 1..Len(rows) : rows[n].type = "wait" /\ rows[n].el \in missed
<1>1. AtRest /\ Known(log) = Waits(log) /\ Waits(log) \subseteq Element /\ ParkedOn(saved.at) \subseteq Element
      /\ \A e \in Element \ missed : e \in Waits(log) <=> e \in ParkedOn(saved.at)
  BY DEF Resume, CleanInv, AtRest, Known, Waits, ParkedOn
<1>2. replayed' \subseteq missed
  BY <1>1 DEF Resume
<1> DEFINE W == ParkedOn(saved.at) \ Known(log)
<1>3. PICK order \in Orders(W) :
        Record([n \in DOMAIN order |-> Row("wait", order[n])], stray \ ParkedOn(saved.at))
  BY DEF Resume
<1>4. W \subseteq missed /\ W \in SUBSET Element
  BY <1>1
<1> HIDE DEF W
<1> DEFINE rows == [n \in DOMAIN order |-> Row("wait", order[n])]
<1>5. rows \in Seq(Rows) /\ \A n \in DOMAIN order : order[n] \in W
  BY <1>4, OrderRows
<1>6. \A n \in DOMAIN rows : rows[n].type = "wait" /\ rows[n].el \in missed
  BY <1>4, <1>5 DEF Row
<1>7. Record(rows, stray \ ParkedOn(saved.at))
  BY <1>3
<1> HIDE DEF rows
<1>8. \A n \in 1..Len(rows) : rows[n].type = "wait" /\ rows[n].el \in missed
  BY <1>5, <1>6, LenProperties
<1>9. QED
  BY <1>1, <1>2, <1>5, <1>7, <1>8

\* A life once lost stays lost.
LEMMA LostStays == GhostInv /\ [Next]_vars /\ lost' = 0 => lost = 0 /\ ~LoseLife /\ ~LateRow
<1> SUFFICES ASSUME GhostInv, [Next]_vars, lost' = 0 PROVE lost = 0 /\ ~LoseLife /\ ~LateRow
  OBVIOUS
<1>1. ~LoseLife
  BY DEF LoseLife, GhostInv
<1>2. lost' = lost
  BY <1>1 DEF Next, Engine, Begin, Resume, Settle, Start, Wait, End, CutShort, ElementFails, RunFails, Fail, LateRow,
              Checkpoint, Park, Complete, Crash, Cancel, RetryCheck, RetryCommit, vars, ghostVars
<1>3. ~LateRow
  BY <1>2 DEF LateRow, GhostInv
<1>4. QED
  BY <1>1, <1>2, <1>3

\* What is stray behind rows that are recorded is missed.
LEMMA StrayMissed ==
  ASSUME NEW rows \in Seq(Rows), NEW S \in SUBSET missed, Record(rows, S), lost = 0
  PROVE  stray' \subseteq missed' /\ missed \subseteq missed'
<1>1. PICK w \in Seq(Rows) : Written(w, rows, S)
  BY Recorded
<1>2. QED
  BY <1>1 DEF Written

LEMMA CleanStep == LogInv /\ RunInv /\ GhostInv /\ WaitsInv /\ CleanInv /\ [Next]_vars => CleanInv'
<1> DEFINE Goal == /\ stray' \subseteq missed' /\ replayed' \subseteq missed' /\ retriers' = 0 /\ late' = 0
                   /\ phase' # "failed"
                   /\ AtRest' => \A e \in Element \ missed' : e \in Waits(log') <=> e \in ParkedOn(saved'.at)
                   /\ phase' = "running" => logged' = data'
                   /\ Underway' /\ ~gap' => Behind(log', Len(log') + 1, Values')
<1> SUFFICES ASSUME LogInv, RunInv, GhostInv, WaitsInv, CleanInv, [Next]_vars, lost' = 0
             PROVE  Goal
  BY DEF CleanInv
<1>1. /\ lost = 0 /\ ~LoseLife /\ ~LateRow
      /\ stray \subseteq missed /\ replayed \subseteq missed /\ retriers = 0 /\ late = 0 /\ phase # "failed"
      /\ AtRest => \A e \in Element \ missed : e \in Waits(log) <=> e \in ParkedOn(saved.at)
      /\ phase = "running" => logged = data
      /\ Underway /\ ~gap => Behind(log, Len(log) + 1, Values)
      /\ log \in Seq(Rows) /\ data \in Data /\ logged \in Data
  BY LostStays DEF CleanInv, LogInv, RunInv
\* Rows of a run are recorded.
<1>2. ASSUME NEW rows \in Seq(Rows), NEW S \in SUBSET missed, Record(rows, S),
             replayed' \subseteq missed, retriers' = retriers, late' = late, phase' = "running", logged' = data',
             ~gap' => Behind(log', Len(log') + 1, data')
      PROVE  Goal
  <2>1. stray' \subseteq missed' /\ missed \subseteq missed'
    BY <1>1, <1>2, StrayMissed
  <2>2. replayed' \subseteq missed'
    BY <1>2, <2>1
  <2>3. ~AtRest' /\ Values' = data'
    BY <1>2 DEF AtRest, Values
  <2>4. QED
    BY <1>1, <1>2, <2>1, <2>2, <2>3
\* ... none of them a snapshot.
<1>3. ASSUME NEW rows \in Seq(Rows), NEW S \in SUBSET missed, Record(rows, S), phase = "running",
             \A n \in 1..Len(rows) : rows[n].type # "variables",
             replayed' \subseteq replayed, retriers' = retriers, late' = late, phase' = phase,
             logged' = logged, data' = data
      PROVE  Goal
  <2>1. ~gap => Behind(log, Len(log) + 1, data)
    BY <1>1, <1>3 DEF AtRest, Underway, Values
  <2>2. ~gap' => Behind(log', Len(log') + 1, data')
    BY <1>1, <1>3, <2>1, BehindRecorded
  <2>3. replayed' \subseteq missed /\ phase' = "running" /\ logged' = data'
    BY <1>1, <1>3
  <2>4. QED
    BY <1>2, <1>3, <2>2, <2>3
<1>4. CASE Begin
  <2> DEFINE row == Snapshot(NoElement, Empty)
             rows == <<row>>
  <2>1. row \in Rows /\ rows \in Seq(Rows)
    BY SingleRows
  <2>2. row.type = "variables" /\ row.data = Empty
    BY DEF Snapshot
  <2>3. Record(rows, stray) /\ data' = Empty
    BY <1>4 DEF Begin
  <2> HIDE DEF row
  <2>4. Len(rows) = 1 /\ rows[1] = row /\ 1..1 = {1}
    OBVIOUS
  <2> HIDE DEF rows
  <2>5. 1 \in 1..Len(rows) /\ rows[1].type = "variables" /\ rows[1].data = Empty
        /\ \A m \in 1..Len(rows) : rows[m].type = "variables" => m <= 1
    BY <2>2, <2>4
  <2>6. ~gap' => Behind(log', Len(log') + 1, Empty)
    BY <1>1, <2>1, <2>3, <2>5, BehindRecorded
  <2>7. replayed' = {} /\ retriers' = retriers /\ late' = late /\ phase' = "running" /\ logged' = Empty
    BY <1>4 DEF Begin
  <2>8. QED
    BY <1>1, <1>2, <2>1, <2>3, <2>6, <2>7
<1>5. CASE Resume
  <2>1. PICK rows \in Seq(Rows) :
          /\ Record(rows, stray \ ParkedOn(saved.at))
          /\ \A n \in 1..Len(rows) : rows[n].type = "wait" /\ rows[n].el \in missed
    BY <1>1, <1>5, ResumedClean
  <2>2. replayed' \subseteq missed /\ AtRest
    BY <1>1, <1>5, ResumedClean
  <2>3. /\ phase' = "running" /\ data' = saved.data /\ logged' = data' /\ retriers' = retriers /\ late' = late
    BY <1>5 DEF Resume
  <2>4. ~gap => Behind(log, Len(log) + 1, saved.data)
    BY <1>1, <2>2 DEF Underway, Values
  <2>5. \A n \in 1..Len(rows) : rows[n].type # "variables"
    BY <2>1
  <2>6. ~gap' => Behind(log', Len(log') + 1, saved.data)
    BY <1>1, <2>1, <2>4, <2>5, BehindRecorded
  <2>7. stray \ ParkedOn(saved.at) \in SUBSET missed
    BY <1>1
  <2>8. QED
    BY <1>2, <2>1, <2>2, <2>3, <2>6, <2>7
<1>6. CASE Settle
  BY <1>1, <1>6 DEF Settle, ghostVars, rowVars, AtRest, Underway, Values
\* A single row that is no snapshot.
<1>7. ASSUME NEW e \in Element, NEW type \in {"start", "wait", "discard"}
      PROVE  /\ <<Row(type, e)>> \in Seq(Rows)
             /\ \A n \in 1..Len(<<Row(type, e)>>) : <<Row(type, e)>>[n].type # "variables"
  <2>1. Row(type, e) \in Rows /\ Row(type, e).type = type /\ <<Row(type, e)>> \in Seq(Rows)
    BY SingleRows
  <2> DEFINE row == Row(type, e)
  <2>2. row.type # "variables"
    BY <2>1
  <2> HIDE DEF row
  <2>3. \A n \in 1..Len(<<row>>) : <<row>>[n].type # "variables"
    BY <2>2
  <2>4. QED
    BY <2>1, <2>3 DEF row
<1>8. ASSUME NEW e \in Element, Start(e) PROVE Goal
  <2>1. /\ Record(<<Row("start", e)>>, stray) /\ phase = "running" /\ replayed' = replayed
        /\ retriers' = retriers /\ late' = late /\ phase' = phase /\ logged' = logged /\ data' = data
    BY <1>8 DEF Start
  <2>2. QED
    BY <1>1, <1>3, <1>7, <2>1
<1>9. ASSUME NEW e \in Element, Wait(e) PROVE Goal
  <2> DEFINE rows == IF e \in replayed THEN << >> ELSE <<Row("wait", e)>>
             S == IF e \in replayed \ Waits(log) THEN stray \cup {e} ELSE stray \ {e}
             none == << >>
  <2>1. /\ Record(rows, S) /\ phase = "running" /\ replayed' \subseteq replayed
        /\ retriers' = retriers /\ late' = late /\ phase' = phase /\ logged' = logged /\ data' = data
    BY <1>9 DEF Wait
  <2>2. none \in Seq(Rows) /\ Len(none) = 0
    OBVIOUS
  <2>3. S \in SUBSET missed
    BY <1>1
  <2> HIDE DEF S
  <2>4. rows \in Seq(Rows) /\ \A n \in 1..Len(rows) : rows[n].type # "variables"
    <3>1. CASE e \in replayed
      <4>1. rows = none
        BY <3>1
      <4> HIDE DEF none, rows
      <4>2. QED
        BY <2>2, <4>1
    <3>2. CASE e \notin replayed
      <4>1. rows = <<Row("wait", e)>>
        BY <3>2
      <4> HIDE DEF rows
      <4>2. QED
        BY <1>7, <4>1
    <3>3. QED
      BY <3>1, <3>2
  <2> HIDE DEF rows
  <2>5. QED
    BY <1>3, <2>1, <2>3, <2>4
<1>10. ASSUME NEW e \in Element, End(e) PROVE Goal
  <2>1. PICK mine \in Left(e), v \in Value :
          /\ data' = [mine EXCEPT ![e] = v] /\ logged' = data'
          /\ Record(<<Row("end", e)>> \o EndSnapshots(e, mine, v), stray)
    BY <1>10 DEF End
  <2>2. /\ mine \in Data /\ phase = "running" /\ phase' = phase /\ replayed' = replayed
        /\ retriers' = retriers /\ late' = late
    BY <1>10, LeftIn DEF End
  <2>3. ~gap => Behind(log, Len(log) + 1, logged)
    BY <1>1, <2>2 DEF AtRest, Underway, Values
  <2> DEFINE rows == Ending(e, mine, v)
             now == [mine EXCEPT ![e] = v]
  <2>4. IsEnding(rows, e, mine, v)
    BY <2>2, EndRowsAre
  <2>5. Record(rows, stray)
    BY <2>1 DEF Ending
  <2> HIDE DEF rows, now
  <2>6. /\ rows \in Seq(Rows) /\ Len(rows) \in Nat \ {0}
        /\ \A n \in 1..Len(rows) : rows[n].type = IF n = 1 THEN "end" ELSE "variables"
        /\ Len(rows) = 1 => logged = now
        /\ Len(rows) > 1 => rows[Len(rows)].data = now
    BY <2>4 DEF IsEnding, now
  <2>7. ASSUME ~gap' PROVE Behind(log', Len(log') + 1, now)
    <3>1. CASE Len(rows) = 1
      <4>1. /\ \A n \in 1..Len(rows) : rows[n].type # "variables"
            /\ ~gap => Behind(log, Len(log) + 1, now)
        BY <2>3, <2>6, <3>1
      <4>2. QED
        BY <1>1, <2>5, <2>6, <2>7, <4>1, BehindRecorded
    <3>2. CASE Len(rows) > 1
      <4>1. /\ Len(rows) \in 1..Len(rows) /\ rows[Len(rows)].type = "variables" /\ rows[Len(rows)].data = now
            /\ \A m \in 1..Len(rows) : rows[m].type = "variables" => m <= Len(rows)
        BY <2>6, <3>2
      <4>2. QED
        BY <1>1, <2>5, <2>6, <2>7, <4>1, BehindRecorded
    <3>3. Len(rows) = 1 \/ Len(rows) > 1
      <4> DEFINE k == Len(rows)
      <4>1. k \in Nat \ {0}
        BY <2>6
      <4> HIDE DEF k
      <4>2. k = 1 \/ k > 1
        BY <4>1
      <4>3. QED
        BY <4>2 DEF k
    <3>4. QED
      BY <3>1, <3>2, <3>3
  <2>8. data' = now /\ logged' = data'
    BY <2>1 DEF now
  <2>9. ~gap' => Behind(log', Len(log') + 1, data')
    BY <2>7, <2>8
  <2>10. QED
    BY <1>1, <1>2, <2>2, <2>5, <2>6, <2>8, <2>9
<1>11. ASSUME NEW e \in Element, CutShort(e) PROVE Goal
  <2>1. /\ Record(<<Row("discard", e)>>, stray) /\ phase = "running" /\ replayed' = replayed
        /\ retriers' = retriers /\ late' = late /\ phase' = phase /\ logged' = logged /\ data' = data
    BY <1>11 DEF CutShort, Discarded
  <2>2. QED
    BY <1>1, <1>3, <1>7, <2>1
<1>12. CASE Checkpoint
  <2>1. /\ log' = log /\ phase = "running" /\ phase' = phase /\ stray' = stray /\ missed' = missed /\ gap' = gap
        /\ replayed' = replayed /\ retriers' = retriers /\ late' = late /\ logged' = logged /\ data' = data
    BY <1>12 DEF Checkpoint, ghostVars, rowVars
  <2>2. ~AtRest /\ ~AtRest' /\ Values = data /\ Values' = data' /\ Underway
    BY <2>1 DEF AtRest, Values, Underway
  <2>3. QED
    BY <1>1, <2>1, <2>2
<1>13. CASE Park
  <2>1. /\ phase = "running" /\ phase' \in {"parked", "due"} /\ log' = log /\ stray' = stray /\ missed' = missed
        /\ gap' = gap /\ replayed' = {} /\ retriers' = retriers /\ late' = late
        /\ saved' = [at |-> at, data |-> data]
    BY <1>13 DEF Park, RunEnds, ghostVars, rowVars
  <2>2. saved'.at = at /\ saved'.data = data /\ AtRest' /\ ~AtRest /\ phase' # "running" /\ phase' # "failed"
    BY <2>1 DEF AtRest
  <2>3. \A e \in Element \ missed' : e \in Waits(log') <=> e \in ParkedOn(saved'.at)
    <3>1. \A e \in Element \ stray : e \in Waits(log) <=> at[e] = "waiting"
      BY <2>1 DEF WaitsInv
    <3>2. QED
      BY <1>1, <2>1, <2>2, <3>1 DEF ParkedOn
  <2>4. ~gap' => Behind(log', Len(log') + 1, Values')
    BY <1>1, <2>1, <2>2 DEF Underway, Values
  <2>5. QED
    BY <1>1, <2>1, <2>2, <2>3, <2>4
<1>14. CASE Complete \/ Cancel
  <2>1. /\ phase' \in {"completed", "canceled"} /\ stray' = stray /\ missed' = missed
        /\ replayed' \in {{}, replayed} /\ retriers' = retriers /\ late' = late
    BY <1>14 DEF Complete, Cancel, RunEnds, runVars, ghostVars, rowVars
  <2>2. QED
    BY <1>1, <2>1 DEF AtRest, Underway
<1>15. CASE RetryCheck \/ RetryCommit
  BY <1>1, <1>15 DEF RetryCheck, RetryCommit
<1>16. CASE UNCHANGED vars
  BY <1>1, <1>16 DEF vars, runVars, ghostVars, rowVars, AtRest, Underway, Values
<1>17. QED
  BY <1>1, <1>4, <1>5, <1>6, <1>8, <1>9, <1>10, <1>11, <1>12, <1>13, <1>14, <1>15, <1>16
     DEF Next, Engine, ElementFails, RunFails, Fail, Crash

\* The note of a run, while no life was lost.
LEMMA NotedClean ==
  ASSUME GhostInv, NEW e \in Element, NEW run, Note(e, run), lost = 0
  PROVE  /\ truth'[e] = [truth[e] EXCEPT ![Len(truth[e])] = run]
         /\ \A d \in Element : d # e => truth'[d] = truth[d]
<1> DEFINE t == [truth[e] EXCEPT ![Len(truth[e])] = run]
<1>1. truth' = [truth EXCEPT ![e] = t] /\ truth \in [Element -> Seq(Runs)]
  BY DEF Note, GhostInv
<1> HIDE DEF t
<1>2. truth'[e] = t /\ \A d \in Element : d # e => truth'[d] = truth[d]
  BY <1>1
<1>3. QED
  BY <1>2 DEF t

\* Its last run is what was noted.
LEMMA LastNoted ==
  ASSUME NEW t \in Seq(Runs), t # << >>, NEW run \in Runs
  PROVE  LET u == [t EXCEPT ![Len(t)] = run] IN u \in Seq(Runs) /\ u # << >> /\ u[Len(u)] = run /\ t[Len(t)] \in Runs
<1> DEFINE u == [t EXCEPT ![Len(t)] = run]
<1>1. Len(t) \in Nat /\ Len(t) # 0 /\ DOMAIN t = 1..Len(t) /\ t \in [1..Len(t) -> Runs]
  BY LenProperties, EmptySeq
<1>2. Len(t) \in 1..Len(t)
  BY <1>1
<1>3. u \in [1..Len(t) -> Runs] /\ u[Len(t)] = run
  BY <1>1, <1>2
<1>4. u \in Seq(Runs) /\ Len(u) = Len(t)
  BY <1>1, <1>3
<1> HIDE DEF u
<1>5. u # << >>
  BY <1>1, <1>4, EmptySeq
<1>6. QED
  BY <1>1, <1>2, <1>3, <1>4, <1>5 DEF u

\* The log tells of a run that ended as it was.
LEMMA EndTold ==
  ASSUME LogInv, RunInv, GhostInv, CleanInv, lost = 0, phase = "running", NEW e \in Element,
         NEW mine \in Left(e), NEW v \in Value, RunsOf(log, e, truth[e]), OpenRun(e)
  PROVE  RunsOf(EndLog(log, e, mine, v), e, [truth[e] EXCEPT ![Len(truth[e])] = Ended(e, mine, v)])
<1> DEFINE now == [mine EXCEPT ![e] = v]
           row == Row("end", e)
           s1 == Snapshot(e, mine)
           s2 == Snapshot(e, now)
           t == truth[e]
           r == t[Len(t)]
           w == gap \/ (data # mine /\ mine[e] # v)
           c == Change(e, began[e], v)
           run == Ended(e, mine, v)
           q == Append(log, row)
<1>1. /\ mine \in Data /\ data \in Data /\ logged = data /\ log \in Seq(Rows)
      /\ (~gap => Behind(log, Len(log) + 1, data)) /\ began[e] = data[e] /\ gap \in BOOLEAN
  BY LeftIn DEF LogInv, RunInv, GhostInv, CleanInv, Underway, AtRest, Values, OpenRun
<1>2. \A x \in Element : x # e => mine[x] = data[x]
  BY DEF RunInv, Left, Data
<1>3. /\ now \in Data /\ now = [data EXCEPT ![e] = v] /\ (mine = now <=> mine[e] = v)
  <2>1. mine \in [Element -> Value] /\ data \in [Element -> Value]
    BY <1>1 DEF Data
  <2>2. now \in [Element -> Value] /\ [data EXCEPT ![e] = v] \in [Element -> Value]
    BY <2>1
  <2>3. now[e] = v /\ \A x \in Element : x # e => now[x] = mine[x]
    BY <2>1
  <2>4. \A x \in Element : now[x] = [data EXCEPT ![e] = v][x]
    BY <1>2, <2>1, <2>3
  <2> HIDE DEF now
  <2>5. now = [data EXCEPT ![e] = v]
    BY <2>2, <2>4
  <2>6. mine = now <=> mine[e] = v
    <3>1. ASSUME mine[e] = v PROVE \A x \in Element : mine[x] = now[x]
      BY <2>3, <3>1
    <3>2. QED
      BY <2>1, <2>2, <2>3, <3>1
  <2>7. QED
    BY <2>2, <2>5, <2>6 DEF Data
<1>4. /\ row \in Rows /\ Is(row, "end", e) /\ s1 \in Rows /\ Is(s1, "variables", e)
      /\ s2 \in Rows /\ Is(s2, "variables", e) /\ s2.data = now
  <2>1. row \in Rows /\ row.type = "end" /\ row.el = e
    BY SingleRows
  <2> HIDE DEF now, row
  <2>2. QED
    BY <1>1, <1>3, <2>1, RowIn DEF Snapshot, Is
<1>5. /\ data = mine /\ mine = now => EndLog(log, e, mine, v) = q
      /\ (data = mine <=> mine # now) => EndLog(log, e, mine, v) = Append(q, s2)
      /\ data # mine /\ mine # now => EndLog(log, e, mine, v) = Append(Append(q, s1), s2)
  BY <1>1, EndTaken
<1>6. VariableChanges(data, now) = c
  BY <1>1, <1>3, OneChange
<1>7. /\ t \in Seq(Runs) /\ t # << >> /\ r.state = "open" /\ r \in Runs
      /\ run \in Runs /\ run.waited = r.waited /\ run.state = "ended" /\ run.change = c /\ run.unsure = w
  <2>1. t \in Seq(Runs) /\ t # << >> /\ r.state = "open"
    BY DEF GhostInv, OpenRun
  <2>2. r \in Runs
    BY <2>1, LastNoted
  <2>3. c \in SUBSET AnyChange
    <3>1. began[e] \in Value
      BY DEF GhostInv, Data
    <3>2. c \in {Change(d, u, x) : d \in Element, u \in Value, x \in Value}
      BY <3>1
    <3> HIDE DEF c
    <3>3. QED
      BY <3>2 DEF AnyChange
  <2>4. run = [r EXCEPT !.state = "ended", !.change = c, !.unsure = w]
    BY DEF Ended
  <2>5. w \in BOOLEAN
    BY <1>1
  <2> HIDE DEF c, w, r, t, run
  <2>6. QED
    BY <2>1, <2>2, <2>3, <2>4, <2>5 DEF Runs
<1>8. w <=> gap \/ (data # mine /\ mine # now)
  BY <1>3
<1>9. data = mine /\ mine = now => c = {}
  BY <1>1, <1>3 DEF Change
<1>10. q \in Seq(Rows) /\ Append(q, s1) \in Seq(Rows)
  <2>1. q \in Seq(Rows)
    BY <1>1, <1>4, OneMore
  <2> HIDE DEF q
  <2>2. QED
    BY <1>4, <2>1, OneMore
<1> DEFINE u == [t EXCEPT ![Len(t)] = run]
<1> HIDE DEF now, row, s1, s2, t, r, w, c, run, q
<1>11. RunsOf(log, e, t) /\ t[Len(t)].state = "open" /\ run.waited = t[Len(t)].waited
  BY <1>7 DEF t, r
<1>12. RunsOf(EndLog(log, e, mine, v), e, u)
  <2>1. CASE data = mine /\ mine = now
    <3>1. RunsOf(q, e, u)
      BY <1>1, <1>4, <1>7, <1>9, <1>11, <2>1, EndRow DEF q
    <3>2. QED
      BY <1>5, <2>1, <3>1
  <2>2. CASE w
    <3>1. run.unsure
      BY <1>7, <2>2
    <3>2. RunsOf(q, e, u)
      BY <1>1, <1>4, <1>7, <1>11, <3>1, EndRow DEF q
    <3>3. u \in Seq(Runs) /\ u # << >> /\ u[Len(u)] = run
      BY <1>7, LastNoted
    <3> HIDE DEF u
    <3>4. RunsOf(Append(q, s2), e, u)
      BY <1>4, <1>7, <1>10, <3>1, <3>2, <3>3, SnapshotRow
    <3>5. RunsOf(Append(q, s1), e, u)
      BY <1>4, <1>7, <1>10, <3>1, <3>2, <3>3, SnapshotRow
    <3>6. RunsOf(Append(Append(q, s1), s2), e, u)
      BY <1>4, <1>7, <1>10, <3>1, <3>3, <3>5, SnapshotRow
    <3>7. QED
      BY <1>5, <3>2, <3>4, <3>6
  <2>3. CASE ~w /\ (data = mine <=> mine # now)
    <3>1. ~run.unsure /\ Behind(log, Len(log) + 1, data)
      BY <1>1, <1>7, <1>8, <2>3
    <3>2. RunsOf(Append(q, s2), e, u)
      BY <1>1, <1>4, <1>6, <1>7, <1>11, <3>1, EndSnapshotRow DEF q
    <3>3. QED
      BY <1>5, <2>3, <3>2
  <2>4. QED
    BY <1>8, <2>1, <2>2, <2>3
<1>13. QED
  BY <1>12 DEF u, t, run

\* What is missed stays missed until a life is lost.
LEMMA MissedStays ==
  ASSUME [Next]_vars, ~LoseLife
  PROVE  missed \subseteq missed'
<1>1. \A rows, S : Record(rows, S) => missed \subseteq missed'
  BY DEF Record
<1>2. (Begin \/ Resume) => missed \subseteq missed'
  BY <1>1 DEF Begin, Resume
<1>3. \A e \in Element : (Start(e) \/ Wait(e) \/ End(e) \/ CutShort(e)) => missed \subseteq missed'
  BY <1>1 DEF Start, Wait, End, CutShort
<1>4. (Settle \/ Checkpoint \/ Park \/ Complete \/ LateRow \/ Cancel \/ RetryCheck \/ RetryCommit \/ UNCHANGED vars)
        => missed \subseteq missed'
  BY DEF Settle, Checkpoint, Park, Complete, LateRow, Cancel, RetryCheck, RetryCommit, vars, ghostVars, rowVars
<1>5. QED
  BY <1>2, <1>3, <1>4 DEF Next, Engine, ElementFails, RunFails, Fail, Crash

LEMMA RunsStep == LogInv /\ RunInv /\ GhostInv /\ CleanInv /\ RunsInv /\ [Next]_vars => RunsInv'
<1> SUFFICES ASSUME LogInv, RunInv, GhostInv, CleanInv, RunsInv, [Next]_vars, lost' = 0, NEW e \in Element \ missed'
             PROVE  /\ RunsOf(log', e, truth'[e])
                    /\ Underway' /\ Now'[e] # "idle" => OpenRun(e)'
  BY DEF RunsInv
<1> DEFINE Goal == /\ RunsOf(log', e, truth'[e])
                   /\ Underway' /\ Now'[e] # "idle" => OpenRun(e)'
<1>1. /\ lost = 0 /\ ~LoseLife /\ ~LateRow /\ replayed \subseteq missed /\ retriers = 0 /\ phase # "failed"
      /\ log \in Seq(Rows) /\ truth[e] \in Seq(Runs) /\ at \in [Element -> States] /\ data \in [Element -> Value]
      /\ began \in [Element -> Value] /\ truth \in [Element -> Seq(Runs)]
  BY LostStays DEF CleanInv, LogInv, RunInv, GhostInv, Data
<1>2. e \in Element /\ e \notin missed /\ RunsOf(log, e, truth[e]) /\ (Underway /\ Now[e] # "idle" => OpenRun(e))
  BY <1>1, MissedStays DEF RunsInv
<1>3. phase = "running" => Underway /\ Now = at /\ Values = data /\ (at[e] # "idle" => OpenRun(e))
  BY <1>2 DEF Underway, Now, Values, AtRest
<1>4. phase' = "running" => Now' = at' /\ Values' = data'
  BY DEF Now, Values, AtRest
\* The elements and the data are where they were, and what is logged is of others.
<1>5. ASSUME RunsOf(log', e, truth[e]), truth' = truth, began' = began,
             Underway' => Underway /\ Now' = Now /\ Values' = Values
      PROVE  Goal
  BY <1>2, <1>5 DEF OpenRun
<1>6. CASE Begin
  <2> DEFINE row == Snapshot(NoElement, Empty)
             rows == <<row>>
  <2>1. rows \in Seq(Rows)
    BY SingleRows
  <2>2. row.el # e
    BY Kinds DEF Snapshot
  <2>3. Record(rows, stray) /\ truth' = truth /\ phase' = "running" /\ at' = Quiet
    BY <1>6 DEF Begin
  <2> HIDE DEF row
  <2>4. \A n \in 1..Len(rows) : rows[n].el # e
    BY <2>2
  <2> HIDE DEF rows
  <2>5. RunsOf(log', e, truth'[e])
    BY <1>2, <2>1, <2>3, <2>4, OthersTold
  <2>6. Now'[e] = "idle"
    BY <1>4, <2>3 DEF Quiet
  <2>7. QED
    BY <2>5, <2>6
<1>7. CASE Resume
  <2>1. PICK rows \in Seq(Rows) :
          /\ Record(rows, stray \ ParkedOn(saved.at))
          /\ \A n \in 1..Len(rows) : rows[n].type = "wait" /\ rows[n].el \in missed
    BY <1>1, <1>7, ResumedClean
  <2>2. RunsOf(log', e, truth[e])
    BY <1>2, <2>1, OthersTold
  <2>3. AtRest /\ phase' = "running" /\ at' = saved.at /\ data' = saved.data /\ truth' = truth /\ began' = began
    BY <1>7 DEF Resume, AtRest
  <2>4. QED
    BY <1>4, <1>5, <2>2, <2>3 DEF Underway, Now, Values
<1>8. CASE Settle \/ Checkpoint
  <2>1. /\ log' = log /\ truth' = truth /\ began' = began /\ phase = "running" /\ phase' = phase
        /\ at' = at /\ data' = data
    BY <1>8 DEF Settle, Checkpoint, ghostVars
  <2>2. QED
    BY <1>2, <1>3, <1>4, <1>5, <2>1
<1>9. CASE Park
  <2>1. /\ log' = log /\ truth' = truth /\ began' = began /\ phase = "running" /\ phase' \in {"parked", "due"}
        /\ saved' = [at |-> at, data |-> data]
    BY <1>9 DEF Park, ghostVars
  <2>2. saved'.at = at /\ saved'.data = data /\ AtRest'
    BY <2>1 DEF AtRest
  <2>3. Now' = at /\ Values' = data
    BY <2>2 DEF Now, Values
  <2>4. QED
    BY <1>2, <1>3, <1>5, <2>1, <2>3
<1>10. CASE Complete
  <2>1. log' = log /\ truth' = truth /\ began' = began /\ phase' = "completed"
    BY <1>10 DEF Complete, ghostVars
  <2>2. QED
    BY <1>2, <1>5, <2>1 DEF Underway, AtRest
<1>11. CASE Cancel
  <2> DEFINE row == Row("cancel", NoElement)
             rows == <<row>>
  <2>1. row \in Rows
    BY RowIn
  <2>2. row.el # e
    BY Kinds DEF Row
  <2>3. log' = Append(log, row) /\ truth' = truth /\ phase' = "canceled"
    BY <1>11 DEF Cancel, ghostVars
  <2> HIDE DEF row
  <2>4. rows \in Seq(Rows) /\ \A n \in 1..Len(rows) : rows[n].el # e
    BY <2>1, <2>2
  <2>5. log' = log \o rows
    BY <1>1, <2>1, <2>3, OneMore
  <2> HIDE DEF rows
  <2>6. RunsOf(log', e, truth'[e])
    BY <1>1, <1>2, <2>3, <2>4, <2>5, OtherRows
  <2>7. QED
    BY <2>3, <2>6 DEF Underway, AtRest
\* Rows of another element.
<1>12. ASSUME phase = "running", phase' = phase, RunsOf(log', e, truth[e]),
              truth'[e] = truth[e], began'[e] = began[e], at'[e] = at[e], data'[e] = data[e]
       PROVE  Goal
  BY <1>3, <1>4, <1>12 DEF OpenRun
\* A single row is written as it is, or of another element.
<1>13. ASSUME NEW d \in Element, NEW type \in {"start", "wait", "discard"}, Record(<<Row(type, d)>>, stray \ {d})
              \/ Record(<<Row(type, d)>>, stray)
       PROVE  /\ Row(type, d) \in Rows /\ Is(Row(type, d), type, d)
              /\ d = e => log' = Append(log, Row(type, d))
              /\ d # e => RunsOf(log', e, truth[e])
  <2> DEFINE row == Row(type, d)
             rows == <<row>>
  <2>1. row \in Rows /\ row.type = type /\ row.el = d /\ rows \in Seq(Rows)
    BY SingleRows
  <2>2. PICK S : Record(rows, S)
    BY <1>13
  <2>3. Is(row, type, d)
    BY <2>1 DEF Is
  <2> HIDE DEF row
  <2>4. \A n \in 1..Len(rows) : rows[n].el = d
    BY <2>1
  <2>5. log \o rows = Append(log, row)
    BY <1>1, <2>1, OneMore
  <2> HIDE DEF rows
  <2>6. d = e => log' = log \o rows
    BY <1>1, <2>1, <2>2, <2>4, OwnWritten
  <2>7. d # e => RunsOf(log', e, truth[e])
    BY <1>2, <2>1, <2>2, <2>4, OthersTold
  <2>8. QED
    BY <2>1, <2>3, <2>5, <2>6, <2>7 DEF row
<1>14. ASSUME NEW d \in Element, Start(d) PROVE Goal
  <2> DEFINE row == Row("start", d)
             run == [waited |-> 0, state |-> "open", change |-> {}, unsure |-> FALSE]
  <2>1. /\ Record(<<row>>, stray) /\ phase = "running" /\ phase' = phase /\ data' = data
        /\ at' = [at EXCEPT ![d] = "started"]
        /\ began' = [began EXCEPT ![d] = data[d]] /\ truth' = [truth EXCEPT ![d] = Append(truth[d], run)]
    BY <1>1, <1>14 DEF Start
  <2>2. /\ row \in Rows /\ Is(row, "start", d)
        /\ d = e => log' = Append(log, row)
        /\ d # e => RunsOf(log', e, truth[e])
    BY <1>13, <2>1
  <2>3. run \in Runs /\ run.waited = 0 /\ run.state = "open"
    BY DEF Runs
  <2> HIDE DEF row, run
  <2>4. CASE d = e
    <3>1. truth'[e] = Append(truth[e], run) /\ began'[e] = data'[e]
      BY <1>1, <2>1, <2>4
    <3>2. RunsOf(log', e, truth'[e])
      <4>1. row \in Rows /\ Is(row, "start", e) /\ log' = Append(log, row)
        BY <2>2, <2>4
      <4>2. RunsOf(Append(log, row), e, Append(truth[e], run))
        BY <1>1, <1>2, <2>3, <4>1, RowOfStart
      <4>3. QED
        BY <3>1, <4>1, <4>2
    <3>3. Append(truth[e], run) # << >> /\ Append(truth[e], run)[Len(Append(truth[e], run))] = run
      <4>1. /\ Append(truth[e], run) \in Seq(Runs) /\ Len(Append(truth[e], run)) = Len(truth[e]) + 1
            /\ Append(truth[e], run)[Len(truth[e]) + 1] = run /\ Len(truth[e]) \in Nat
        BY <1>1, <2>3, AppendProperties, LenProperties
      <4>2. Len(Append(truth[e], run)) # 0
        BY <4>1
      <4>3. QED
        BY <4>1, <4>2, EmptySeq
    <3>4. OpenRun(e)'
      BY <1>4, <2>1, <2>3, <3>1, <3>3 DEF OpenRun
    <3>5. QED
      BY <3>2, <3>4
  <2>5. CASE d # e
    <3>1. truth'[e] = truth[e] /\ began'[e] = began[e] /\ at'[e] = at[e]
      BY <1>1, <2>1, <2>5
    <3>2. QED
      BY <1>12, <2>1, <2>2, <2>5, <3>1
  <2>6. QED
    BY <2>4, <2>5
<1>15. ASSUME NEW d \in Element, Wait(d) PROVE Goal
  <2> DEFINE row == Row("wait", d)
             rows == IF d \in replayed THEN << >> ELSE <<row>>
             run == [truth[d][Len(truth[d])] EXCEPT !.waited = Len(log) + 1]
  <2>1. /\ Record(rows, IF d \in replayed \ Waits(log) THEN stray \cup {d} ELSE stray \ {d})
        /\ phase = "running" /\ phase' = phase /\ data' = data /\ began' = began
        /\ at[d] = "started" /\ at' = [at EXCEPT ![d] = "waiting"] /\ Note(d, run)
    BY <1>1, <1>15 DEF Wait
  <2>2. d \notin replayed => Record(<<row>>, stray \ {d})
    BY <2>1
  <2>3. d \notin replayed => /\ row \in Rows /\ Is(row, "wait", d)
                             /\ d = e => log' = Append(log, row)
                             /\ d # e => RunsOf(log', e, truth[e])
    BY <1>13, <2>2
  <2>4. d \in replayed => RunsOf(log', e, truth[e])
    <3> DEFINE none == << >>
    <3>1. none \in Seq(Rows) /\ \A n \in 1..Len(none) : none[n].el # e
      OBVIOUS
    <3>2. d \in replayed => \E S : Record(none, S)
      BY <2>1
    <3> HIDE DEF none
    <3>3. QED
      BY <1>2, <3>1, <3>2, OthersTold
  <2> HIDE DEF row, rows
  <2>5. CASE d = e
    <3>1. OpenRun(e) /\ d \notin replayed /\ truth[e] # << >> /\ truth[e][Len(truth[e])].state = "open"
      BY <1>1, <1>2, <1>3, <2>1, <2>5 DEF OpenRun
    <3>2. truth'[e] = [truth[e] EXCEPT ![Len(truth[e])] = run]
      BY <1>1, <2>1, <2>5, NotedClean
    <3>3. RunsOf(log', e, truth'[e])
      <4>1. row \in Rows /\ Is(row, "wait", e) /\ log' = Append(log, row)
        BY <2>3, <2>5, <3>1
      <4>2. RunsOf(Append(log, row), e,
              [truth[e] EXCEPT ![Len(truth[e])] = [truth[e][Len(truth[e])] EXCEPT !.waited = Len(log) + 1]])
        BY <1>1, <1>2, <3>1, <4>1, WaitRow
      <4>3. QED
        BY <2>5, <3>2, <4>1, <4>2
    <3>4. truth[e][Len(truth[e])] \in Runs
      BY <1>1, <3>1, LastNoted
    <3>5. run \in Runs /\ run.state = "open"
      <4>1. Len(log) + 1 \in Nat
        BY <1>1, LenProperties
      <4>2. QED
        BY <2>5, <3>1, <3>4, <4>1 DEF Runs
    <3> HIDE DEF run
    <3>6. truth'[e] # << >> /\ truth'[e][Len(truth'[e])] = run
      BY <1>1, <3>1, <3>2, <3>5, LastNoted
    <3>7. OpenRun(e)'
      BY <1>3, <1>4, <2>1, <3>1, <3>5, <3>6 DEF OpenRun
    <3>8. QED
      BY <3>3, <3>7
  <2>6. CASE d # e
    <3>1. truth'[e] = truth[e] /\ at'[e] = at[e]
      BY <1>1, <1>2, <2>1, <2>6, NotedClean
    <3>2. RunsOf(log', e, truth[e])
      BY <2>3, <2>4, <2>6
    <3>3. QED
      BY <1>12, <2>1, <3>1, <3>2
  <2>7. QED
    BY <2>5, <2>6
<1>16. ASSUME NEW d \in Element, End(d) PROVE Goal
  <2>1. PICK mine \in Left(d), v \in Value :
          /\ data' = [mine EXCEPT ![d] = v] /\ Note(d, Ended(d, mine, v))
          /\ Record(<<Row("end", d)>> \o EndSnapshots(d, mine, v), stray)
    BY <1>16 DEF End
  <2>2. /\ phase = "running" /\ phase' = phase /\ began' = began /\ at' = [at EXCEPT ![d] = "idle"]
        /\ at[d] # "idle" /\ mine \in Data
    BY <1>16, LeftIn DEF End
  <2> DEFINE rows == Ending(d, mine, v)
  <2>3. Record(rows, stray)
    BY <2>1 DEF Ending
  <2>4. IsEnding(rows, d, mine, v)
    BY <2>2, EndRowsAre
  <2>5. rows \in Seq(Rows) /\ \A n \in 1..Len(rows) : rows[n].el = d
    BY <2>4 DEF IsEnding
  <2>6. log \o rows = EndLog(log, d, mine, v)
    BY DEF EndLog
  <2> HIDE DEF rows
  <2>7. CASE d = e
    <3>1. log' = EndLog(log, e, mine, v)
      BY <1>1, <2>3, <2>5, <2>6, <2>7, OwnWritten
    <3>2. OpenRun(e)
      BY <1>3, <2>2, <2>7
    <3>3. RunsOf(log', e, [truth[e] EXCEPT ![Len(truth[e])] = Ended(e, mine, v)])
      BY <1>1, <1>2, <2>2, <2>7, <3>1, <3>2, EndTold
    <3>4. RunsOf(log', e, truth'[e])
      BY <1>1, <1>2, <2>1, <2>7, <3>3, NotedClean
    <3>5. Now'[e] = "idle"
      BY <1>1, <1>4, <2>2, <2>7
    <3>6. QED
      BY <3>4, <3>5
  <2>8. CASE d # e
    <3>1. truth'[e] = truth[e] /\ at'[e] = at[e]
      BY <1>1, <1>2, <2>1, <2>2, <2>8, NotedClean
    <3>2. data'[e] = data[e]
      <4>1. mine \in [Element -> Value]
        BY <2>2 DEF Data
      <4>2. mine[e] = data[e]
        BY <1>1, <2>8 DEF Left
      <4>3. QED
        BY <2>1, <2>8, <4>1, <4>2
    <3>3. RunsOf(log', e, truth[e])
      BY <1>2, <2>3, <2>5, <2>8, OthersTold
    <3>4. QED
      BY <1>12, <2>2, <3>1, <3>2, <3>3
  <2>9. QED
    BY <2>7, <2>8
<1>17. ASSUME NEW d \in Element, CutShort(d) PROVE Goal
  <2> DEFINE row == Row("discard", d)
             run == [truth[d][Len(truth[d])] EXCEPT !.state = "cut"]
  <2>1. /\ Record(<<row>>, stray) /\ phase = "running" /\ phase' = phase /\ data' = data /\ began' = began
        /\ at[d] # "idle" /\ at' = [at EXCEPT ![d] = "idle"] /\ Note(d, run)
    BY <1>17 DEF CutShort, Discarded
  <2>2. /\ row \in Rows /\ Is(row, "discard", d)
        /\ d = e => log' = Append(log, row)
        /\ d # e => RunsOf(log', e, truth[e])
    BY <1>13, <2>1
  <2> HIDE DEF row
  <2>3. CASE d = e
    <3>1. OpenRun(e)
      BY <1>3, <2>1, <2>3
    <3>2. truth'[e] = [truth[e] EXCEPT ![Len(truth[e])] = run]
      BY <1>1, <2>1, <2>3, NotedClean
    <3>3. RunsOf(log', e, truth'[e])
      <4>1. row \in Rows /\ Is(row, "discard", e) /\ log' = Append(log, row)
        BY <2>2, <2>3
      <4>2. truth[e] # << >> /\ truth[e][Len(truth[e])].state = "open"
        BY <3>1 DEF OpenRun
      <4>3. RunsOf(Append(log, row), e,
              [truth[e] EXCEPT ![Len(truth[e])] = [truth[e][Len(truth[e])] EXCEPT !.state = "cut"]])
        BY <1>1, <1>2, <4>1, <4>2, DiscardRow
      <4>4. QED
        BY <2>3, <3>2, <4>1, <4>3
    <3>4. Now'[e] = "idle"
      BY <1>1, <1>4, <2>1, <2>3
    <3>5. QED
      BY <3>3, <3>4
  <2>4. CASE d # e
    <3>1. truth'[e] = truth[e] /\ at'[e] = at[e]
      BY <1>1, <1>2, <2>1, <2>4, NotedClean
    <3>2. QED
      BY <1>12, <2>1, <2>2, <2>4, <3>1
  <2>5. QED
    BY <2>3, <2>4
<1>18. CASE RetryCheck \/ RetryCommit
  BY <1>1, <1>18 DEF RetryCheck, RetryCommit
<1>19. CASE UNCHANGED vars
  BY <1>2, <1>5, <1>19 DEF vars, runVars, ghostVars, Underway, AtRest, Now, Values
<1>20. QED
  BY <1>1, <1>6, <1>7, <1>8, <1>9, <1>10, <1>11, <1>14, <1>15, <1>16, <1>17, <1>18, <1>19
     DEF Next, Engine, ElementFails, RunFails, Fail, Crash

LEMMA CleanParts == Init => CleanInv /\ RunsInv
<1> SUFFICES ASSUME Init PROVE CleanInv /\ RunsInv
  OBVIOUS
<1>1. /\ log = << >> /\ phase = "new" /\ retriers = 0 /\ late = 0 /\ replayed = {} /\ stray = {} /\ missed = {}
      /\ truth = [e \in Element |-> << >>]
  BY DEF Init
<1>2. CleanInv
  BY <1>1 DEF CleanInv, Underway, AtRest
<1>3. ASSUME NEW e \in Element PROVE RunsOf(<< >>, e, << >>)
  <2>1. DOMAIN << >> = {} /\ Len(<< >>) = 0 /\ 1..0 = {}
    OBVIOUS
  <2>2. StartsIn(<< >>, e) = {}
    BY <2>1 DEF StartsIn
  <2>3. Numbered({}, 0)
    BY <2>1, FS_EmptySet DEF Numbered
  <2>4. QED
    BY <2>1, <2>2, <2>3 DEF RunsOf
<1>4. RunsInv
  BY <1>1, <1>3 DEF RunsInv, Underway, AtRest
<1>5. QED
  BY <1>2, <1>4

LEMMA RunsAlways ==
  Spec => [](LogInv /\ GhostInv /\ RunsInv)
<1>1. LogInv /\ RunInv /\ GhostInv /\ WaitsInv /\ CleanInv /\ RunsInv /\ [Next]_vars =>
        (LogInv /\ RunInv /\ GhostInv /\ WaitsInv /\ CleanInv /\ RunsInv)'
  BY LogStep, RunStep, GhostStep, WaitsStep, CleanStep, RunsStep
<1>2. QED
  BY <1>1, InitParts, CleanParts, PTL DEF Spec

\* As long as no life is lost the log tells the runs of each element apart and
\* says of each when it began to wait and how it ended (elementRuns,
\* elementProgress in event-feed.ts), whatever rows of other elements were
\* refused.
THEOREM RunsAreTrueAlways == Spec => []RunsAreTrue
<1>1. LogInv /\ GhostInv /\ RunsInv => RunsAreTrue
  <2> SUFFICES ASSUME LogInv, GhostInv, RunsInv, lost = 0, NEW e \in Element \ missed
               PROVE  /\ Progress(e).runs = Len(truth[e]) /\ ~Progress(e).failed
                      /\ Progress(e).done = \E k \in DOMAIN truth[e] : truth[e][k].state = "ended"
                      /\ Len(ElementRuns(e)) = Len(truth[e])
                      /\ \A k \in DOMAIN truth[e] : /\ ElementRuns(e)[k].waited = truth[e][k].waited
                                                    /\ ElementRuns(e)[k].state = truth[e][k].state
    BY DEF RunsAreTrue
  <2>1. log \in Seq(Rows) /\ truth[e] \in Seq(Runs) /\ RunsOf(log, e, truth[e])
    BY DEF LogInv, GhostInv, RunsInv
  <2>2. QED
    BY <2>1, RunsRead
<1>2. QED
  BY <1>1, RunsAlways, PTL

\* ... and what each run changed is what its own result changed, whatever
\* branches ran beside it and however often the instance was parked in between
\* (elementRuns, process-engine.ts:84), unless the last snapshot before it was
\* refused, or it took two of its own.
THEOREM ChangesAreOwnAlways == Spec => []ChangesAreOwn
<1>1. LogInv /\ GhostInv /\ RunsInv => ChangesAreOwn
  <2> SUFFICES ASSUME LogInv, GhostInv, RunsInv, lost = 0, NEW e \in Element \ missed, NEW k \in DOMAIN truth[e],
                      truth[e][k].state = "ended", ~truth[e][k].unsure
               PROVE  ElementRuns(e)[k].change = truth[e][k].change
    BY DEF ChangesAreOwn
  <2>1. log \in Seq(Rows) /\ truth[e] \in Seq(Runs) /\ RunsOf(log, e, truth[e])
    BY DEF LogInv, GhostInv, RunsInv
  <2>2. QED
    BY <2>1, RunsRead
<1>2. QED
  BY <1>1, RunsAlways, PTL

=============================================================================
