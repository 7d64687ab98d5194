-------------------------- MODULE WorkerLoopProofs --------------------------
(***************************************************************************)
(* Proofs about WorkerLoop: type correctness, the bound of a tick, and     *)
(* that a shutdown drops no run of the loop.                               *)
(***************************************************************************)
EXTENDS WorkerLoop, SequenceTheorems, FiniteSetTheorems, TLAPS

----------------------------------------------------------------------------
(***************************************************************************)
(* The operators the steps are built from.                                 *)
(***************************************************************************)

\* The smaller of two numbers.
LEMMA MinOfTwo ==
  ASSUME NEW x \in Nat, NEW y \in Nat
  PROVE  Min({x, y}) \in {x, y} /\ Min({x, y}) <= x /\ Min({x, y}) <= y
<1>1. \E z \in {x, y} : \A w \in {x, y} : z <= w
  OBVIOUS
<1>2. QED
  BY <1>1 DEF Min

\* The queue that Init chooses holds each instance once.
LEMMA QueueOf ==
  ASSUME NEW S, IsFiniteSet(S)
  PROVE  SetToSeq(S) \in Seq(S) /\ IsInjective(SetToSeq(S))
<1>1. Cardinality(S) \in Nat /\ ExistsBijection(1..Cardinality(S), S)
  BY FS_CardinalityType
<1>2. PICK f \in Bijection(1..Cardinality(S), S) : TRUE
  BY <1>1 DEF ExistsBijection
<1>3. f \in [1..Cardinality(S) -> S] /\ IsInjective(f)
  BY <1>2 DEF Bijection, Injection, IsInjective
<1>4. SetToSeq(S) \in [1..Cardinality(S) -> S] /\ IsInjective(SetToSeq(S))
  BY <1>3 DEF SetToSeq
<1>5. QED
  BY <1>1, <1>4

\* RemoveAt leaves the others in their order.
LEMMA RemoveAtProperties ==
  ASSUME NEW S, NEW s \in Seq(S), NEW k \in 1..Len(s)
  PROVE  /\ RemoveAt(s, k) \in Seq(S) /\ Len(RemoveAt(s, k)) = Len(s) - 1
         /\ \A i \in 1..(Len(s) - 1) : RemoveAt(s, k)[i] = IF i < k THEN s[i] ELSE s[i + 1]
<1> DEFINE a == SubSeq(s, 1, k - 1)
           b == SubSeq(s, k + 1, Len(s))
<1>1. Len(s) \in Nat /\ k \in Nat /\ 1 <= k /\ k <= Len(s) /\ \A n \in 1..Len(s) : s[n] \in S
  BY LenProperties, ElementOfSeq
<1>2. a \in Seq(S) /\ Len(a) = k - 1 /\ \A i \in 1..(k - 1) : a[i] = s[i]
  BY <1>1, SubSeqProperties
<1>3. b \in Seq(S) /\ Len(b) = Len(s) - k /\ \A i \in 1..(Len(s) - k) : b[i] = s[k + i]
  <2>1. /\ b \in Seq(S) /\ Len(b) = IF k + 1 <= Len(s) THEN Len(s) - (k + 1) + 1 ELSE 0
        /\ \A i \in 1..(Len(s) - (k + 1) + 1) : b[i] = s[k + 1 + i - 1]
    BY <1>1, SubSeqProperties
  <2> HIDE DEF b
  <2>2. Len(b) = Len(s) - k
    BY <1>1, <2>1
  <2>3. ASSUME NEW i \in 1..(Len(s) - k)
        PROVE  b[i] = s[k + i]
    <3>1. i \in 1..(Len(s) - (k + 1) + 1) /\ k + 1 + i - 1 = k + i
      BY <1>1
    <3>2. QED
      BY <2>1, <3>1
  <2>4. QED
    BY <2>1, <2>2, <2>3
<1>4. RemoveAt(s, k) = a \o b
  BY DEF RemoveAt
<1> HIDE DEF a, b
<1>5. /\ a \o b \in Seq(S) /\ Len(a \o b) = Len(a) + Len(b)
      /\ \A i \in 1..(Len(a) + Len(b)) : (a \o b)[i] = IF i <= Len(a) THEN a[i] ELSE b[i - Len(a)]
  BY <1>2, <1>3, ConcatProperties
<1>6. Len(a) + Len(b) = Len(s) - 1
  BY <1>1, <1>2, <1>3
<1>7. ASSUME NEW i \in 1..(Len(s) - 1)
      PROVE  (a \o b)[i] = IF i < k THEN s[i] ELSE s[i + 1]
  <2>1. CASE i < k
    BY <1>1, <1>2, <1>5, <1>6, <2>1
  <2>2. CASE ~(i < k)
    <3>1. i - (k - 1) \in 1..(Len(s) - k) /\ k + (i - (k - 1)) = i + 1 /\ ~(i <= k - 1)
      BY <1>1, <2>2
    <3>2. (a \o b)[i] = b[i - (k - 1)]
      BY <1>2, <1>5, <1>6, <3>1
    <3>3. QED
      BY <1>3, <2>2, <3>1, <3>2
  <2>3. QED
    BY <2>1, <2>2
<1>8. QED
  BY <1>4, <1>5, <1>6, <1>7

\* Without(i) leaves the others, each once.
LEMMA WithoutOne ==
  ASSUME NEW S, NEW s \in Seq(S), IsInjective(s), NEW e
  PROVE  /\ RemoveFirst(s, e) \in Seq(S)
         /\ IsInjective(RemoveFirst(s, e))
         /\ \A n \in DOMAIN RemoveFirst(s, e) : RemoveFirst(s, e)[n] # e
<1>1. Len(s) \in Nat /\ DOMAIN s = 1..Len(s)
  BY LenProperties
<1>2. CASE ~\E i \in 1..Len(s) : s[i] = e
  BY <1>1, <1>2 DEF RemoveFirst
<1>3. CASE \E i \in 1..Len(s) : s[i] = e
  <2>1. PICK k \in 1..Len(s) : s[k] = e
    BY <1>3
  <2>2. \A i \in 1..Len(s) : s[i] = e => i = k
    BY <1>1, <2>1 DEF IsInjective
  <2>3. SelectInSeq(s, LAMBDA v : v = e) = k
    <3>1. {i \in 1..Len(s) : s[i] = e} = {k}
      BY <2>1, <2>2
    <3>2. Min({k}) = k
      BY DEF Min
    <3>3. QED
      BY <3>1, <3>2 DEF SelectInSeq
  <2> DEFINE r == RemoveAt(s, k)
  <2>4. RemoveFirst(s, e) = r
    BY <1>3, <2>3 DEF RemoveFirst
  <2>5. /\ r \in Seq(S) /\ Len(r) = Len(s) - 1
        /\ \A i \in 1..(Len(s) - 1) : r[i] = IF i < k THEN s[i] ELSE s[i + 1]
    BY RemoveAtProperties
  <2> HIDE DEF r
  <2>6. DOMAIN r = 1..(Len(s) - 1)
    BY <2>5, LenProperties
  <2>7. ASSUME NEW i \in 1..(Len(s) - 1)
        PROVE  r[i] # e
    BY <1>1, <2>2, <2>5
  <2>8. ASSUME NEW i \in 1..(Len(s) - 1), NEW j \in 1..(Len(s) - 1), r[i] = r[j]
        PROVE  i = j
    <3> DEFINE p(n) == IF n < k THEN n ELSE n + 1
    <3>1. p(i) \in 1..Len(s) /\ p(j) \in 1..Len(s) /\ (p(i) = p(j) => i = j)
      BY <1>1
    <3>2. s[p(i)] = s[p(j)]
      BY <2>5, <2>8
    <3>3. \A m, n \in 1..Len(s) : s[m] = s[n] => m = n
      BY <1>1 DEF IsInjective
    <3> HIDE DEF p
    <3>4. QED
      BY <3>1, <3>2, <3>3
  <2>9. QED
    BY <2>4, <2>5, <2>6, <2>7, <2>8 DEF IsInjective
<1>4. QED
  BY <1>2, <1>3

\* An instance that is not in the queue goes behind the others.
LEMMA QueueBehind ==
  ASSUME NEW S, NEW s \in Seq(S), IsInjective(s), NEW e \in S, \A n \in DOMAIN s : s[n] # e
  PROVE  Append(s, e) \in Seq(S) /\ IsInjective(Append(s, e))
<1>1. Len(s) \in Nat /\ DOMAIN s = 1..Len(s)
  BY LenProperties
<1>2. /\ Append(s, e) \in Seq(S) /\ Len(Append(s, e)) = Len(s) + 1
      /\ \A i \in 1..Len(s) : Append(s, e)[i] = s[i]
      /\ Append(s, e)[Len(s) + 1] = e
  BY AppendProperties
<1>3. DOMAIN Append(s, e) = 1..(Len(s) + 1)
  BY <1>2, LenProperties
<1>4. ASSUME NEW i \in 1..(Len(s) + 1), NEW j \in 1..(Len(s) + 1), Append(s, e)[i] = Append(s, e)[j]
      PROVE  i = j
  BY <1>1, <1>2, <1>4 DEF IsInjective
<1>5. QED
  BY <1>2, <1>3, <1>4 DEF IsInjective

----------------------------------------------------------------------------
(***************************************************************************)
(* Type correctness.                                                       *)
(***************************************************************************)

\* The numbers among the constants.
LEMMA Numbers ==
  /\ Lease \in Nat /\ RunTimeout \in Nat /\ MaxBackoff \in Nat /\ MaxBudget \in Nat
  /\ LoopBudget \in 0..MaxBudget /\ DefaultBudget \in 0..MaxBudget
  /\ MaxItems \in Nat /\ LoopItems \in 0..MaxItems /\ DefaultItems \in 0..MaxItems
  /\ 1 <= RunTimeout /\ 1 <= MaxBackoff /\ MaxOutages \in Nat
  BY Times

\* What a caller asks for is clamped, whatever it is.
LEMMA ClampTaken ==
  ASSUME NEW max \in Nat, NEW fallback \in 0..max, NEW asked \in Nat
  PROVE  Clamp(asked, fallback, max) \in 0..max
<1>1. Min({asked, max}) \in 0..max
  BY MinOfTwo
<1>2. QED
  BY <1>1 DEF Clamp

\* A tick begins with its bounds and nothing spent.
LEMMA TickBegins ==
  ASSUME NEW budget \in 0..MaxBudget, NEW max \in 0..MaxItems
  PROVE  /\ Ticking(budget, max) \in Ticks
         /\ Ticking(budget, max).budget = budget /\ Ticking(budget, max).max = max
         /\ Ticking(budget, max).spent = 0 /\ Ticking(budget, max).items = 0
  BY Numbers DEF Ticking, Ticks

\* A caller's tick begins within the limits, whatever was asked for.
LEMMA CallBegins ==
  ASSUME NEW a \in Caller, TickCalled(a)
  PROVE  \E budget \in 0..MaxBudget, max \in 0..MaxItems :
           tick' = [tick EXCEPT ![a] = Ticking(budget, max)]
<1>1. PICK budget \in AskedBudget, items \in AskedItems :
             tick' = [tick EXCEPT ![a] = Ticking(Clamp(budget, DefaultBudget, MaxBudget),
                                                 Clamp(items, DefaultItems, MaxItems))]
  BY DEF TickCalled
<1>2. budget \in Nat /\ items \in Nat
  BY Times
<1>3. Clamp(budget, DefaultBudget, MaxBudget) \in 0..MaxBudget
  BY <1>2, Numbers, ClampTaken
<1>4. Clamp(items, DefaultItems, MaxItems) \in 0..MaxItems
  BY <1>2, Numbers, ClampTaken
<1>5. QED
  BY <1>1, <1>3, <1>4

\* What a tick that ends leaves behind.
LEMMA TickEnds ==
  ASSUME TypeOK, NEW a \in Actor, NEW more \in BOOLEAN, NEW failed \in BOOLEAN,
         EndTick(a, more, failed)
  PROVE  /\ tick' \in [Actor -> Ticks]
         /\ run' \in [Actor -> Runs]
         /\ st' \in [Actor -> {"off", "ticking", "running", "sleeping", "stopped"}]
         /\ backoff' \in 1..MaxBackoff /\ delay' \in 0..MaxBackoff
<1>1. NoTick \in Ticks
  BY Numbers DEF NoTick, Ticking, Ticks
<1>2. Ticking(LoopBudget, LoopItems) \in Ticks
  BY Numbers, TickBegins
<1>3. NoRun \in Runs
  BY Numbers DEF NoRun, Runs
<1>4. Doubled \in 1..MaxBackoff
  <2>1. MaxBackoff \in Nat /\ 2 * backoff \in Nat /\ 1 <= MaxBackoff /\ 1 <= 2 * backoff
    BY Numbers DEF TypeOK
  <2>2. QED
    BY <2>1, MinOfTwo DEF Doubled
<1>5. Sleep(more, failed) \in 0..MaxBackoff
  BY Numbers DEF Sleep, TypeOK
<1>6. tick' \in [Actor -> Ticks]
      /\ run' \in [Actor -> Runs]
  BY <1>1, <1>2, <1>3 DEF EndTick, TypeOK
<1>7. st' \in [Actor -> {"off", "ticking", "running", "sleeping", "stopped"}]
  BY DEF EndTick, TypeOK
<1>8. backoff' \in 1..MaxBackoff /\ delay' \in 0..MaxBackoff
  BY <1>4, <1>5, Numbers DEF EndTick, TypeOK
<1>9. QED
  BY <1>6, <1>7, <1>8

\* A tick that runs an instance had budget when it claimed it: what it has spent
\* is less than its budget and the run together, and one item is still its own.
\* Any other tick has spent less than its budget and one run of the longest.
BudgetInv ==
  \A a \in Actor :
    /\ st[a] = "running" => /\ run[a].of \in Instance
                            /\ tick[a].spent < tick[a].budget + run[a].elapsed
                            /\ tick[a].items < tick[a].max
    /\ tick[a].spent < tick[a].budget + RunTimeout
    /\ tick[a].items <= tick[a].max

\* Every step keeps the types.
LEMMA TypeStep == TypeOK /\ BudgetInv /\ [Next]_vars => TypeOK'
<1> SUFFICES ASSUME TypeOK, BudgetInv, [Next]_vars PROVE TypeOK'
  OBVIOUS
<1>1. ASSUME NEW i \in Instance, Arrive(i) PROVE TypeOK'
  <2>1. queue' \in Seq(Instance) /\ IsInjective(queue')
    <3>1. queue \in Seq(Instance) /\ IsInjective(queue) /\ \A n \in DOMAIN queue : queue[n] # i
      BY <1>1 DEF Arrive, InQueue, TypeOK
    <3>2. QED
      BY <1>1, <3>1, QueueBehind DEF Arrive
  <2>2. QED
    BY <1>1, <2>1 DEF Arrive, TypeOK
<1>2. ASSUME NEW a \in Actor, Claim(a) PROVE TypeOK'
  <2>1. PICK i \in Instance : /\ lease' = [lease EXCEPT ![i] = Lease]
                              /\ run' = [run EXCEPT ![a] = [of |-> i, elapsed |-> 0]]
                              /\ unsaved' = unsaved \ {i}
    BY <1>2 DEF Claim
  <2>2. [of |-> i, elapsed |-> 0] \in Runs /\ Lease \in 0..Lease
    BY Numbers DEF Runs
  <2>3. lease' \in [Instance -> 0..Lease] /\ run' \in [Actor -> Runs]
    BY <2>1, <2>2 DEF TypeOK
  <2>4. QED
    BY <1>2, <2>1, <2>3 DEF Claim, TypeOK
<1>3. ASSUME NEW a \in Actor, TickReturns(a) PROVE TypeOK'
  <2>1. PICK more \in BOOLEAN, failed \in BOOLEAN : EndTick(a, more, failed)
    BY <1>3 DEF TickReturns
  <2>2. QED
    BY <1>3, <2>1, TickEnds DEF TickReturns, TypeOK
<1>4. ASSUME NEW a \in Actor, ClaimThrows(a) PROVE TypeOK'
  <2>1. EndTick(a, FALSE, TRUE)
    BY <1>4 DEF ClaimThrows
  <2>2. QED
    BY <1>4, <2>1, TickEnds DEF ClaimThrows, TypeOK
<1>5. ASSUME NEW a \in Actor, Saved(a) PROVE TypeOK'
  <2> DEFINE i == run[a].of
  <2>1. i \in Instance
    BY <1>5 DEF Saved, BudgetInv
  <2>2. queue' \in Seq(Instance) /\ IsInjective(queue')
    <3>1. queue \in Seq(Instance) /\ IsInjective(queue)
      BY DEF TypeOK
    <3> HIDE DEF i
    <3>2. /\ Without(i) \in Seq(Instance) /\ IsInjective(Without(i))
          /\ \A n \in DOMAIN Without(i) : Without(i)[n] # i
      BY <3>1, WithoutOne DEF Without
    <3>3. ComesDueAgain(i) \in Seq(Instance) /\ IsInjective(ComesDueAgain(i))
      BY <2>1, <3>2, QueueBehind DEF ComesDueAgain
    <3>4. queue' = Without(i) \/ queue' = ComesDueAgain(i)
      BY <1>5 DEF Saved, i
    <3>5. QED
      BY <3>2, <3>3, <3>4
  <2>3. tick' \in [Actor -> Ticks]
    <3>1. tick[a] \in Ticks /\ tick[a].items < tick[a].max
      BY <1>5 DEF Saved, BudgetInv, TypeOK
    <3>2. tick' = [tick EXCEPT ![a] = [tick[a] EXCEPT !.items = tick[a].items + 1]]
      BY <1>5 DEF Saved
    <3>3. [tick[a] EXCEPT !.items = tick[a].items + 1]
            \in Ticks
      BY <3>1, Numbers DEF Ticks
    <3>4. QED
      BY <3>2, <3>3 DEF TypeOK
  <2>4. NoRun \in Runs /\ 0 \in 0..Lease
    BY Numbers DEF NoRun, Runs
  <2>5. QED
    BY <1>5, <2>2, <2>3, <2>4 DEF Saved, TypeOK
<1>6. ASSUME NEW a \in Actor, SaveThrows(a) PROVE TypeOK'
  <2>1. EndTick(a, FALSE, TRUE) /\ run[a].of \in Instance
    BY <1>6 DEF SaveThrows, BudgetInv
  <2>2. QED
    BY <1>6, <2>1, TickEnds DEF SaveThrows, TypeOK
<1>7. ASSUME NEW a \in Caller, TickCalled(a) PROVE TypeOK'
  <2>1. PICK budget \in 0..MaxBudget, max \in 0..MaxItems :
               tick' = [tick EXCEPT ![a] = Ticking(budget, max)]
    BY <1>7, CallBegins
  <2>3. Ticking(budget, max) \in Ticks
    BY TickBegins
  <2>4. a \in Actor
    BY DEF Actor
  <2>5. QED
    BY <1>7, <2>1, <2>3, <2>4 DEF TickCalled, TypeOK
<1>8. CASE Pass
  <2>1. lease' \in [Instance -> 0..Lease] /\ delay' \in 0..MaxBackoff
    BY <1>8, Numbers DEF Pass, Less, TypeOK
  <2>2. run' \in [Actor -> Runs]
    <3>1. ASSUME NEW a \in Actor, st[a] = "running"
          PROVE  [run[a] EXCEPT !.elapsed = run[a].elapsed + 1]
                   \in Runs
      <4>1. run[a] \in Runs /\ run[a].elapsed < RunTimeout
        BY <1>8, <3>1 DEF Pass, TypeOK
      <4>2. QED
        BY <4>1, Numbers DEF Runs
    <3>2. QED
      BY <1>8, <3>1 DEF Pass, TypeOK
  <2>3. tick' \in [Actor -> Ticks]
    <3>1. ASSUME NEW a \in Actor
          PROVE  [tick[a] EXCEPT !.spent = tick[a].spent + 1]
                   \in Ticks
      <4>1. tick[a] \in Ticks
        BY DEF TypeOK
      <4>2. QED
        BY <4>1 DEF Ticks
    <3>2. QED
      BY <1>8, <3>1 DEF Pass, TypeOK
  <2>4. QED
    BY <1>8, <2>1, <2>2, <2>3 DEF Pass, TypeOK
<1>9. CASE Wake
  <2>1. st' \in [Actor -> {"off", "ticking", "running", "sleeping", "stopped"}] /\ delay' \in 0..MaxBackoff
    <3>1. st \in [Actor -> {"off", "ticking", "running", "sleeping", "stopped"}]
      BY DEF TypeOK
    <3>2. st' = [st EXCEPT ![Loop] = "stopped"] \/ st' = [st EXCEPT ![Loop] = "ticking"]
      BY <1>9 DEF Wake
    <3>3. st' \in [Actor -> {"off", "ticking", "running", "sleeping", "stopped"}]
      BY <3>1, <3>2
    <3>4. delay' \in 0..MaxBackoff
      BY <1>9, Numbers DEF Wake
    <3>5. QED
      BY <3>3, <3>4
  <2>2. QED
    BY <1>9, <2>1 DEF Wake, TypeOK
<1>10. CASE Down \/ Up \/ Close
  <2>1. outages \in 0..MaxOutages /\ db \in BOOLEAN /\ server \in {"up", "closing", "exited"}
    BY DEF TypeOK
  <2>2. outages' \in 0..MaxOutages /\ server' \in {"up", "closing", "exited"}
    <3>1. outages' = outages \/ (outages < MaxOutages /\ outages' = outages + 1)
      BY <1>10 DEF Down, Up, Close
    <3>2. server' = server \/ server' = "closing"
      BY <1>10 DEF Down, Up, Close
    <3>3. QED
      BY <2>1, <3>1, <3>2, Numbers
  <2>3. db' \in BOOLEAN
    BY <1>10, <2>1 DEF Down, Up, Close
  <2>4. UNCHANGED <<queue, lease, st, tick, run, fresh, backoff, delay, unsaved>>
    BY <1>10 DEF Down, Up, Close
  <2>5. QED
    BY <2>2, <2>3, <2>4 DEF TypeOK
<1>11. CASE Exit
  <2>1. unsaved' \subseteq Instance
    <3>1. \A a \in Caller : st[a] = "running" => run[a].of \in Instance
      BY DEF BudgetInv, Actor
    <3>2. QED
      BY <1>11, <3>1 DEF Exit, TypeOK
  <2>2. tick' \in [Actor -> Ticks]
        /\ run' \in [Actor -> Runs]
    <3>1. NoTick \in Ticks /\ NoRun \in Runs
      BY Numbers DEF NoTick, Ticking, NoRun, Ticks, Runs
    <3>2. QED
      BY <1>11, <3>1 DEF Exit, TypeOK
  <2>3. QED
    BY <1>11, <2>1, <2>2 DEF Exit, TypeOK
<1>12. CASE UNCHANGED vars
  BY <1>12 DEF vars, TypeOK
<1>13. QED
  BY <1>1, <1>2, <1>3, <1>4, <1>5, <1>6, <1>7, <1>8, <1>9, <1>10, <1>11, <1>12 DEF Next, Acts

----------------------------------------------------------------------------
(***************************************************************************)
(* The bound of a tick.                                                    *)
(***************************************************************************)

\* A tick that has ended, of a caller or of the loop, has spent nothing.
LEMMA TickEndsBounded ==
  ASSUME TypeOK, BudgetInv, NEW a \in Actor, NEW more, NEW failed, EndTick(a, more, failed)
  PROVE  BudgetInv'
<1>1. st'[a] # "running"
  BY DEF EndTick, TypeOK
<1>2. tick'[a].spent < tick'[a].budget + RunTimeout /\ tick'[a].items <= tick'[a].max
  <2>1. NoTick.spent = 0 /\ NoTick.budget = 0 /\ NoTick.items = 0 /\ NoTick.max = 0
    BY DEF NoTick, Ticking
  <2>2. tick'[a] = NoTick \/ tick'[a] = Ticking(LoopBudget, LoopItems)
    BY DEF EndTick, TypeOK
  <2>3. QED
    BY <2>1, <2>2, Numbers, TickBegins
<1>3. \A b \in Actor \ {a} : st'[b] = st[b] /\ tick'[b] = tick[b] /\ run'[b] = run[b]
  BY DEF EndTick, TypeOK
<1>4. QED
  BY <1>1, <1>2, <1>3 DEF BudgetInv

\* Every step keeps the bound.
LEMMA BudgetStep == TypeOK /\ BudgetInv /\ [Next]_vars => BudgetInv'
<1> SUFFICES ASSUME TypeOK, BudgetInv, [Next]_vars PROVE BudgetInv'
  OBVIOUS
<1>1. ASSUME UNCHANGED <<st, tick, run>> PROVE BudgetInv'
  BY <1>1 DEF BudgetInv
<1>2. ASSUME NEW i \in Instance, Arrive(i) PROVE BudgetInv'
  BY <1>1, <1>2 DEF Arrive
<1>3. ASSUME NEW a \in Actor, Claim(a) PROVE BudgetInv'
  <2>1. PICK i \in Instance : run' = [run EXCEPT ![a] = [of |-> i, elapsed |-> 0]]
    BY <1>3 DEF Claim
  <2>2. tick[a] \in Ticks
    BY DEF TypeOK
  <2>3. tick[a].spent < tick[a].budget + 0 /\ tick[a].items < tick[a].max
    BY <1>3, <2>2 DEF Claim, HasBudget, Ticks
  <2>4. run'[a].of = i /\ run'[a].elapsed = 0 /\ tick' = tick
    BY <1>3, <2>1 DEF Claim, TypeOK
  <2>5. \A b \in Actor \ {a} : st'[b] = st[b] /\ run'[b] = run[b]
    BY <1>3, <2>1 DEF Claim, TypeOK
  <2>6. QED
    BY <2>3, <2>4, <2>5 DEF BudgetInv
<1>4. ASSUME NEW a \in Actor, TickReturns(a) \/ ClaimThrows(a) \/ SaveThrows(a) PROVE BudgetInv'
  BY <1>4, TickEndsBounded DEF TickReturns, ClaimThrows, SaveThrows
<1>5. ASSUME NEW a \in Actor, Saved(a) PROVE BudgetInv'
  <2>1. /\ st'[a] = "ticking" /\ tick'[a].spent = tick[a].spent /\ tick'[a].budget = tick[a].budget
        /\ tick'[a].items = tick[a].items + 1 /\ tick'[a].max = tick[a].max
    BY <1>5 DEF Saved, TypeOK, Ticks
  <2>4. tick[a].items < tick[a].max /\ tick[a].items \in Nat /\ tick[a].max \in Nat
    BY <1>5 DEF Saved, BudgetInv, TypeOK, Ticks
  <2>2. \A b \in Actor \ {a} : st'[b] = st[b] /\ run'[b] = run[b] /\ tick'[b] = tick[b]
    BY <1>5 DEF Saved, TypeOK
  <2>3. QED
    BY <2>1, <2>2, <2>4 DEF BudgetInv
<1>6. ASSUME NEW a \in Caller, TickCalled(a) PROVE BudgetInv'
  <2>1. PICK budget \in 0..MaxBudget, max \in 0..MaxItems :
               tick' = [tick EXCEPT ![a] = Ticking(budget, max)]
    BY <1>6, CallBegins
  <2>2. budget \in Nat /\ max \in Nat
    BY Numbers
  <2>3. a \in Actor
    BY DEF Actor
  <2>4. /\ st'[a] = "ticking" /\ tick'[a].spent = 0 /\ tick'[a].budget = budget
        /\ tick'[a].items = 0 /\ tick'[a].max = max
    BY <1>6, <2>1, <2>3, TickBegins DEF TickCalled, TypeOK
  <2>5. \A b \in Actor \ {a} : st'[b] = st[b] /\ run'[b] = run[b] /\ tick'[b] = tick[b]
    BY <1>6, <2>1 DEF TickCalled, TypeOK
  <2>6. QED
    BY <2>2, <2>4, <2>5, Numbers DEF BudgetInv
<1>7. CASE Pass
  <2>1. SUFFICES ASSUME NEW a \in Actor
                 PROVE  /\ st'[a] = "running" => /\ run'[a].of \in Instance
                                                 /\ tick'[a].spent < tick'[a].budget + run'[a].elapsed
                                                 /\ tick'[a].items < tick'[a].max
                        /\ tick'[a].spent < tick'[a].budget + RunTimeout
                        /\ tick'[a].items <= tick'[a].max
    BY DEF BudgetInv
  <2>2. st' = st
    BY <1>7 DEF Pass
  <2>3. tick[a] \in Ticks /\ run[a] \in Runs
    BY DEF TypeOK
  <2>4. CASE st[a] = "running"
    <3>1. /\ run'[a] = [run[a] EXCEPT !.elapsed = run[a].elapsed + 1]
          /\ tick'[a] = [tick[a] EXCEPT !.spent = tick[a].spent + 1]
          /\ run[a].elapsed < RunTimeout
      BY <1>7, <2>4 DEF Pass
    <3>2. /\ run'[a].of = run[a].of /\ run'[a].elapsed = run[a].elapsed + 1
          /\ tick'[a].spent = tick[a].spent + 1 /\ tick'[a].budget = tick[a].budget
          /\ tick'[a].items = tick[a].items /\ tick'[a].max = tick[a].max
      BY <2>3, <3>1 DEF Ticks, Runs
    <3>3. /\ run[a].of \in Instance /\ tick[a].items < tick[a].max
          /\ tick[a].spent < tick[a].budget + run[a].elapsed
      BY <2>4 DEF BudgetInv
    <3>4. /\ tick[a].spent \in Nat /\ tick[a].budget \in Nat /\ run[a].elapsed \in Nat
          /\ tick[a].items \in Nat /\ tick[a].max \in Nat
      BY <2>3, Numbers DEF Ticks, Runs
    <3>5. QED
      BY <3>1, <3>2, <3>3, <3>4, Numbers
  <2>5. CASE st[a] # "running"
    <3>1. run'[a] = run[a] /\ tick'[a] = tick[a]
      BY <1>7, <2>5 DEF Pass
    <3>2. QED
      BY <2>2, <2>5, <3>1 DEF BudgetInv
  <2>6. QED
    BY <2>4, <2>5
<1>8. CASE Wake
  <2>1. st'[Loop] # "running" /\ tick' = tick /\ run' = run /\ \A b \in Actor \ {Loop} : st'[b] = st[b]
    BY <1>8 DEF Wake, TypeOK, Actor
  <2>2. QED
    BY <2>1 DEF BudgetInv
<1>9. CASE Down \/ Up \/ Close
  BY <1>1, <1>9 DEF Down, Up, Close
<1>10. CASE Exit
  <2>1. st'[Loop] = st[Loop] /\ tick'[Loop] = tick[Loop] /\ run'[Loop] = run[Loop]
    BY <1>10 DEF Exit, Actor
  <2>2. \A b \in Actor \ {Loop} : st'[b] = "off" /\ tick'[b] = NoTick
    BY <1>10 DEF Exit
  <2>3. NoTick.spent = 0 /\ NoTick.budget = 0 /\ NoTick.items = 0 /\ NoTick.max = 0
    BY DEF NoTick, Ticking
  <2>4. QED
    BY <2>1, <2>2, <2>3, Numbers DEF BudgetInv
<1>11. CASE UNCHANGED vars
  BY <1>1, <1>11 DEF vars
<1>12. QED
  BY <1>2, <1>3, <1>4, <1>5, <1>6, <1>7, <1>8, <1>9, <1>10, <1>11 DEF Next, Acts

\* Init establishes types and bound.
LEMMA LoopInit == Init => TypeOK /\ BudgetInv
<1> SUFFICES ASSUME Init PROVE TypeOK /\ BudgetInv
  OBVIOUS
<1>1. queue \in Seq(Instance) /\ IsInjective(queue)
  <2>1. queue \in Seq(Poison) /\ IsInjective(queue)
    BY Times, QueueOf DEF Init
  <2>2. QED
    BY <2>1, Times, SeqMonotonic
<1>2. NoTick \in Ticks /\ Ticking(LoopBudget, LoopItems) \in Ticks /\ NoRun \in Runs
  BY Numbers, TickBegins DEF NoTick, Ticking, NoRun, Ticks, Runs
<1>3. tick \in [Actor -> Ticks] /\ run \in [Actor -> Runs]
  BY <1>2 DEF Init
<1>4. TypeOK
  <2>1. lease \in [Instance -> 0..Lease] /\ backoff \in 1..MaxBackoff /\ delay \in 0..MaxBackoff
        /\ outages \in 0..MaxOutages
    BY Numbers DEF Init
  <2>2. st \in [Actor -> {"off", "ticking", "running", "sleeping", "stopped"}]
    BY DEF Init
  <2>3. fresh \subseteq Caller \cup Instance /\ server = "up" /\ unsaved = {}
    BY DEF Init
  <2>4. db \in BOOLEAN
    BY DEF Init
  <2>5. QED
    BY <1>1, <1>3, <2>1, <2>2, <2>3, <2>4 DEF TypeOK
<1>5. BudgetInv
  BY Numbers, TickBegins DEF Init, BudgetInv, NoTick, Ticking
<1>6. QED
  BY <1>4, <1>5

\* Every variable of WorkerLoop stays in its set and an instance is queued once,
\* for any instances, callers, times and budgets that are clamped.
THEOREM WorkerLoopTypeCorrect == Spec => []TypeOK
<1>1. Init => TypeOK /\ BudgetInv
  BY LoopInit
<1>2. TypeOK /\ BudgetInv /\ [Next]_vars => TypeOK' /\ BudgetInv'
  BY TypeStep, BudgetStep
<1>3. QED
  BY <1>1, <1>2, PTL DEF Spec

\* No tick, the loop's or a caller's, runs longer than its own budget and one run
\* beyond, nor takes more items than its own ("budgetMs / maxItems bound the
\* call", README.md:66), for any budgets and items asked for and however many
\* instances come due.
THEOREM TicksBounded == Spec => []TickBounded
<1>1. Init => TypeOK /\ BudgetInv
  BY LoopInit
<1>2. TypeOK /\ BudgetInv /\ [Next]_vars => TypeOK' /\ BudgetInv'
  BY TypeStep, BudgetStep
<1>3. BudgetInv => TickBounded
  BY DEF BudgetInv, TickBounded
<1>4. QED
  BY <1>1, <1>2, <1>3, PTL DEF Spec

----------------------------------------------------------------------------
(***************************************************************************)
(* The shutdown.                                                           *)
(***************************************************************************)

\* Who still has a lease is run by somebody, or could not be saved; and when
\* the process is gone nobody runs anything.
HeldInv ==
  /\ \A i \in Instance : lease[i] > 0 => i \in unsaved \/ Running(i)
  /\ server = "exited" => st[Loop] = "stopped" /\ \A a \in Caller : st[a] = "off"

\* Every step keeps it.
LEMMA HeldStep == TypeOK /\ BudgetInv /\ HeldInv /\ [Next]_vars => HeldInv'
<1> SUFFICES ASSUME TypeOK, BudgetInv, HeldInv, [Next]_vars PROVE HeldInv'
  OBVIOUS
<1> DEFINE Held(i) == lease[i] > 0 => i \in unsaved \/ Running(i)
           Gone    == server = "exited" => st[Loop] = "stopped" /\ \A a \in Caller : st[a] = "off"
<1>1. (\A i \in Instance : Held(i)) /\ Gone
  BY DEF HeldInv
<1>2. ASSUME UNCHANGED <<lease, st, run, unsaved>>, server' = server \/ server' # "exited" PROVE HeldInv'
  BY <1>2 DEF HeldInv, Running
<1>3. ASSUME NEW a \in Actor, server # "exited",
             UNCHANGED <<lease, server>>, unsaved \subseteq unsaved',
             st[a] = "running" => run[a].of \in unsaved',
             \A b \in Actor \ {a} : st'[b] = st[b] /\ run'[b] = run[b]
      PROVE  HeldInv'
  BY <1>3 DEF HeldInv, Running
<1>4. ASSUME NEW a \in Actor, server # "exited", Claim(a) PROVE HeldInv'
  <2>1. PICK i \in Instance : /\ lease' = [lease EXCEPT ![i] = Lease]
                              /\ run' = [run EXCEPT ![a] = [of |-> i, elapsed |-> 0]]
                              /\ unsaved' = unsaved \ {i}
    BY <1>4 DEF Claim
  <2>2. st[a] # "running" /\ st'[a] = "running" /\ run'[a].of = i
    BY <1>4, <2>1 DEF Claim, TypeOK
  <2>3. \A b \in Actor \ {a} : st'[b] = st[b] /\ run'[b] = run[b]
    BY <1>4, <2>1 DEF Claim, TypeOK
  <2>4. Running(i)'
    BY <2>2 DEF Running
  <2>5. ASSUME NEW j \in Instance, j # i PROVE lease'[j] > 0 => j \in unsaved' \/ Running(j)'
    <3>1. lease'[j] = lease[j] /\ (j \in unsaved => j \in unsaved')
      BY <2>1, <2>5 DEF TypeOK
    <3>2. Running(j) => Running(j)'
      BY <2>2, <2>3 DEF Running
    <3>3. QED
      BY <1>1, <3>1, <3>2
  <2>6. server' # "exited"
    BY <1>4 DEF Claim
  <2>7. QED
    BY <2>4, <2>5, <2>6 DEF HeldInv
<1>5. ASSUME NEW a \in Actor, server # "exited", TickReturns(a) \/ ClaimThrows(a) \/ SaveThrows(a)
      PROVE  HeldInv'
  <2>1. PICK more, failed : EndTick(a, more, failed)
    BY <1>5 DEF TickReturns, ClaimThrows, SaveThrows
  <2>2. \A b \in Actor \ {a} : st'[b] = st[b] /\ run'[b] = run[b]
    BY <2>1 DEF EndTick, TypeOK
  <2>3. UNCHANGED <<lease, server>> /\ unsaved \subseteq unsaved'
    BY <1>5 DEF TickReturns, ClaimThrows, SaveThrows
  <2>4. st[a] = "running" => run[a].of \in unsaved'
    BY <1>5 DEF TickReturns, ClaimThrows, SaveThrows
  <2>5. QED
    BY <1>3, <1>5, <2>2, <2>3, <2>4
<1>6. ASSUME NEW a \in Actor, server # "exited", Saved(a) PROVE HeldInv'
  <2>1. run[a].of \in Instance /\ lease'[run[a].of] = 0
    BY <1>6 DEF Saved, BudgetInv, TypeOK
  <2>2. \A b \in Actor \ {a} : st'[b] = st[b] /\ run'[b] = run[b]
    BY <1>6 DEF Saved, TypeOK
  <2>3. ASSUME NEW j \in Instance, j # run[a].of PROVE lease'[j] > 0 => j \in unsaved' \/ Running(j)'
    BY <1>1, <1>6, <2>2, <2>3 DEF Saved, Running, TypeOK
  <2>4. server' # "exited"
    BY <1>6 DEF Saved
  <2>5. QED
    BY <2>1, <2>3, <2>4 DEF HeldInv
<1>7. ASSUME NEW a \in Caller, TickCalled(a) PROVE HeldInv'
  <2>1. a \in Actor /\ st[a] # "running" /\ server # "exited" /\ UNCHANGED <<lease, server, unsaved>>
    BY <1>7 DEF TickCalled, Actor
  <2>2. \A b \in Actor \ {a} : st'[b] = st[b] /\ run'[b] = run[b]
    BY <1>7 DEF TickCalled, TypeOK
  <2>3. QED
    BY <1>3, <2>1, <2>2
<1>8. CASE Pass
  <2>1. \A i \in Instance : Running(i)' <=> Running(i)
    <3>1. st' = st /\ \A a \in Actor : st[a] = "running" => run'[a].of = run[a].of
      BY <1>8 DEF Pass, TypeOK, Runs
    <3>2. QED
      BY <3>1 DEF Running
  <2>2. ASSUME NEW i \in Instance, lease'[i] > 0 PROVE lease[i] > 0 \/ Running(i)
    <3>1. lease[i] \in Nat
      BY Numbers DEF TypeOK
    <3>2. lease'[i] = IF Beats(i) THEN Lease ELSE Less(lease[i])
      BY <1>8 DEF Pass
    <3>3. CASE Beats(i)
      BY <3>3 DEF Beats, Running
    <3>4. CASE ~Beats(i)
      BY <2>2, <3>1, <3>2, <3>4 DEF Less
    <3>5. QED
      BY <3>3, <3>4
  <2>3. unsaved' = unsaved /\ server' # "exited"
    BY <1>8 DEF Pass
  <2>4. QED
    BY <1>1, <2>1, <2>2, <2>3 DEF HeldInv
<1>9. CASE Wake
  <2>1. server # "exited" /\ st[Loop] # "running" /\ Loop \in Actor
    BY <1>1, <1>9 DEF Wake, Actor
  <2>2. \A b \in Actor \ {Loop} : st'[b] = st[b] /\ run'[b] = run[b]
    BY <1>9 DEF Wake, TypeOK
  <2>3. UNCHANGED <<lease, server, unsaved>>
    BY <1>9 DEF Wake
  <2>4. QED
    BY <1>3, <2>1, <2>2, <2>3
<1>10. ASSUME NEW i \in Instance, Arrive(i) PROVE HeldInv'
  BY <1>2, <1>10 DEF Arrive
<1>11. CASE Down \/ Up \/ Close
  BY <1>2, <1>11 DEF Down, Up, Close
<1>12. CASE Exit
  <2>1. st'[Loop] = "stopped" /\ \A a \in Caller : st'[a] = "off"
    BY <1>12, Times DEF Exit, Awaited, Actor
  <2>2. ASSUME NEW i \in Instance, Running(i) PROVE i \in unsaved'
    <3>1. PICK a \in Actor : st[a] = "running" /\ run[a].of = i
      BY <2>2 DEF Running
    <3>2. a \in Caller
      BY <1>12, <3>1 DEF Exit, Awaited, Actor
    <3>3. QED
      BY <1>12, <3>1, <3>2 DEF Exit
  <2>3. lease' = lease /\ unsaved \subseteq unsaved'
    BY <1>12 DEF Exit
  <2>4. QED
    BY <1>1, <2>1, <2>2, <2>3 DEF HeldInv
<1>13. CASE UNCHANGED vars
  BY <1>2, <1>13 DEF vars
<1>14. QED
  BY <1>4, <1>5, <1>6, <1>7, <1>8, <1>9, <1>10, <1>11, <1>12, <1>13 DEF Next, Acts

\* When the process is gone no run of the loop was cut short: what is still
\* locked could not be saved, or belonged to a Tick call ("the current tick
\* always finishes, so its instances are saved, not dropped", worker.ts:907).
THEOREM ShutdownDropsNothing == Spec => []NothingDropped
<1>1. Init => TypeOK /\ BudgetInv /\ HeldInv
  BY LoopInit, Numbers DEF Init, HeldInv
<1>2. TypeOK /\ BudgetInv /\ HeldInv /\ [Next]_vars => TypeOK' /\ BudgetInv' /\ HeldInv'
  BY TypeStep, BudgetStep, HeldStep
<1>3. HeldInv => NothingDropped
  BY DEF HeldInv, NothingDropped, Running, Actor
<1>4. QED
  BY <1>1, <1>2, <1>3, PTL DEF Spec
=============================================================================
