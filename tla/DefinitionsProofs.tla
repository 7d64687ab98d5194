------------------------- MODULE DefinitionsProofs -------------------------
(***************************************************************************)
(* Proofs about Definitions, for any number of names, calls, attempts and  *)
(* page sizes: versions are numbered without gaps and follow real time, a  *)
(* deploy gives up only when beaten, and no listing misses a definition.   *)
(***************************************************************************)
EXTENDS Definitions, FiniteSetTheorems, TLAPS

----------------------------------------------------------------------------
(***************************************************************************)
(* Lemmas.                                                                 *)
(***************************************************************************)

\* The latest of the versions 1 to k is k, of none it is 0.
LEMMA HighestOfPrefix == ASSUME NEW k \in Nat PROVE Highest(1..k) = k
<1>1. CASE k = 0
  BY <1>1 DEF Highest
<1>2. CASE k # 0
  <2>1. k \in 1..k /\ \A w \in 1..k : w <= k
    BY <1>2
  <2>2. \A v \in 1..k : (\A w \in 1..k : w <= v) => v = k
    BY <2>1
  <2>3. QED
    BY <2>1, <2>2 DEF Highest
<1>3. QED
  BY <1>1, <1>2

\* The higher of two versions is one of them.
LEMMA HighestOfTwo ==
  ASSUME NEW a \in Nat, NEW b \in Nat PROVE Highest({a, b}) \in {a, b}
<1>1. \E v \in {a, b} : \A w \in {a, b} : w <= v
  BY DEF Highest
<1>2. QED
  BY <1>1 DEF Highest

\* There are k versions from 1 to k.
LEMMA PrefixSize == ASSUME NEW k \in Nat PROVE Cardinality(1..k) = k
  BY FS_Interval

----------------------------------------------------------------------------
(***************************************************************************)
(* The type of the variables.                                              *)
(***************************************************************************)

Pc == {"idle", "reading", "creating", "finding", "deployed", "gaveUp", "started", "notFound",
       "listing", "listed"}

CallType == [pc : Pc, name : Name, version : Nat, attempt : 0..DeployAttempts, skip : Nat,
             floor : Nat, rivals : Nat, owed : SUBSET (Name \X Nat)]

\* The definitions stored are names with a version.
LEMMA RowsType == TypeOK => Rows \subseteq Name \X Nat
  BY DEF TypeOK, Rows

\* What a call begins with is a call.
LEMMA BeginType ==
  ASSUME TypeOK, NEW n \in Name, NEW step \in Pc
  PROVE  Begin(step, n) \in CallType
  BY AttemptsPositive DEF TypeOK, Begin, CallType, Pc

\* The versions of a name are those from 1 up to their number.
Count(n) == Cardinality(versions[n])
Prefix   == \A n \in Name : Count(n) \in Nat /\ versions[n] = 1..Count(n)

\* The latest version is the number of them.
LEMMA LatestIsCount ==
  ASSUME Prefix, NEW n \in Name PROVE LatestVersion(n) = {Count(n)} /\ Count(n) \in Nat
  BY HighestOfPrefix DEF Prefix, LatestVersion

\* Versions are only added, and a create adds the next one.
LEMMA CountGrows ==
  ASSUME TypeOK, Prefix, NEW c \in Caller, Create(c), call[c].version <= Count(call[c].name)
  PROVE  /\ call[c].version = Count(call[c].name)
         /\ \A n \in Name : Count(n)' = IF n = call[c].name THEN Count(n) + 1 ELSE Count(n)
         /\ Prefix'
<1> DEFINE m == call[c].name
           v == call[c].version + 1
<1>1. m \in Name /\ call[c].version \in Nat /\ versions \in [Name -> SUBSET Nat]
  BY DEF TypeOK
<1>2. v \notin versions[m] /\ versions' = [versions EXCEPT ![m] = @ \cup {v}]
  BY DEF Create
<1>3. Count(m) \in Nat /\ versions[m] = 1..Count(m)
  BY <1>1 DEF Prefix
<1>4. v = Count(m) + 1
  BY <1>1, <1>2, <1>3
<1>5. versions'[m] = 1..(Count(m) + 1)
  <2>1. versions'[m] = versions[m] \cup {v}
    BY <1>1, <1>2
  <2>2. \A k \in Nat : (1..k) \cup {k + 1} = 1..(k + 1)
    OBVIOUS
  <2>3. QED
    BY <1>3, <1>4, <2>1, <2>2
<1>6. Cardinality(versions'[m]) = Count(m) + 1
  BY <1>3, <1>5, PrefixSize
<1>7. \A n \in Name : n # m => versions'[n] = versions[n]
  BY <1>1, <1>2
<1>8. \A n \in Name : Count(n)' = IF n = m THEN Count(n) + 1 ELSE Count(n)
  BY <1>6, <1>7 DEF Count
<1>9. Prefix'
  <2> SUFFICES ASSUME NEW n \in Name PROVE Count(n)' \in Nat /\ versions'[n] = 1..Count(n)'
    BY DEF Prefix
  <2>1. CASE n = m
    BY <2>1, <1>1, <1>3, <1>5, <1>8
  <2>2. CASE n # m
    BY <2>2, <1>7, <1>8 DEF Prefix
  <2>3. QED
    BY <2>1, <2>2
<1>10. QED
  BY <1>1, <1>3, <1>4, <1>8, <1>9

\* Nothing else touches them.
LEMMA CountStays == ASSUME versions' = versions PROVE (Prefix => Prefix') /\ \A n : Count(n)' = Count(n)
  BY DEF Prefix, Count

----------------------------------------------------------------------------
(***************************************************************************)
(* The calls.                                                              *)
(***************************************************************************)

\* What a call has seen of its name is there, and what was returned before.
Seen(c) ==
  LET r == call[c] IN
  /\ r.floor <= Count(r.name)
  /\ r.pc = "creating" => r.floor <= r.version /\ r.version <= Count(r.name)
  /\ r.pc = "deployed" => r.floor < r.version /\ r.version <= Count(r.name)
  /\ r.pc = "started"  => r.floor <= r.version
  /\ r.pc = "notFound" => r.floor = 0

\* No two deploys that have not returned made the same version.
Apart(c, d) ==
  c # d /\ call[c].pc = "deployed" /\ call[d].pc = "deployed" /\ call[c].name = call[d].name
    => call[c].version # call[d].version

\* Every attempt was lost to a rival of its own.
Beaten(c) ==
  LET r == call[c] IN
  /\ r.pc \in {"reading", "creating"} => r.attempt <= r.rivals + 1
  /\ r.pc = "creating" /\ r.version < Count(r.name) => r.attempt <= r.rivals
  /\ r.pc = "gaveUp" => DeployAttempts <= r.rivals

Returned == \A n \in Name : done[n] <= Count(n)

NumberInv ==
  /\ TypeOK /\ Prefix /\ Returned
  /\ \A c \in Caller : Seen(c) /\ Beaten(c)
  /\ \A c, d \in Caller : Apart(c, d)

LEMMA NumberInit == ASSUME Name # {} PROVE Init => NumberInv
<1> SUFFICES ASSUME Init PROVE NumberInv
  OBVIOUS
<1>1. Idle \in CallType /\ Idle.pc = "idle" /\ Idle.floor = 0
  BY AttemptsPositive DEF Idle, CallType, Pc
<1>2. TypeOK
  BY <1>1 DEF Init, TypeOK, CallType, Pc
<1>3. \A n \in Name : versions[n] = {} /\ Count(n) = 0
  BY FS_EmptySet DEF Init, Count
<1>4. Prefix /\ Returned
  BY <1>3 DEF Prefix, Returned, Init
<1>5. \A c \in Caller : call[c] = Idle /\ call[c].name \in Name
  BY <1>1 DEF Init, CallType
<1>6. \A c \in Caller : Seen(c) /\ Beaten(c)
  BY <1>1, <1>3, <1>5 DEF Seen, Beaten
<1>7. \A c, d \in Caller : Apart(c, d)
  BY <1>1, <1>5 DEF Apart
<1>8. QED
  BY <1>2, <1>4, <1>6, <1>7 DEF NumberInv

\* A step that changes one call keeps the invariant when what it makes of the
\* call is right.
LEMMA OneCall ==
  ASSUME NumberInv, versions' = versions, NEW c \in Caller, NEW r \in CallType,
         call' = [call EXCEPT ![c] = r],
         done' \in [Name -> Nat], \A n \in Name : done'[n] <= Count(n),
         r.pc # "deployed" \/ r = call[c],
         Seen(c)', Beaten(c)'
  PROVE  NumberInv'
<1>1. call \in [Caller -> CallType] /\ versions \in [Name -> SUBSET Nat]
  BY DEF NumberInv, TypeOK, CallType, Pc
<1>2. TypeOK'
  BY <1>1 DEF TypeOK, CallType, Pc
<1>3. Prefix' /\ \A n : Count(n)' = Count(n)
  BY CountStays DEF NumberInv
<1>4. Returned'
  BY <1>3 DEF Returned
<1>5. \A d \in Caller : d # c => call'[d] = call[d]
  BY <1>1
<1>6. call'[c] = r
  BY <1>1
<1>7. ASSUME NEW d \in Caller PROVE Seen(d)' /\ Beaten(d)'
  <2>1. CASE d = c
    BY <2>1
  <2>2. CASE d # c
    BY <2>2, <1>3, <1>5 DEF NumberInv, Seen, Beaten
  <2>3. QED
    BY <2>1, <2>2
<1>8. ASSUME NEW d \in Caller, NEW e \in Caller PROVE Apart(d, e)'
  BY <1>5, <1>6 DEF NumberInv, Apart
<1>9. QED
  BY <1>2, <1>3, <1>4, <1>7, <1>8 DEF NumberInv

LEMMA NumberStep == ASSUME Name # {}, NumberInv, [Next]_vars PROVE NumberInv'
<1>0. /\ call \in [Caller -> CallType] /\ versions \in [Name -> SUBSET Nat]
      /\ done \in [Name -> Nat] /\ TypeOK /\ Prefix
      /\ \A n \in Name : done[n] <= Count(n) /\ Count(n) \in Nat
  BY DEF NumberInv, TypeOK, CallType, Pc, Returned, Prefix
<1>1. CASE UNCHANGED vars
  <2>1. \A n : Count(n)' = Count(n)
    BY <1>1 DEF vars, Count
  <2>2. QED
    BY <1>1, <2>1 DEF vars, NumberInv, TypeOK, Prefix, Returned, Seen, Beaten, Apart
<1>2. ASSUME NEW c \in Caller, NEW r \in CallType, versions' = versions, done' = done,
             call' = [call EXCEPT ![c] = r], r.pc # "deployed",
             r.floor <= Count(r.name),
             r.pc = "creating" => r.floor <= r.version /\ r.version = Count(r.name),
             r.pc = "started"  => r.floor <= r.version,
             r.pc = "notFound" => r.floor = 0,
             r.pc \in {"reading", "creating"} => r.attempt <= r.rivals + 1,
             r.pc = "gaveUp" => DeployAttempts <= r.rivals
      PROVE  NumberInv'
  <2>1. call'[c] = r /\ \A n : Count(n)' = Count(n)
    BY <1>0, <1>2 DEF Count
  <2>2. r.name \in Name /\ Count(r.name) \in Nat
    BY <1>0 DEF CallType
  <2>3. Seen(c)'
    BY <1>2, <2>1, <2>2 DEF Seen
  <2>4. Beaten(c)'
    BY <1>2, <2>1, <2>2 DEF Beaten
  <2>5. QED
    BY <1>0, <1>2, <2>3, <2>4, OneCall
<1>3. ASSUME NEW c \in Caller, NEW n \in Name, NEW step \in {"reading", "finding"},
             call' = [call EXCEPT ![c] = Begin(step, n)], UNCHANGED <<versions, done>>
      PROVE  NumberInv'
  <2>1. Begin(step, n) \in CallType
    BY <1>0, BeginType DEF Pc
  <2> DEFINE r == Begin(step, n)
  <2>2. /\ r.pc = step /\ r.name = n /\ r.floor = done[n]
        /\ r.attempt = 1 /\ r.rivals = 0
    BY DEF Begin
  <2>3. r.floor <= Count(r.name) /\ r.attempt <= r.rivals + 1
    BY <1>0, <2>2
  <2> HIDE DEF r
  <2>4. QED
    BY <1>2, <1>3, <2>1, <2>2, <2>3 DEF r
<1>4. ASSUME NEW c \in Caller, ReadLatest(c) PROVE NumberInv'
  <2> DEFINE r == [call[c] EXCEPT !.pc = "creating", !.version = Count(call[c].name)]
  <2>1. call[c] \in CallType /\ call[c].name \in Name /\ Seen(c) /\ Beaten(c)
    BY <1>0 DEF CallType, NumberInv
  <2>2. LatestVersion(call[c].name) = {Count(call[c].name)} /\ Count(call[c].name) \in Nat
    BY <1>0, <2>1, LatestIsCount
  <2>3. call' = [call EXCEPT ![c] = r] /\ UNCHANGED <<versions, done>> /\ call[c].pc = "reading"
    BY <1>0, <2>2, <1>4 DEF ReadLatest
  <2>4. r \in CallType /\ r.pc = "creating" /\ r.floor = call[c].floor /\ r.name = call[c].name
        /\ r.version = Count(r.name) /\ r.attempt = call[c].attempt /\ r.rivals = call[c].rivals
    BY <2>1, <2>2 DEF CallType, Pc
  <2>5. r.floor <= Count(r.name) /\ r.attempt <= r.rivals + 1
    BY <2>1, <2>3, <2>4 DEF Seen, Beaten
  <2>6. QED
    BY <1>2, <2>3, <2>4, <2>5
<1>5. ASSUME NEW c \in Caller, Lose(c) PROVE NumberInv'
  <2> DEFINE r == TryAgain(call[c])
  <2>1. call[c] \in CallType /\ call[c].name \in Name /\ Seen(c) /\ Beaten(c)
    BY <1>0 DEF CallType, NumberInv
  <2>2. call[c].pc = "creating" /\ call' = [call EXCEPT ![c] = r] /\ UNCHANGED <<versions, done>>
    BY <1>5 DEF Lose
  <2>3. call[c].version + 1 \in 1..Count(call[c].name) /\ Count(call[c].name) \in Nat
    BY <1>0, <1>5, <2>1 DEF Lose, Prefix
  <2>4. call[c].attempt <= call[c].rivals
    BY <2>1, <2>2, <2>3 DEF Beaten, CallType
  <2>5. CASE call[c].attempt >= DeployAttempts
    <3>1. r \in CallType /\ r.pc = "gaveUp" /\ r.floor = call[c].floor /\ r.name = call[c].name
          /\ r.rivals = call[c].rivals
      BY <2>1, <2>5 DEF TryAgain, CallType, Pc
    <3>2. DeployAttempts <= r.rivals /\ r.floor <= Count(r.name)
      BY <2>1, <2>4, <2>5, <3>1, AttemptsPositive DEF CallType, Seen
    <3>3. QED
      BY <1>2, <2>2, <3>1, <3>2
  <2>6. CASE ~(call[c].attempt >= DeployAttempts)
    <3>1. r = [call[c] EXCEPT !.pc = "reading", !.attempt = call[c].attempt + 1]
      BY <2>6 DEF TryAgain
    <3>2. call[c].attempt + 1 \in 0..DeployAttempts
      BY <2>1, <2>6, AttemptsPositive DEF CallType
    <3>3. r \in CallType /\ r.pc = "reading" /\ r.floor = call[c].floor /\ r.name = call[c].name
          /\ r.rivals = call[c].rivals /\ r.attempt = call[c].attempt + 1
      BY <2>1, <3>1, <3>2 DEF CallType, Pc
    <3>4. r.attempt <= r.rivals + 1 /\ r.floor <= Count(r.name)
      BY <2>1, <2>4, <3>3 DEF CallType, Seen
    <3>5. QED
      BY <1>2, <2>2, <3>3, <3>4
  <2>7. QED
    BY <2>5, <2>6
<1>6. ASSUME NEW c \in Caller, Start(c) PROVE NumberInv'
  <2> DEFINE v == Count(call[c].name)
             r == [call[c] EXCEPT !.pc = IF v = 0 THEN "notFound" ELSE "started", !.version = v]
  <2>1. call[c] \in CallType /\ call[c].name \in Name /\ Seen(c)
    BY <1>0 DEF CallType, NumberInv
  <2>2. LatestVersion(call[c].name) = {v} /\ v \in Nat
    BY <1>0, <2>1, LatestIsCount
  <2>3. call' = [call EXCEPT ![c] = r] /\ UNCHANGED <<versions, done>>
    BY <1>0, <2>2, <1>6 DEF Start
  <2>4. r \in CallType /\ r.pc = (IF v = 0 THEN "notFound" ELSE "started")
        /\ r.floor = call[c].floor /\ r.name = call[c].name /\ r.version = v
    BY <2>1, <2>2 DEF CallType, Pc
  <2>5. r.floor <= v /\ r.floor \in Nat
    BY <2>1, <2>4 DEF Seen, CallType
  <2>6. v = 0 => r.floor = 0
    BY <2>5
  <2>7. r.pc \in {"notFound", "started"} /\ (r.pc = "notFound" => v = 0)
    BY <2>4
  <2> HIDE DEF r, v
  <2>8. QED
    BY <1>2, <2>3, <2>4, <2>5, <2>6, <2>7 DEF v
<1>7. ASSUME NEW c \in Caller, List(c) PROVE NumberInv'
  <2> DEFINE r == [Begin("listing", call[c].name) EXCEPT !.owed = Rows]
  <2>1. call[c].name \in Name
    BY <1>0 DEF CallType
  <2>2. Begin("listing", call[c].name) \in CallType /\ Rows \in SUBSET (Name \X Nat)
    BY <1>0, <2>1, BeginType, RowsType DEF Pc
  <2>3. r \in CallType /\ r.pc = "listing" /\ r.floor = done[call[c].name] /\ r.name = call[c].name
    BY <2>2 DEF CallType, Begin
  <2>4. call' = [call EXCEPT ![c] = r] /\ UNCHANGED <<versions, done>>
    BY <1>7 DEF List
  <2>5. QED
    BY <1>0, <1>2, <2>1, <2>3, <2>4
<1>8. ASSUME NEW c \in Caller, Page(c) PROVE NumberInv'
  <2>1. PICK pc \in {"listing", "listed"}, skip \in Nat, owed \in SUBSET (Name \X Nat) :
          call' = [call EXCEPT ![c].pc = pc, ![c].skip = skip, ![c].owed = owed]
    <3>1. call[c].skip \in Nat /\ call[c].skip + PageSize \in Nat
      BY <1>0, PagePositive DEF CallType
    <3>2. \A S : call[c].owed \ S \in SUBSET (Name \X Nat)
      BY <1>0 DEF CallType
    <3>3. QED
      BY <1>8, <3>1, <3>2 DEF Page, NextPage
  <2> DEFINE r == [call[c] EXCEPT !.pc = pc, !.skip = skip, !.owed = owed]
  <2>2. call[c] \in CallType /\ Seen(c)
    BY <1>0 DEF NumberInv
  <2>3. r \in CallType /\ r.pc = pc /\ r.floor = call[c].floor /\ r.name = call[c].name
    BY <2>2 DEF CallType, Pc
  <2>4. call' = [call EXCEPT ![c] = r] /\ UNCHANGED <<versions, done>>
    BY <1>0, <1>8, <2>1 DEF Page
  <2>5. QED
    BY <1>2, <2>2, <2>3, <2>4 DEF Seen
<1>9. ASSUME NEW c \in Caller, Return(c) PROVE NumberInv'
  <2>1. call[c] \in CallType /\ call[c].name \in Name /\ Seen(c)
    BY <1>0 DEF CallType, NumberInv
  <2>2. Idle \in CallType /\ Idle.pc = "idle" /\ Idle.floor = 0 /\ Idle.name \in Name
    BY AttemptsPositive DEF Idle, CallType, Pc
  <2>3. done' \in [Name -> Nat] /\ \A n \in Name : done'[n] <= Count(n)
    <3>1. CASE call[c].pc = "deployed"
      <4> DEFINE high == Highest({done[call[c].name], call[c].version})
      <4>1. done[call[c].name] \in Nat /\ call[c].version \in Nat
        BY <1>0, <2>1 DEF CallType
      <4>2. high \in {done[call[c].name], call[c].version}
        BY <4>1, HighestOfTwo
      <4>3. high \in Nat /\ high <= Count(call[c].name)
        BY <1>0, <2>1, <3>1, <4>1, <4>2 DEF Seen
      <4>4. done' = [done EXCEPT ![call[c].name] = high]
        BY <1>9, <3>1 DEF Return
      <4>5. QED
        BY <1>0, <2>1, <4>3, <4>4
    <3>2. CASE call[c].pc # "deployed"
      BY <1>0, <1>9, <3>2 DEF Return
    <3>3. QED
      BY <3>1, <3>2
  <2>4. call' = [call EXCEPT ![c] = Idle] /\ versions' = versions
    BY <1>9 DEF Return
  <2>5. call'[c] = Idle /\ \A n : Count(n)' = Count(n)
    BY <1>0, <2>4 DEF Count
  <2>6. Seen(c)' /\ Beaten(c)'
    BY <1>0, <2>2, <2>5 DEF Seen, Beaten
  <2>7. QED
    BY <2>2, <2>3, <2>4, <2>6, OneCall
<1>10. ASSUME NEW c \in Caller, Create(c) PROVE NumberInv'
  <2>1. /\ call[c] \in CallType /\ Seen(c) /\ call[c].pc = "creating"
        /\ call[c].name \in Name /\ call[c].version + 1 \in Nat
    BY <1>0, <1>10 DEF CallType, NumberInv, Create
  <2> PICK n \in Name, v \in Nat : n = call[c].name /\ v = call[c].version + 1
    BY <2>1
  <2> DEFINE r == [call[c] EXCEPT !.pc = "deployed", !.version = v]
  <2>2. /\ call[c].version = Count(n) /\ Prefix'
        /\ \A m \in Name : Count(m)' = IF m = n THEN Count(m) + 1 ELSE Count(m)
    BY <1>0, <1>10, <2>1, CountGrows DEF Seen
  <2>3. r \in CallType /\ r.pc = "deployed" /\ r.name = n /\ r.version = v
        /\ r.floor = call[c].floor /\ v \in Nat
    BY <2>1 DEF CallType, Pc
  <2>4. /\ call' = [d \in Caller |->
                      IF d = c THEN r
                      ELSE IF call[d].pc \in {"reading", "creating"} /\ call[d].name = n
                        THEN [call[d] EXCEPT !.rivals = @ + 1] ELSE call[d]]
        /\ versions' = [versions EXCEPT ![n] = @ \cup {v}] /\ done' = done
    BY <1>10 DEF Create
  <2>5. call'[c] = r
    BY <2>4
  <2>6. ASSUME NEW d \in Caller, d # c
        PROVE  /\ call'[d] \in CallType
               /\ call'[d].pc = call[d].pc /\ call'[d].name = call[d].name
               /\ call'[d].version = call[d].version /\ call'[d].floor = call[d].floor
               /\ call'[d].attempt = call[d].attempt
               /\ call'[d].rivals = IF call[d].pc \in {"reading", "creating"} /\ call[d].name = n
                                    THEN call[d].rivals + 1 ELSE call[d].rivals
    <3>1. call[d] \in CallType
      BY <1>0
    <3>2. CASE call[d].pc \in {"reading", "creating"} /\ call[d].name = n
      <4>1. call'[d] = [call[d] EXCEPT !.rivals = call[d].rivals + 1]
        BY <2>4, <2>6, <3>2
      <4>2. QED
        BY <3>1, <3>2, <4>1 DEF CallType
    <3>3. CASE ~(call[d].pc \in {"reading", "creating"} /\ call[d].name = n)
      BY <2>4, <2>6, <3>1, <3>3
    <3>4. QED
      BY <3>2, <3>3
  <2>7. TypeOK'
    <3>1. call' \in [Caller -> CallType]
      BY <2>3, <2>4, <2>5, <2>6
    <3>2. versions' \in [Name -> SUBSET Nat]
      BY <1>0, <2>3, <2>4
    <3>3. QED
      BY <1>0, <2>4, <3>1, <3>2 DEF TypeOK, CallType, Pc
  <2>8. Returned'
    BY <1>0, <2>2, <2>4 DEF Returned
  <2>9. ASSUME NEW d \in Caller PROVE Seen(d)' /\ Beaten(d)'
    <3>1. CASE d = c
      <4>1. Count(n)' = Count(n) + 1 /\ Count(n) \in Nat
        BY <1>0, <2>1, <2>2
      <4>2. r.floor <= Count(n) /\ r.floor \in Nat
        BY <2>1, <2>3 DEF Seen, CallType
      <4>3. Seen(c)'
        BY <2>2, <2>3, <2>5, <4>1, <4>2 DEF Seen, Count
      <4>4. Beaten(c)'
        BY <2>3, <2>5 DEF Beaten
      <4>5. QED
        BY <3>1, <4>3, <4>4
    <3>2. CASE d # c
      <4>1. call[d] \in CallType /\ call[d].name \in Name /\ Seen(d) /\ Beaten(d)
        BY <1>0 DEF CallType, NumberInv
      <4> PICK m \in Name : m = call[d].name
        BY <4>1
      <4>2. /\ Count(m) \in Nat /\ Count(m) <= Count(m)'
            /\ Count(m)' = IF m = n THEN Count(m) + 1 ELSE Count(m)
        BY <1>0, <2>2, <4>1
      <4>3. call'[d].name = m
        BY <2>6, <3>2
      <4>4. Seen(d)'
        BY <2>6, <3>2, <4>1, <4>2, <4>3 DEF Seen, CallType
      <4>5. Beaten(d)'
        BY <2>6, <3>2, <4>1, <4>2, <4>3 DEF Beaten, CallType
      <4>6. QED
        BY <4>4, <4>5
    <3>3. QED
      BY <3>1, <3>2
  <2>10. ASSUME NEW d \in Caller, NEW e \in Caller PROVE Apart(d, e)'
    <3>1. ASSUME NEW f \in Caller, f # c, call[f].name = n, call[f].pc = "deployed"
          PROVE  call[f].version # v
      <4>1. call[f].version <= Count(n) /\ call[f] \in CallType
        BY <1>0, <3>1 DEF NumberInv, Seen
      <4>2. Count(n) \in Nat
        BY <1>0, <2>1
      <4>3. QED
        BY <2>2, <4>1, <4>2 DEF CallType
    <3>2. CASE d # c /\ e # c
      <4>1. Apart(d, e)
        BY DEF NumberInv
      <4>2. QED
        BY <2>6, <3>2, <4>1 DEF Apart
    <3>3. CASE d = c /\ e # c
      <4>1. call'[e].pc = "deployed" /\ call'[e].name = n => call'[e].version # v
        BY <2>6, <3>1, <3>3
      <4>2. QED
        BY <2>3, <2>5, <3>3, <4>1 DEF Apart
    <3>4. CASE d # c /\ e = c
      <4>1. call'[d].pc = "deployed" /\ call'[d].name = n => call'[d].version # v
        BY <2>6, <3>1, <3>4
      <4>2. QED
        BY <2>3, <2>5, <3>4, <4>1 DEF Apart
    <3>5. CASE d = c /\ e = c
      BY <3>5 DEF Apart
    <3>6. QED
      BY <3>2, <3>3, <3>4, <3>5
  <2>11. QED
    BY <2>2, <2>7, <2>8, <2>9, <2>10 DEF NumberInv
<1>11. QED
  <2>1. CASE Next
    <3>1. PICK c \in Caller :
            \/ \E n \in Name : Deploy(c, n) \/ StartByName(c, n)
            \/ ReadLatest(c) \/ Create(c) \/ Lose(c) \/ Start(c) \/ Return(c)
            \/ List(c) \/ Page(c)
      BY <2>1 DEF Next
    <3>2. CASE \E n \in Name : Deploy(c, n) \/ StartByName(c, n)
      BY <1>3, <3>2 DEF Deploy, StartByName
    <3>3. QED
      BY <1>4, <1>5, <1>6, <1>7, <1>8, <1>9, <1>10, <3>1, <3>2
  <2>2. QED
    BY <1>1, <2>1

\* Every variable stays in its set.
THEOREM DefinitionsTypeCorrect == ASSUME Name # {} PROVE Spec => []TypeOK
<1>1. NumberInv => TypeOK
  BY DEF NumberInv
<1>2. QED
  BY <1>1, NumberInit, NumberStep, PTL DEF Spec

\* Versions of a name are numbered from 1 without a gap and each is one
\* deploy's, however many race for it.
THEOREM Numbered == ASSUME Name # {} PROVE Spec => []NumberedWithoutGaps
<1>1. NumberInv => NumberedWithoutGaps
  BY DEF NumberInv, Prefix, Count, Apart, NumberedWithoutGaps
<1>2. QED
  BY <1>1, NumberInit, NumberStep, PTL DEF Spec

\* A deploy gives up only when as many rivals were faster as it has attempts.
THEOREM GivesUpBeaten == ASSUME Name # {} PROVE Spec => []GivesUpOnlyWhenBeaten
<1>1. NumberInv => GivesUpOnlyWhenBeaten
  BY AttemptsPositive DEF NumberInv, TypeOK, Beaten, GivesUpOnlyWhenBeaten
<1>2. QED
  BY <1>1, NumberInit, NumberStep, PTL DEF Spec

\* Deploys and starts follow real time.
THEOREM FollowTime == ASSUME Name # {} PROVE Spec => []VersionsFollowTime
<1>1. NumberInv => VersionsFollowTime
  BY DEF NumberInv, TypeOK, Seen, VersionsFollowTime
<1>2. QED
  BY <1>1, NumberInit, NumberStep, PTL DEF Spec

----------------------------------------------------------------------------
(***************************************************************************)
(* Listings.                                                               *)
(***************************************************************************)

\* What a listing still owes is stored, and behind the pages it has read.
Owes(c) ==
  LET r == call[c] IN
  /\ r.owed \subseteq Rows
  /\ \A d \in r.owed : r.skip <= Cardinality(Before(d))
  /\ r.pc = "listed" => r.owed = {}

ListInv == NumberInv /\ IsFiniteSet(Rows) /\ \A c \in Caller : Owes(c)

\* Rows before a row are fewer than all, and more of them as rows are added.
LEMMA RankBelow ==
  ASSUME IsFiniteSet(Rows), NEW d \in Rows, Rows \subseteq Name \X Nat
  PROVE  Cardinality(Before(d)) \in Nat /\ Cardinality(Rows) \in Nat
         /\ Cardinality(Before(d)) < Cardinality(Rows)
<1>1. Before(d) \subseteq Rows /\ d \notin Before(d)
  <2> PICK n \in Name, v \in Nat : d = <<n, v>>
    OBVIOUS
  <2>1. n \in Nat /\ d[1] = n /\ d[2] = v
    BY NamesSort
  <2>2. QED
    BY <2>1 DEF Before
<1>2. IsFiniteSet(Before(d)) /\ Cardinality(Before(d)) <= Cardinality(Rows)
      /\ (Cardinality(Rows) = Cardinality(Before(d)) => Rows = Before(d))
  BY <1>1, FS_Subset
<1>3. Cardinality(Before(d)) \in Nat /\ Cardinality(Rows) \in Nat
  BY <1>2, FS_CardinalityType
<1>4. QED
  BY <1>1, <1>2, <1>3

LEMMA RankGrows ==
  ASSUME IsFiniteSet(Rows)', Rows \subseteq Rows', NEW d
  PROVE  Cardinality(Before(d)) \in Nat /\ Cardinality(Before(d)') \in Nat
         /\ Cardinality(Before(d)) <= Cardinality(Before(d)')
<1>1. Before(d) \subseteq Before(d)' /\ Before(d)' \subseteq Rows'
  BY DEF Before
<1>2. IsFiniteSet(Before(d)')
  BY <1>1, FS_Subset
<1>3. QED
  BY <1>1, <1>2, FS_Subset, FS_CardinalityType

\* The rows of a create are those there were and one more.
LEMMA RowsGrow ==
  ASSUME TypeOK, IsFiniteSet(Rows), NEW c \in Caller, Create(c)
  PROVE  Rows \subseteq Rows' /\ IsFiniteSet(Rows)'
<1> PICK n, v : n = call[c].name /\ v = call[c].version + 1
  OBVIOUS
<1>1. n \in Name /\ versions' = [versions EXCEPT ![n] = @ \cup {v}]
  BY DEF Create, TypeOK
<1>2. versions'[n] = versions[n] \cup {v} /\ \A m \in Name : m # n => versions'[m] = versions[m]
  BY <1>1 DEF TypeOK
<1>3. Rows' = Rows \cup {<<n, v>>}
  BY <1>1, <1>2 DEF Rows
<1>4. QED
  BY <1>3, FS_AddElement

LEMMA ListStep == ASSUME Name # {}, ListInv, [Next]_vars PROVE ListInv'
<1>1. NumberInv' /\ TypeOK /\ Rows \subseteq Name \X Nat
  BY NumberStep, RowsType DEF ListInv, NumberInv
<1>2. call \in [Caller -> CallType] /\ \A c \in Caller : call[c] \in CallType
  BY <1>1 DEF TypeOK, CallType, Pc
<1>3. Rows \subseteq Rows' /\ IsFiniteSet(Rows)'
  <2>1. CASE \E c \in Caller : Create(c)
    BY <1>1, <2>1, RowsGrow DEF ListInv
  <2>2. CASE versions' = versions
    BY <2>2 DEF ListInv, Rows
  <2>3. QED
    BY <2>1, <2>2 DEF Next, vars, Deploy, StartByName, ReadLatest, Lose, Start, Return, List, Page
<1>4. ASSUME NEW c \in Caller, call'[c].owed = call[c].owed, call'[c].skip = call[c].skip,
             call'[c].pc = "listed" => call[c].pc = "listed"
      PROVE  Owes(c)'
  <2>1. Owes(c) /\ call[c].skip \in Nat
    BY <1>2 DEF ListInv, CallType
  <2>2. ASSUME NEW d \in call[c].owed PROVE call[c].skip <= Cardinality(Before(d)')
    BY <1>3, <2>1, <2>2, RankGrows DEF Owes
  <2>3. QED
    BY <1>3, <1>4, <2>1, <2>2 DEF Owes
<1>5. ASSUME NEW c \in Caller, call'[c].owed = {}, call'[c].skip = 0 PROVE Owes(c)'
  BY <1>5 DEF Owes
<1>6. ASSUME NEW c \in Caller, List(c) PROVE Owes(c)'
  <2>1. call'[c].owed = Rows /\ call'[c].skip = 0 /\ call'[c].pc = "listing" /\ versions' = versions
    BY <1>2, <1>6 DEF List, Begin
  <2>2. Rows' = Rows
    BY <2>1 DEF Rows
  <2>3. \A d \in Rows : Cardinality(Before(d)') \in Nat
    BY <1>3, RankGrows
  <2>4. QED
    BY <2>1, <2>2, <2>3 DEF Owes
<1>7. ASSUME NEW c \in Caller, Page(c) PROVE Owes(c)'
  <2> DEFINE skip  == call[c].skip
             shown == {d \in Rows : Cardinality(Before(d)) \in skip..(skip + PageSize - 1)}
             more  == Cardinality(Rows) > skip + PageSize
  <2>1. skip \in Nat /\ PageSize \in Nat /\ Owes(c)
    BY <1>2, PagePositive DEF CallType, ListInv
  <2>2. /\ call'[c].pc = IF more THEN "listing" ELSE "listed"
        /\ call'[c].skip = IF more THEN skip + PageSize ELSE skip
        /\ call'[c].owed = call[c].owed \ shown
        /\ versions' = versions
    BY <1>2, <1>7 DEF Page, NextPage, CallType
  <2>3. Rows' = Rows /\ \A d : Before(d)' = Before(d)
    BY <2>2 DEF Rows, Before
  <2>4. ASSUME NEW d \in call[c].owed
        PROVE  /\ Cardinality(Before(d)) \in Nat /\ Cardinality(Rows) \in Nat
               /\ Cardinality(Before(d)) < Cardinality(Rows) /\ skip <= Cardinality(Before(d))
               /\ d \in Rows
    BY <1>1, <2>1, <2>4, RankBelow DEF Owes, ListInv
  <2>5. CASE more
    <3>1. ASSUME NEW d \in call[c].owed \ shown PROVE skip + PageSize <= Cardinality(Before(d))
      BY <2>1, <2>4, <3>1
    <3>2. QED
      BY <2>1, <2>2, <2>3, <2>5, <3>1 DEF Owes
  <2>6. CASE ~more
    <3>1. ASSUME NEW d \in call[c].owed PROVE d \in shown
      BY <2>1, <2>4, <2>6, <3>1
    <3>2. call'[c].owed = {}
      BY <2>2, <3>1
    <3>3. QED
      BY <3>2 DEF Owes
  <2>7. QED
    BY <2>5, <2>6
<1>8. ASSUME NEW c \in Caller PROVE Owes(c)'
  <2>1. CASE UNCHANGED vars
    BY <1>4, <2>1 DEF vars
  <2>2. ASSUME NEW d \in Caller, Create(d) PROVE Owes(c)'
    <3>1. call'[c] = call[c] \/ call'[c] = [call[c] EXCEPT !.rivals = @ + 1]
          \/ call'[c] = [call[c] EXCEPT !.pc = "deployed", !.version = call[c].version + 1]
      BY <2>2 DEF Create
    <3>2. QED
      BY <1>2, <1>4, <3>1 DEF CallType
  <2>3. ASSUME NEW d \in Caller, NEW n \in Name, Deploy(d, n) \/ StartByName(d, n) PROVE Owes(c)'
    <3>1. call' = [call EXCEPT ![d] = Begin("reading", n)] \/ call' = [call EXCEPT ![d] = Begin("finding", n)]
      BY <2>3 DEF Deploy, StartByName
    <3>2. QED
      BY <1>2, <1>4, <1>5, <3>1 DEF Begin
  <2>4. ASSUME NEW d \in Caller, ReadLatest(d) \/ Start(d) PROVE Owes(c)'
    <3>1. ASSUME NEW pc, NEW v, pc # "listed",
                 call' = [call EXCEPT ![d].pc = pc, ![d].version = v]
          PROVE  Owes(c)'
      <4>1. call'[c] = call[c] \/ call'[c] = [call[c] EXCEPT !.pc = pc, !.version = v]
        BY <1>2, <3>1
      <4>2. QED
        BY <1>2, <1>4, <3>1, <4>1 DEF CallType
    <3>2. CASE ReadLatest(d)
      BY <3>1, <3>2 DEF ReadLatest
    <3>3. CASE Start(d)
      <4>1. PICK v : call' = [call EXCEPT ![d].pc = IF v = 0 THEN "notFound" ELSE "started",
                                          ![d].version = v]
        BY <3>3 DEF Start
      <4>2. (IF v = 0 THEN "notFound" ELSE "started") # "listed"
        OBVIOUS
      <4>3. QED
        BY <3>1, <4>1, <4>2
    <3>4. QED
      BY <2>4, <3>2, <3>3
  <2>5. ASSUME NEW d \in Caller, Lose(d) PROVE Owes(c)'
    <3>1. call'[c].owed = call[c].owed /\ call'[c].skip = call[c].skip
          /\ (call'[c].pc = "listed" => call[c].pc = "listed")
      BY <1>2, <2>5 DEF Lose, TryAgain, CallType
    <3>2. QED
      BY <1>4, <3>1
  <2>6. ASSUME NEW d \in Caller, Return(d) PROVE Owes(c)'
    BY <1>2, <1>4, <1>5, <2>6 DEF Return, Idle
  <2>7. ASSUME NEW d \in Caller, List(d) \/ Page(d) PROVE Owes(c)'
    <3>1. CASE d = c
      BY <1>6, <1>7, <2>7, <3>1
    <3>2. CASE d # c
      <4>1. call'[c] = call[c]
        BY <1>2, <2>7, <3>2 DEF List, Page
      <4>2. QED
        BY <1>4, <4>1
    <3>3. QED
      BY <3>1, <3>2
  <2>8. QED
    BY <2>1, <2>2, <2>3, <2>4, <2>5, <2>6, <2>7 DEF Next
<1>9. QED
  BY <1>1, <1>3, <1>8 DEF ListInv

\* A listing followed to its last page shows every definition that was there
\* when it began, for any size of the pages.
THEOREM ListingComplete == ASSUME Name # {} PROVE Spec => []ListMissesNothing
<1>1. Init => ListInv
  <2> SUFFICES ASSUME Init PROVE ListInv
    OBVIOUS
  <2>1. Rows = {}
    BY DEF Init, Rows
  <2>2. \A c \in Caller : call[c].owed = {}
    BY DEF Init, Idle
  <2>3. QED
    BY <2>1, <2>2, NumberInit, FS_EmptySet DEF ListInv, Owes
<1>2. ListInv => ListMissesNothing
  BY DEF ListInv, Owes, ListMissesNothing
<1>3. QED
  BY <1>1, <1>2, ListStep, PTL DEF Spec
=============================================================================
