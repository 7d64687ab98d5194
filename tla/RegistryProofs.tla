--------------------------- MODULE RegistryProofs ---------------------------
(***************************************************************************)
(* Proofs about Registry, for any number of services, processes, calls and *)
(* registrations: every registered service has its descriptor set, no set  *)
(* is left behind, and "not registered" is only said when it was true.     *)
(***************************************************************************)
EXTENDS Registry, TLAPS

----------------------------------------------------------------------------
(***************************************************************************)
(* A step of one call.                                                     *)
(***************************************************************************)

Now(c, r, d) == IF d = c THEN r ELSE call[d]
SeesMissing(r, t) == r.pc \in Resolving /\ \E s \in r.names : t[s] = NoSet

\* When a call goes on, nothing of the others changes but what they have seen.
LEMMA GoesOnly ==
  ASSUME call \in [Caller -> Call], NEW c \in Caller, NEW r \in Call, NEW t, Goes(c, r, t),
         NEW d \in Caller
  PROVE  /\ call'[d] = [Now(c, r, d) EXCEPT !.missing = Now(c, r, d).missing \/ SeesMissing(Now(c, r, d), t)]
         /\ call'[d] \in Call
<1>1. Now(c, r, d) \in Call
  BY DEF Now
<1>2. call'[d] = [Now(c, r, d) EXCEPT !.missing = Now(c, r, d).missing \/ SeesMissing(Now(c, r, d), t)]
  BY DEF Goes, Now, SeesMissing
<1>3. (Now(c, r, d).missing \/ SeesMissing(Now(c, r, d), t)) \in BOOLEAN
  BY DEF SeesMissing
<1>4. QED
  BY <1>1, <1>2, <1>3 DEF Call

LEMMA GoesKeeps ==
  ASSUME call \in [Caller -> Call], NEW c \in Caller, NEW r \in Call, NEW t, Goes(c, r, t),
         NEW d \in Caller
  PROVE  /\ call'[d].pc = Now(c, r, d).pc /\ call'[d].names = Now(c, r, d).names
         /\ call'[d].snap = Now(c, r, d).snap
<1>1. Now(c, r, d) \in Call
  BY DEF Now
<1> DEFINE seen == Now(c, r, d).missing \/ SeesMissing(Now(c, r, d), t)
<1>2. call'[d] = [Now(c, r, d) EXCEPT !.missing = seen]
  BY DEF Goes, Now, SeesMissing
<1>3. seen = TRUE \/ seen = FALSE
  OBVIOUS
<1> HIDE DEF seen
<1>4. QED
  BY <1>1, <1>2, <1>3 DEF Call

\* What it has seen missing stays seen.
LEMMA GoesSeen ==
  ASSUME call \in [Caller -> Call], NEW c \in Caller, NEW r \in Call, NEW t, Goes(c, r, t),
         NEW d \in Caller, Now(c, r, d).missing \/ SeesMissing(Now(c, r, d), t)
  PROVE  call'[d].missing
<1>1. Now(c, r, d) \in Call
  BY DEF Now
<1>2. (Now(c, r, d).missing \/ SeesMissing(Now(c, r, d), t)) = TRUE
  OBVIOUS
<1>3. call'[d] = [Now(c, r, d) EXCEPT !.missing = TRUE]
  BY <1>2, GoesOnly, Zenon
<1>4. QED
  BY <1>1, <1>3 DEF Call

LEMMA GoesType ==
  ASSUME call \in [Caller -> Call], NEW c \in Caller, NEW r \in Call, NEW t, Goes(c, r, t)
  PROVE  call' \in [Caller -> Call]
<1>1. \A d \in Caller : call'[d] \in Call
  BY GoesOnly
<1>2. call' = [d \in Caller |-> call'[d]]
  BY DEF Goes
<1>3. QED
  BY <1>1, <1>2

----------------------------------------------------------------------------
(***************************************************************************)
(* The invariant.                                                          *)
(***************************************************************************)

Typed ==
  /\ table \in Table /\ sets \subseteq SetId /\ nextSet \in 1..(MaxSets + 1)
  /\ rows \in [Process -> Table \cup {NoRows}] /\ expired \in [Process -> BOOLEAN]
  /\ parsed \in [Process -> SUBSET SetId] /\ call \in [Caller -> Call]

\* A call that resolves names a service; what it read without a row, it has
\* seen missing; and so has one that says so.
Resolved(c) ==
  /\ call[c].pc \in Resolving \cup {"notRegistered"} => call[c].names # {}
  /\ call[c].pc = "read" /\ (\E s \in call[c].names : call[c].snap[s] = NoSet) => call[c].missing
  /\ call[c].pc = "notRegistered" => call[c].missing

RegistryInv == TypeOK /\ SetsFollowServices /\ \A c \in Caller : Resolved(c)

Dropping(c) == call[c].pc \in {"added", "removed"}

\* What calls have seen missing stays true when one goes on.
LEMMA ResolvedKept ==
  ASSUME RegistryInv, NEW c \in Caller, NEW r \in Call, NEW t, Goes(c, r, t),
         r.pc \in Resolving \cup {"notRegistered"} => r.names # {},
         r.pc = "read" => r.snap = t,
         r.pc = "notRegistered" => r.missing,
         NEW d \in Caller
  PROVE  Resolved(d)'
<1>1. call \in [Caller -> Call]
  BY DEF RegistryInv, TypeOK
<1>2. /\ call'[d].pc = Now(c, r, d).pc /\ call'[d].names = Now(c, r, d).names
      /\ call'[d].snap = Now(c, r, d).snap
  BY <1>1, GoesKeeps
<1>3. Now(c, r, d).missing \/ SeesMissing(Now(c, r, d), t) => call'[d].missing
  BY <1>1, GoesSeen
<1>4. CASE d = c
  BY <1>2, <1>3, <1>4 DEF Resolved, Now, SeesMissing, Resolving
<1>5. CASE d # c
  BY <1>2, <1>3, <1>5 DEF RegistryInv, Resolved, Now
<1>6. QED
  BY <1>4, <1>5

\* Nobody else's drop is forgotten when a call goes on.
LEMMA DropsKept ==
  ASSUME RegistryInv, NEW c \in Caller, NEW r \in Call, NEW t, Goes(c, r, t),
         NEW d \in Caller, Dropping(d), d # c \/ r.pc \in {"added", "removed"}
  PROVE  Dropping(d)'
<1>1. call \in [Caller -> Call]
  BY DEF RegistryInv, TypeOK
<1>2. call'[d].pc = Now(c, r, d).pc
  BY <1>1, GoesKeeps
<1>3. QED
  BY <1>2 DEF Dropping, Now

\* A call that goes on as r and leaves the tables alone keeps the invariant,
\* unless it leaves a drop undone.
LEMMA OneCall ==
  ASSUME RegistryInv, NEW c \in Caller, NEW r \in Call, Goes(c, r, table), UNCHANGED tableVars,
         ~Dropping(c),
         r.pc \in Resolving \cup {"notRegistered"} => r.names # {},
         r.pc = "read" => r.snap = table,
         r.pc = "notRegistered" => r.missing,
         rows' \in [Process -> Table \cup {NoRows}], expired' \in [Process -> BOOLEAN],
         parsed' \in [Process -> SUBSET SetId]
  PROVE  RegistryInv'
<1>1. call \in [Caller -> Call]
  BY DEF RegistryInv, TypeOK
<1>2. TypeOK'
  BY <1>1, GoesType DEF RegistryInv, TypeOK, tableVars
<1>3. SetsFollowServices'
  <2>1. Referenced' = Referenced /\ sets' = sets
    BY DEF Referenced, tableVars
  <2>2. ASSUME NEW d \in Caller, Dropping(d) PROVE Dropping(d)'
    BY <2>2, DropsKept
  <2>3. QED
    BY <2>1, <2>2 DEF RegistryInv, SetsFollowServices, Dropping
<1>4. \A d \in Caller : Resolved(d)'
  BY ResolvedKept
<1>5. QED
  BY <1>2, <1>3, <1>4 DEF RegistryInv

\* A call that changes the tables keeps it when the sets follow the services.
LEMMA TablesChange ==
  ASSUME RegistryInv, NEW c \in Caller, NEW r \in Call, Goes(c, r, table'),
         table' \in Table, sets' \subseteq SetId, nextSet' \in 1..(MaxSets + 1), UNCHANGED cacheVars,
         r.pc \notin Resolving \cup {"notRegistered"},
         SetsFollowServices'
  PROVE  RegistryInv'
<1>1. call \in [Caller -> Call]
  BY DEF RegistryInv, TypeOK
<1>2. call' \in [Caller -> Call]
  BY <1>1, GoesType
<1>3. TypeOK'
  BY <1>2 DEF RegistryInv, TypeOK, cacheVars
<1>4. r.pc # "read" /\ r.pc # "notRegistered"
  BY DEF Resolving
<1>5. \A d \in Caller : Resolved(d)'
  BY <1>4, ResolvedKept
<1>6. QED
  BY <1>3, <1>5 DEF RegistryInv

----------------------------------------------------------------------------
(***************************************************************************)
(* The steps.                                                              *)
(***************************************************************************)

\* What a call begins with.
LEMMA BeginType ==
  ASSUME NEW step \in Steps, NEW p \in Process, NEW names \in SUBSET Service
  PROVE  Begin(step, p, names) \in Call
  BY SetsBound DEF Begin, Call, NoSet, Table, Empty

LEMMA IdleType == ASSUME Process # {} PROVE Idle \in Call /\ Idle.pc = "idle"
  BY BeginType DEF Idle, Begin, Steps

LEMMA RegistryInit == ASSUME Process # {} PROVE Init => RegistryInv
<1> SUFFICES ASSUME Init PROVE RegistryInv
  OBVIOUS
<1>1. Empty \in Table /\ 1 \in 1..(MaxSets + 1)
  BY SetsBound DEF Empty, Table
<1>2. TypeOK
  BY <1>1, IdleType DEF Init, TypeOK
<1>3. Referenced = {}
  BY DEF Init, Referenced, Empty
<1>4. \A c \in Caller : call[c].pc = "idle"
  BY IdleType DEF Init
<1>5. QED
  BY <1>2, <1>3, <1>4 DEF Init, RegistryInv, SetsFollowServices, Resolved, Resolving

LEMMA AddStep ==
  ASSUME RegistryInv, NEW c \in Caller, NEW p \in Server, NEW chosen \in SUBSET Service,
         Add(c, p, chosen)
  PROVE  RegistryInv'
<1> DEFINE r == [Begin("added", p, chosen) EXCEPT !.target = nextSet]
<1>1. nextSet \in SetId /\ nextSet + 1 \in 1..(MaxSets + 1) /\ table \in Table /\ sets \subseteq SetId
  BY SetsBound DEF Add, RegistryInv, TypeOK, SetId
<1>2. r \in Call /\ r.pc = "added"
  <2>1. Begin("added", p, chosen) \in Call /\ Begin("added", p, chosen).pc = "added"
    BY BeginType, ServersAreProcesses DEF Begin, Steps
  <2>2. QED
    BY <1>1, <2>1 DEF Call
<1>3. /\ table' = [s \in Service |-> IF s \in chosen THEN nextSet ELSE table[s]]
      /\ sets' = sets \cup {nextSet} /\ nextSet' = nextSet + 1 /\ UNCHANGED cacheVars
      /\ Goes(c, r, table')
  BY DEF Add
<1>4. table' \in Table
  BY <1>1, <1>3 DEF Table
<1>5. call[c] \in Call /\ call' \in [Caller -> Call] /\ call'[c].pc = "added"
  BY <1>2, <1>3, GoesType, GoesKeeps DEF RegistryInv, TypeOK, Now
<1>6. Referenced' \subseteq Referenced \cup {nextSet}
  BY <1>3 DEF Referenced
<1>7. SetsFollowServices'
  BY <1>3, <1>5, <1>6 DEF RegistryInv, SetsFollowServices
<1> HIDE DEF r
<1>8. QED
  BY <1>1, <1>2, <1>3, <1>4, <1>7, TablesChange DEF Resolving

LEMMA RemoveStep ==
  ASSUME RegistryInv, NEW c \in Caller, NEW p \in Server, NEW s \in Service, Remove(c, p, s)
  PROVE  RegistryInv'
<1> DEFINE r == Begin("removed", p, {s})
<1>1. r \in Call /\ r.pc = "removed"
  BY BeginType, ServersAreProcesses DEF Begin, Steps
<1>2. /\ table' = [table EXCEPT ![s] = NoSet] /\ sets' = sets /\ nextSet' = nextSet
      /\ UNCHANGED cacheVars /\ Goes(c, r, table')
  BY DEF Remove
<1>3. table' \in Table /\ Referenced' \subseteq Referenced
  BY <1>2 DEF RegistryInv, TypeOK, Table, Referenced
<1>4. call'[c].pc = "removed"
  BY <1>1, <1>2, GoesKeeps DEF RegistryInv, TypeOK, Now
<1>5. SetsFollowServices'
  BY <1>2, <1>3, <1>4 DEF RegistryInv, SetsFollowServices
<1> HIDE DEF r
<1>6. QED
  BY <1>1, <1>2, <1>3, <1>5, TablesChange DEF Resolving, RegistryInv, TypeOK

LEMMA DropStep == ASSUME RegistryInv, NEW c \in Caller, Drop(c) PROVE RegistryInv'
<1> DEFINE pc == IF call[c].pc = "added" THEN "addDropped" ELSE "removeDropped"
           r  == [call[c] EXCEPT !.pc = pc]
<1>1. call[c] \in Call
  BY DEF RegistryInv, TypeOK
<1>2. r \in Call /\ r.pc \in {"addDropped", "removeDropped"}
  BY <1>1 DEF Call, Steps
<1>3. table' = table /\ sets' = sets \cap Referenced /\ nextSet' = nextSet /\ UNCHANGED cacheVars
      /\ Goes(c, r, table')
  BY DEF Drop, WithoutOrphans
<1>4. SetsFollowServices'
  BY <1>3 DEF RegistryInv, SetsFollowServices, Referenced
<1> HIDE DEF r
<1>5. QED
  BY <1>2, <1>3, <1>4, TablesChange DEF Resolving, RegistryInv, TypeOK

\* resolve looks its service up in the rows it has: it says "not registered"
\* only when it looks the second time.
LEMMA LookUpStep ==
  ASSUME RegistryInv, NEW c \in Caller, NEW r \in Call, NEW t \in Table, LookUp(c, r, t),
         UNCHANGED tableVars, ~Dropping(c), r.names # {},
         r.again /\ (\E s \in r.names : t[s] = NoSet) => r.missing,
         expired' \in [Process -> BOOLEAN], parsed' = parsed
  PROVE  RegistryInv'
<1> DEFINE id == t[CHOOSE s \in r.names : TRUE]
<1>1. (CHOOSE s \in r.names : TRUE) \in r.names /\ r.names \subseteq Service
  BY DEF Call
<1>2. id \in SetId \cup {NoSet} /\ (id = NoSet => \E s \in r.names : t[s] = NoSet)
  BY <1>1 DEF Table
<1>3. Empty \in Table
  BY DEF Empty, Table
<1>4. r.proc \in Process /\ rows \in [Process -> Table \cup {NoRows}]
  BY DEF Call, RegistryInv, TypeOK
<1>5. parsed' \in [Process -> SUBSET SetId]
  BY DEF RegistryInv, TypeOK
<1>6. CASE id # NoSet /\ rows' = [rows EXCEPT ![r.proc] = t]
           /\ Goes(c, [r EXCEPT !.pc = "found", !.target = id, !.snap = Empty], table)
  <2> DEFINE q == [r EXCEPT !.pc = "found", !.target = id, !.snap = Empty]
  <2>1. q \in Call /\ q.pc = "found" /\ q.names = r.names
    BY <1>2, <1>3 DEF Call, Steps
  <2> HIDE DEF q
  <2>2. Goes(c, q, table) /\ rows' \in [Process -> Table \cup {NoRows}]
    BY <1>4, <1>6 DEF q
  <2>3. QED
    BY <1>5, <2>1, <2>2, OneCall
<1>7. CASE id = NoSet /\ LookAgain(r) /\ rows' = [rows EXCEPT ![r.proc] = NoRows]
           /\ Goes(c, [r EXCEPT !.pc = "reading", !.again = TRUE, !.snap = Empty], table)
  <2> DEFINE q == [r EXCEPT !.pc = "reading", !.again = TRUE, !.snap = Empty]
  <2>1. q \in Call /\ q.pc = "reading" /\ q.names = r.names
    BY <1>3 DEF Call, Steps
  <2> HIDE DEF q
  <2>2. Goes(c, q, table) /\ rows' \in [Process -> Table \cup {NoRows}]
    BY <1>4, <1>7 DEF q
  <2>3. QED
    BY <1>5, <2>1, <2>2, OneCall
<1>8. CASE id = NoSet /\ ~LookAgain(r) /\ rows' = [rows EXCEPT ![r.proc] = t]
           /\ Goes(c, [r EXCEPT !.pc = "notRegistered", !.snap = Empty], table)
  <2> DEFINE q == [r EXCEPT !.pc = "notRegistered", !.snap = Empty]
  <2>1. q \in Call /\ q.pc = "notRegistered" /\ q.names = r.names /\ q.missing = r.missing
    BY <1>3 DEF Call, Steps
  <2>2. r.missing
    BY <1>2, <1>8 DEF LookAgain
  <2> HIDE DEF q
  <2>3. q.missing
    BY <2>1, <2>2
  <2>4. Goes(c, q, table) /\ rows' \in [Process -> Table \cup {NoRows}]
    BY <1>4, <1>8 DEF q
  <2>5. QED
    BY <1>5, <2>1, <2>3, <2>4, OneCall
<1>9. QED
  BY <1>6, <1>7, <1>8 DEF LookUp

LEMMA ResolveStep ==
  ASSUME RegistryInv, Process # {}, NEW c \in Caller, NEW p \in Process, NEW s \in Service,
         Resolve(c, p, s)
  PROVE  RegistryInv'
<1> DEFINE r == Begin("reading", p, {s})
<1>1. r \in Call /\ r.pc = "reading" /\ r.names = {s} /\ r.again = FALSE
  BY BeginType DEF Begin, Steps
<1>2. UNCHANGED tableVars /\ expired' = expired /\ parsed' = parsed /\ ~Dropping(c)
  BY IdleType DEF Resolve, Dropping
<1>3. expired \in [Process -> BOOLEAN] /\ rows \in [Process -> Table \cup {NoRows}]
      /\ parsed \in [Process -> SUBSET SetId]
  BY DEF RegistryInv, TypeOK
<1> HIDE DEF r
<1>4. CASE Trusted(p) /\ LookUp(c, r, rows[p])
  <2>1. rows[p] \in Table
    BY <1>3, <1>4 DEF Trusted
  <2>2. QED
    BY <1>1, <1>2, <1>3, <1>4, <2>1, LookUpStep
<1>5. CASE Goes(c, r, table) /\ UNCHANGED rows
  BY <1>1, <1>2, <1>3, <1>5, OneCall
<1>6. QED
  BY <1>4, <1>5 DEF Resolve, r

LEMMA StoreStep == ASSUME RegistryInv, NEW c \in Caller, StoreRows(c) PROVE RegistryInv'
<1>1. call[c] \in Call /\ call[c].pc = "read" /\ LookUp(c, call[c], call[c].snap) /\ Resolved(c)
  BY DEF StoreRows, RegistryInv, TypeOK
<1>2. call[c].snap \in Table /\ call[c].proc \in Process /\ call[c].names # {}
  BY <1>1 DEF Call, Resolved, Resolving
<1>3. (\E s \in call[c].names : call[c].snap[s] = NoSet) => call[c].missing
  BY <1>1 DEF Resolved
<1>4. expired' \in [Process -> BOOLEAN] /\ UNCHANGED tableVars /\ parsed' = parsed /\ ~Dropping(c)
  BY <1>1, <1>2 DEF StoreRows, RegistryInv, TypeOK, Dropping
<1>5. QED
  BY <1>1, <1>2, <1>3, <1>4, LookUpStep

\* The other steps of a call: it goes on without a word about its service.
LEMMA OtherStep ==
  ASSUME RegistryInv, Process # {}, NEW c \in Caller,
         Invalidate(c) \/ ListRows(c) \/ ListSet(c) \/ AddReturns(c) \/ ReadRows(c) \/ UseSet(c)
         \/ Answered(c)
  PROVE  RegistryInv'
<1>1. call[c] \in Call /\ Resolved(c) /\ table \in Table
  BY DEF RegistryInv, TypeOK
<1>2. rows \in [Process -> Table \cup {NoRows}] /\ expired \in [Process -> BOOLEAN]
      /\ parsed \in [Process -> SUBSET SetId] /\ sets \subseteq SetId /\ call[c].proc \in Process
  BY <1>1 DEF RegistryInv, TypeOK, Call
<1>3. ASSUME NEW r \in Call, Goes(c, r, table), UNCHANGED <<tableVars, expired>>, ~Dropping(c),
             r.pc \notin Resolving \cup {"notRegistered"},
             rows' \in [Process -> Table \cup {NoRows}], parsed' \in [Process -> SUBSET SetId]
      PROVE  RegistryInv'
  <2>1. r.pc # "read" /\ r.pc # "notRegistered"
    BY <1>3 DEF Resolving
  <2>2. QED
    BY <1>2, <1>3, <2>1, OneCall
<1>4. Idle \in Call /\ Idle.pc \notin Resolving \cup {"notRegistered"}
  BY IdleType DEF Resolving
<1>5. CASE Invalidate(c)
  <2> DEFINE r == IF call[c].pc = "addDropped" THEN [call[c] EXCEPT !.pc = "listing"] ELSE Idle
  <2>1. r \in Call /\ r.pc \notin Resolving \cup {"notRegistered"}
    BY <1>1, <1>4 DEF Call, Steps, Resolving
  <2>2. Goes(c, r, table) /\ UNCHANGED <<tableVars, expired>> /\ parsed' = parsed /\ ~Dropping(c)
        /\ rows' \in [Process -> Table \cup {NoRows}]
    BY <1>2, <1>5 DEF Invalidate, Dropping
  <2> HIDE DEF r
  <2>3. QED
    BY <1>2, <1>3, <2>1, <2>2
<1>6. CASE ListRows(c)
  <2> DEFINE r == [call[c] EXCEPT !.pc = "parsing", !.todo = Referenced \ parsed[call[c].proc]]
  <2>1. Referenced \subseteq SetId
    BY <1>1 DEF Referenced, Table
  <2>2. r \in Call /\ r.pc = "parsing"
    BY <1>1, <2>1 DEF Call, Steps
  <2>3. Goes(c, r, table) /\ UNCHANGED <<tableVars, cacheVars>> /\ ~Dropping(c)
    BY <1>6 DEF ListRows, Dropping
  <2> HIDE DEF r
  <2>4. QED
    BY <1>2, <1>3, <2>2, <2>3 DEF cacheVars, Resolving
<1>7. CASE ListSet(c)
  <2>1. PICK id \in call[c].todo :
          IF id \in sets
            THEN /\ parsed' = [parsed EXCEPT ![call[c].proc] = @ \cup {id}]
                 /\ Goes(c, [call[c] EXCEPT !.todo = @ \ {id}], table)
            ELSE parsed' = parsed /\ Goes(c, Idle, table)
    BY <1>7 DEF ListSet
  <2>2. UNCHANGED <<tableVars, expired>> /\ rows' = rows /\ call[c].pc = "parsing" /\ ~Dropping(c)
    BY <1>7 DEF ListSet, Dropping
  <2>3. CASE id \in sets
    <3> DEFINE r == [call[c] EXCEPT !.todo = call[c].todo \ {id}]
    <3>1. r \in Call /\ r.pc = "parsing"
      BY <1>1, <2>2 DEF Call
    <3>2. Goes(c, r, table) /\ parsed' \in [Process -> SUBSET SetId]
      BY <1>2, <2>1, <2>3
    <3> HIDE DEF r
    <3>3. QED
      BY <1>2, <1>3, <2>2, <3>1, <3>2 DEF Resolving
  <2>4. CASE id \notin sets
    BY <1>2, <1>3, <1>4, <2>1, <2>2, <2>4
  <2>5. QED
    BY <2>3, <2>4
<1>8. CASE AddReturns(c) \/ Answered(c)
  <2>1. Goes(c, Idle, table) /\ UNCHANGED <<tableVars, cacheVars>> /\ ~Dropping(c)
    BY <1>8 DEF AddReturns, Answered, Dropping
  <2>2. QED
    BY <1>2, <1>3, <1>4, <2>1 DEF cacheVars
<1>9. CASE ReadRows(c)
  <2> DEFINE r == [call[c] EXCEPT !.pc = "read", !.snap = table]
  <2>1. r \in Call /\ r.pc = "read" /\ r.snap = table /\ r.names = call[c].names
    BY <1>1 DEF Call, Steps
  <2>2. Goes(c, r, table) /\ UNCHANGED <<tableVars, cacheVars>> /\ ~Dropping(c)
        /\ call[c].names # {}
    BY <1>1, <1>9 DEF ReadRows, Dropping, Resolved, Resolving
  <2> HIDE DEF r
  <2>3. QED
    BY <1>2, <2>1, <2>2, OneCall DEF cacheVars
<1>10. CASE UseSet(c)
  <2> DEFINE id == call[c].target
             p  == call[c].proc
  <2>1. UNCHANGED <<tableVars, expired>> /\ rows' = rows /\ call[c].pc = "found" /\ ~Dropping(c)
    BY <1>10 DEF UseSet, Dropping
  <2>2. PICK pc \in {"resolved", "noRecord"} :
          Goes(c, [call[c] EXCEPT !.pc = pc], table)
    BY <1>10 DEF UseSet
  <2>3. parsed' \in [Process -> SUBSET SetId]
    BY <1>2, <1>10 DEF UseSet
  <2> DEFINE r == [call[c] EXCEPT !.pc = pc]
  <2>4. r \in Call /\ r.pc \notin Resolving \cup {"notRegistered"}
    BY <1>1 DEF Call, Steps, Resolving
  <2> HIDE DEF r
  <2>5. QED
    BY <1>2, <1>3, <2>1, <2>2, <2>3, <2>4 DEF r
<1>11. QED
  BY <1>5, <1>6, <1>7, <1>8, <1>9, <1>10

LEMMA RegistryStep == ASSUME Process # {}, RegistryInv, [Next]_vars PROVE RegistryInv'
<1>1. CASE UNCHANGED vars
  BY <1>1 DEF vars, tableVars, cacheVars, RegistryInv, TypeOK, SetsFollowServices, Referenced, Resolved
<1>2. ASSUME NEW p \in Process, Expire(p) PROVE RegistryInv'
  <2>1. UNCHANGED <<tableVars, rows, parsed, call>> /\ expired' \in [Process -> BOOLEAN]
    BY <1>2 DEF Expire, RegistryInv, TypeOK
  <2>2. QED
    BY <2>1 DEF tableVars, RegistryInv, TypeOK, SetsFollowServices, Referenced, Resolved
<1>3. ASSUME NEW c \in Caller, Registers(c) \/ Removes(c) \/ Resolves(c) \/ GoesOn(c)
      PROVE  RegistryInv'
  BY <1>3, AddStep, RemoveStep, ResolveStep, DropStep, StoreStep, OtherStep
     DEF Registers, Removes, Resolves, GoesOn
<1>4. QED
  BY <1>1, <1>2, <1>3 DEF Next

----------------------------------------------------------------------------
(***************************************************************************)
(* The theorems.                                                           *)
(***************************************************************************)

\* Every variable stays in its set.
THEOREM RegistryTypeCorrect == ASSUME Process # {} PROVE Spec => []TypeOK
<1>1. RegistryInv => TypeOK
  BY DEF RegistryInv
<1>2. QED
  BY <1>1, RegistryInit, RegistryStep, PTL DEF Spec

\* Every registered service has its descriptor set, and none is left behind,
\* however adds and removes of any processes interleave.
THEOREM SetsFollow == ASSUME Process # {} PROVE Spec => []SetsFollowServices
<1>1. RegistryInv => SetsFollowServices
  BY DEF RegistryInv
<1>2. QED
  BY <1>1, RegistryInit, RegistryStep, PTL DEF Spec

\* "Not registered" is only said of a service that had no row meanwhile.
THEOREM NotRegisteredTrue == ASSUME Process # {} PROVE Spec => []NotRegisteredIsTrue
<1>1. RegistryInv => NotRegisteredIsTrue
  BY DEF RegistryInv, Resolved, NotRegisteredIsTrue
<1>2. QED
  BY <1>1, RegistryInit, RegistryStep, PTL DEF Spec
=============================================================================
