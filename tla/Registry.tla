------------------------------ MODULE Registry ------------------------------
(***************************************************************************)
(* The service registry.  The services table and the descriptor sets are   *)
(* shared; every process keeps its own copy of the table for ROWS_TTL_MS   *)
(* and the sets it has parsed.  Calls of one process interleave at their   *)
(* awaits: one step is what runs between two awaits, or one statement of   *)
(* the database.                                                           *)
(*                                                                         *)
(* A registration is named by its descriptor set, which every add makes    *)
(* anew; the URL and the protocol are stored with it.  Time is abstract:   *)
(* a copy of the table is trusted until a step Expire says its five        *)
(* seconds are over.                                                       *)
(***************************************************************************)
EXTENDS Naturals

CONSTANTS Service,    \* package.Service names
          Process,    \* server and worker processes, one ServiceRegistry each
          Server,     \* those that take registrations: a worker only resolves
          Caller,     \* calls that may be in flight together
          NoRows,     \* #rows === undefined
          MaxSets     \* bound: registrations ever made

ASSUME ServersAreProcesses == Server \subseteq Process
ASSUME SetsBound == MaxSets \in Nat

VARIABLES
  table,     \* services: the set each points at, NoSet without a row
  sets,      \* the ids in descriptor_sets
  nextSet,   \* the id the next add gets
  rows,      \* #rows of each process: its copy of the table, or NoRows
  expired,   \* #rows.at is more than ROWS_TTL_MS ago
  parsed,    \* #sets of each process
  call       \* each call in flight, or Idle

tableVars == <<table, sets, nextSet>>
cacheVars == <<rows, expired, parsed>>
vars      == <<tableVars, cacheVars, call>>

----------------------------------------------------------------------------
SetId      == 1..MaxSets
NoSet      == 0
Table      == [Service -> SetId \cup {NoSet}]
Empty      == [s \in Service |-> NoSet]

\* Mutant: the missing row counts.
AllTargets == {table[s] : s \in Service}

\* The sets some service points at.
Referenced == {table[s] : s \in Service} \ {NoSet}

Resolving == {"reading", "read", "found"}

\* A call: where it stands, in which process and for which services; the set
\* it made or is after, the table it read, whether this is resolve's second
\* look, the sets its list() still waits for.  missing is a ghost: whether the
\* service resolve names was without a row at any moment of the call.
Steps == {"idle", "added", "removed", "addDropped", "removeDropped", "listing", "parsing",
          "reading", "read", "found", "resolved", "notRegistered", "noRecord"}
Call  == [pc : Steps, proc : Process, names : SUBSET Service, target : SetId \cup {NoSet},
          snap : Table, again : BOOLEAN, todo : SUBSET SetId,
          missing : BOOLEAN]

Begin(step, p, names) ==
  [pc |-> step, proc |-> p, names |-> names, target |-> NoSet, snap |-> Empty,
   again |-> FALSE, todo |-> {}, missing |-> FALSE]
Idle == Begin("idle", CHOOSE p \in Process : TRUE, {})

Init ==
  /\ table = Empty /\ sets = {} /\ nextSet = 1
  /\ rows = [p \in Process |-> NoRows]
  /\ expired = [p \in Process |-> FALSE]
  /\ parsed = [p \in Process |-> {}]
  /\ call = [c \in Caller |-> Idle]

\* Call c goes on as r, the table being t: whoever resolves a service without
\* a row has seen it missing.
Goes(c, r, t) ==
  call' = [d \in Caller |->
             LET now == IF d = c THEN r ELSE call[d]
             IN [now EXCEPT !.missing = @ \/ /\ now.pc \in Resolving
                                             /\ \E s \in now.names : t[s] = NoSet]]

----------------------------------------------------------------------------
(***************************************************************************)
(* add and remove.                                                         *)
(***************************************************************************)

\* ServiceRegistry.add: one transaction stores the descriptor set and points
\* the chosen services at it.
Add(c, p, chosen) ==
  /\ call[c] = Idle /\ nextSet \in SetId
  /\ table' = [s \in Service |-> IF s \in chosen THEN nextSet ELSE table[s]]
  /\ sets' = sets \cup {nextSet}
  /\ nextSet' = nextSet + 1
  /\ Goes(c, [Begin("added", p, chosen) EXCEPT !.target = nextSet], table')
  /\ UNCHANGED <<cacheVars>>

\* ServiceRegistry.remove; a name without a row is refused.
Remove(c, p, s) ==
  /\ call[c] = Idle /\ table[s] # NoSet
  /\ table' = [table EXCEPT ![s] = NoSet]
  /\ Goes(c, Begin("removed", p, {s}), table')
  /\ UNCHANGED <<sets, nextSet, cacheVars>>

\* Mutant: only a remove looks for orphans.
OrphansOfRemove(c) ==
  IF call[c].pc = "removed" THEN sets \cap Referenced ELSE sets

\* #dropOrphanSets: the sets left when those no service points at are gone,
\* whoever left them.
WithoutOrphans(c) == sets \cap Referenced

Drop(c) ==
  /\ call[c].pc \in {"added", "removed"}
  /\ sets' = WithoutOrphans(c)
  /\ Goes(c, [call[c] EXCEPT !.pc = IF @ = "added" THEN "addDropped" ELSE "removeDropped"], table)
  /\ UNCHANGED <<table, nextSet, cacheVars>>

\* The process forgets its copy; a remove is over, an add lists what it made.
Invalidate(c) ==
  /\ call[c].pc \in {"addDropped", "removeDropped"}
  /\ rows' = [rows EXCEPT ![call[c].proc] = NoRows]
  /\ Goes(c, IF call[c].pc = "addDropped" THEN [call[c] EXCEPT !.pc = "listing"] ELSE Idle, table)
  /\ UNCHANGED <<tableVars, expired, parsed>>

\* list: findMany, then the descriptor set of every row ...
ListRows(c) ==
  /\ call[c].pc = "listing"
  /\ Goes(c, [call[c] EXCEPT !.pc = "parsing", !.todo = Referenced \ parsed[call[c].proc]], table)
  /\ UNCHANGED <<tableVars, cacheVars>>

\* ... one that has been dropped since fails the call, after its commit.
ListSet(c) ==
  /\ call[c].pc = "parsing"
  /\ \E id \in call[c].todo :
       IF id \in sets
         THEN /\ parsed' = [parsed EXCEPT ![call[c].proc] = @ \cup {id}]
              /\ Goes(c, [call[c] EXCEPT !.todo = @ \ {id}], table)
         ELSE /\ parsed' = parsed
              /\ Goes(c, Idle, table)
  /\ UNCHANGED <<tableVars, rows, expired>>

AddReturns(c) ==
  /\ call[c].pc = "parsing" /\ call[c].todo = {}
  /\ Goes(c, Idle, table)
  /\ UNCHANGED <<tableVars, cacheVars>>

----------------------------------------------------------------------------
(***************************************************************************)
(* resolve.                                                                *)
(***************************************************************************)

\* Mutant: a copy is good for ever.
Unexpired(p) == rows[p] # NoRows

\* #rowsByName uses the copy while it is trusted, and reads the table else.
Trusted(p) == rows[p] # NoRows /\ ~expired[p]

\* Mutant: one look is enough.
NeverAgain(r) == FALSE

\* "Maybe registered a moment ago by another process."
LookAgain(r) == ~r.again

\* The call r has the process's rows t in hand: it goes after the set of its
\* service's row, or forgets the copy and looks once more, or gives up.
LookUp(c, r, t) ==
  LET id == t[CHOOSE s \in r.names : TRUE]
  IN \/ /\ id # NoSet
        /\ rows' = [rows EXCEPT ![r.proc] = t]
        /\ Goes(c, [r EXCEPT !.pc = "found", !.target = id, !.snap = Empty], table)
     \/ /\ id = NoSet /\ LookAgain(r)
        /\ rows' = [rows EXCEPT ![r.proc] = NoRows]
        /\ Goes(c, [r EXCEPT !.pc = "reading", !.again = TRUE, !.snap = Empty], table)
     \/ /\ id = NoSet /\ ~LookAgain(r)
        /\ rows' = [rows EXCEPT ![r.proc] = t]
        /\ Goes(c, [r EXCEPT !.pc = "notRegistered", !.snap = Empty], table)

\* ServiceRegistry.resolve begins, with the process's copy if it has one.
Resolve(c, p, s) ==
  /\ call[c] = Idle
  /\ LET r == Begin("reading", p, {s})
     IN \/ Trusted(p) /\ LookUp(c, r, rows[p])
        \/ ~Trusted(p) /\ Goes(c, r, table) /\ UNCHANGED rows
  /\ UNCHANGED <<tableVars, expired, parsed>>

\* #rowsByName: findMany reads the table ...
ReadRows(c) ==
  /\ call[c].pc = "reading"
  /\ Goes(c, [call[c] EXCEPT !.pc = "read", !.snap = table], table)
  /\ UNCHANGED <<tableVars, cacheVars>>

\* ... and its answer, however old by now, becomes the process's copy.
StoreRows(c) ==
  /\ call[c].pc = "read"
  /\ LookUp(c, call[c], call[c].snap)
  /\ expired' = [expired EXCEPT ![call[c].proc] = FALSE]
  /\ UNCHANGED <<tableVars, parsed>>

\* #set: a set the process has parsed never changes; another is read, unless
\* it has been dropped (findUniqueOrThrow).
UseSet(c) ==
  /\ call[c].pc = "found"
  /\ LET id == call[c].target
         p  == call[c].proc
     IN IF id \in parsed[p] \cup sets
          THEN /\ parsed' = [parsed EXCEPT ![p] = @ \cup {id}]
               /\ Goes(c, [call[c] EXCEPT !.pc = "resolved"], table)
          ELSE /\ parsed' = parsed
               /\ Goes(c, [call[c] EXCEPT !.pc = "noRecord"], table)
  /\ UNCHANGED <<tableVars, rows, expired>>

Answered(c) ==
  /\ call[c].pc \in {"resolved", "notRegistered", "noRecord"}
  /\ Goes(c, Idle, table)
  /\ UNCHANGED <<tableVars, cacheVars>>

\* ROWS_TTL_MS have passed since the process stored its copy.
Expire(p) ==
  /\ rows[p] # NoRows /\ ~expired[p]
  /\ expired' = [expired EXCEPT ![p] = TRUE]
  /\ UNCHANGED <<tableVars, rows, parsed, call>>

----------------------------------------------------------------------------
Registers(c) == \E p \in Server, chosen \in SUBSET Service \ {{}} : Add(c, p, chosen)
Removes(c)   == \E p \in Server, s \in Service : Remove(c, p, s)
Resolves(c)  == \E p \in Process, s \in Service : Resolve(c, p, s)

\* What a call that has begun does next.
GoesOn(c) == \/ Drop(c) \/ Invalidate(c) \/ ListRows(c) \/ ListSet(c) \/ AddReturns(c)
             \/ ReadRows(c) \/ StoreRows(c) \/ UseSet(c) \/ Answered(c)

Next == \/ \E c \in Caller : Registers(c) \/ Removes(c) \/ Resolves(c) \/ GoesOn(c)
        \/ \E p \in Process : Expire(p)

Spec == Init /\ [][Next]_vars

\* A call that has begun is carried on by its event loop, and time passes;
\* nobody has to call.
FairSpec == Spec /\ \A c \in Caller : WF_vars(GoesOn(c))
                 /\ \A p \in Process : WF_vars(Expire(p))

----------------------------------------------------------------------------
(***************************************************************************)
(* Properties.                                                             *)
(***************************************************************************)

\* Type invariant.
TypeOK ==
  /\ table \in Table /\ sets \subseteq SetId /\ nextSet \in 1..(MaxSets + 1)
  /\ rows \in [Process -> Table \cup {NoRows}]
  /\ expired \in [Process -> BOOLEAN]
  /\ parsed \in [Process -> SUBSET SetId]
  /\ call \in [Caller -> Call]

\* However adds and removes interleave, every registered service has its
\* descriptor set, and a set no service points at is only there while a call
\* that will drop it is under way (#dropOrphanSets after each transaction).
SetsFollowServices ==
  /\ Referenced \subseteq sets
  /\ sets # Referenced => \E c \in Caller : call[c].pc \in {"added", "removed"}

\* resolve says "not registered" only of a service that really had no row at
\* some moment of the call: a registration made by another process before it
\* is always seen (registry.ts:257-261).
NotRegisteredIsTrue ==
  \A c \in Caller : call[c].pc = "notRegistered" => call[c].missing

\* Once registrations stop changing, every process comes to resolve to the
\* current one: a stale copy, even one stored after the process was told to
\* forget it, is not used for ever.
EventuallyCurrent ==
  <>[][\A c \in Caller :
         call[c].pc = "found" /\ call'[c].pc = "resolved" =>
           \A s \in call[c].names : call[c].target = table[s]]_vars
=============================================================================
