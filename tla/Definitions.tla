---------------------------- MODULE Definitions ----------------------------
(***************************************************************************)
(* Process definitions: deploys of a name number its versions, a start by  *)
(* name takes the highest.  Deploys and starts run in any number of        *)
(* processes over one table; a deploy reads the latest version and claims  *)
(* the next one, which the unique index (name, version) may refuse.  A     *)
(* listing is read page by page, each by a call of its own.                *)
(***************************************************************************)
EXTENDS Naturals, FiniteSets

CONSTANTS Name,            \* definition names, numbered as they sort
          Caller,          \* deploys, starts and listings in flight together
          PageSize,        \* page_size, as listDefinitions limits it
          DeployAttempts,  \* DEPLOY_ATTEMPTS
          MaxVersion       \* bound: deploys begin while every name has fewer

ASSUME NamesSort == Name \subseteq Nat
ASSUME PagePositive == PageSize \in Nat \ {0}
ASSUME AttemptsPositive == DeployAttempts \in Nat \ {0}
ASSUME VersionBound     == MaxVersion \in Nat

VARIABLES
  versions,   \* process_definitions: the versions stored of each name
  call,       \* each call in flight, or Idle
  done        \* ghost: the highest version of each name that a deploy has returned

vars == <<versions, call, done>>

----------------------------------------------------------------------------
\* The highest version of a set of them, 0 for none.
Highest(V) == IF V = {} THEN 0 ELSE CHOOSE v \in V : \A w \in V : w <= v

\* The definitions stored, and those before one of them in a listing: by name,
\* the latest version first.
Rows      == UNION {{<<n, v>> : v \in versions[n]} : n \in Name}
Before(d) == {e \in Rows : e[1] < d[1] \/ (e[1] = d[1] /\ e[2] > d[2])}

\* A call: its step and name, the version it read or made, its attempt, where
\* its next page begins; as ghosts, the highest version returned before it
\* began, the rivals that have stored a version of its name since, and of a
\* listing the definitions that were there and have not been on a page.
Begin(step, n) ==
  [pc |-> step, name |-> n, version |-> 0, attempt |-> 1, skip |-> 0,
   floor |-> done[n], rivals |-> 0, owed |-> {}]
Idle == [pc |-> "idle", name |-> CHOOSE n \in Name : TRUE, version |-> 0, attempt |-> 0,
         skip |-> 0, floor |-> 0, rivals |-> 0, owed |-> {}]

Init ==
  /\ versions = [n \in Name |-> {}]
  /\ call = [c \in Caller |-> Idle]
  /\ done = [n \in Name |-> 0]

----------------------------------------------------------------------------
\* ProcessEngine.deploy, once the source is checked.
Deploy(c, n) ==
  /\ call[c] = Idle
  /\ Cardinality(versions[n]) < MaxVersion
  /\ call' = [call EXCEPT ![c] = Begin("reading", n)]
  /\ UNCHANGED <<versions, done>>

\* Mutant: whichever row comes first.
AnyVersion(n) == IF versions[n] = {} THEN {0} ELSE versions[n]

\* Mutant: the first version is two.
FromTwo(n) == IF versions[n] = {} THEN {1} ELSE {Highest(versions[n])}

\* findFirst, by version descending.
LatestVersion(n) == {Highest(versions[n])}

ReadLatest(c) ==
  /\ call[c].pc = "reading"
  /\ \E v \in LatestVersion(call[c].name) :
       call' = [call EXCEPT ![c].pc = "creating", ![c].version = v]
  /\ UNCHANGED <<versions, done>>

\* Create takes the next version.
Create(c) ==
  /\ call[c].pc = "creating"
  /\ LET n == call[c].name
         v == call[c].version + 1
     IN /\ v \notin versions[n]
        /\ versions' = [versions EXCEPT ![n] = @ \cup {v}]
        /\ call' = [d \in Caller |->
                      IF d = c THEN [call[c] EXCEPT !.pc = "deployed", !.version = v]
                      ELSE IF call[d].pc \in {"reading", "creating"} /\ call[d].name = n
                        THEN [call[d] EXCEPT !.rivals = @ + 1]
                        ELSE call[d]]
  /\ UNCHANGED done

\* Mutant: the retry keeps the version it had read.
SameRead(r) == IF r.attempt >= DeployAttempts
                 THEN [r EXCEPT !.pc = "gaveUp"]
                 ELSE [r EXCEPT !.attempt = @ + 1]

\* Mutant: one attempt more.
OneMore(r) == IF r.attempt > DeployAttempts
                THEN [r EXCEPT !.pc = "gaveUp"]
                ELSE [r EXCEPT !.pc = "reading", !.attempt = @ + 1]

\* A deploy that lost the version reads again, or gives up.
TryAgain(r) == IF r.attempt >= DeployAttempts
                 THEN [r EXCEPT !.pc = "gaveUp"]
                 ELSE [r EXCEPT !.pc = "reading", !.attempt = @ + 1]

\* The unique index refuses the version.
Lose(c) ==
  /\ call[c].pc = "creating"
  /\ call[c].version + 1 \in versions[call[c].name]
  /\ call' = [call EXCEPT ![c] = TryAgain(@)]
  /\ UNCHANGED <<versions, done>>

\* startByIdOrName by name: the highest version there is ...
StartByName(c, n) ==
  /\ call[c] = Idle
  /\ call' = [call EXCEPT ![c] = Begin("finding", n)]
  /\ UNCHANGED <<versions, done>>

\* ... of which start makes an instance; versions are never deleted.
Start(c) ==
  /\ call[c].pc = "finding"
  /\ \E v \in LatestVersion(call[c].name) :
       call' = [call EXCEPT ![c].pc = IF v = 0 THEN "notFound" ELSE "started", ![c].version = v]
  /\ UNCHANGED <<versions, done>>

\* listDefinitions: the first page is asked for ...
List(c) ==
  /\ call[c] = Idle
  /\ call' = [call EXCEPT ![c] = [Begin("listing", @.name) EXCEPT !.owed = Rows]]
  /\ UNCHANGED <<versions, done>>

\* Mutant: the row fetched to see whether there is more counts as shown.
PastTheExtra(skip) == skip + PageSize + 1

\* The next page token.
NextPage(skip) == skip + PageSize

\* ... and each page names the next while there are rows beyond it.
Page(c) ==
  /\ call[c].pc = "listing"
  /\ LET skip  == call[c].skip
         shown == {d \in Rows : Cardinality(Before(d)) \in skip..(skip + PageSize - 1)}
         more  == Cardinality(Rows) > skip + PageSize
     IN  call' = [call EXCEPT ![c].pc = IF more THEN "listing" ELSE "listed",
                              ![c].skip = IF more THEN NextPage(skip) ELSE skip,
                              ![c].owed = @ \ shown]
  /\ UNCHANGED <<versions, done>>

\* The caller has its answer.
Return(c) ==
  /\ call[c].pc \in {"deployed", "gaveUp", "started", "notFound", "listed"}
  /\ done' = IF call[c].pc = "deployed"
               THEN [done EXCEPT ![call[c].name] = Highest({@, call[c].version})] ELSE done
  /\ call' = [call EXCEPT ![c] = Idle]
  /\ UNCHANGED versions

Next == \E c \in Caller :
          \/ \E n \in Name : Deploy(c, n) \/ StartByName(c, n)
          \/ ReadLatest(c) \/ Create(c) \/ Lose(c) \/ Start(c) \/ Return(c)
          \/ List(c) \/ Page(c)

Spec == Init /\ [][Next]_vars

----------------------------------------------------------------------------
(***************************************************************************)
(* Properties.                                                             *)
(***************************************************************************)

\* Type invariant.
TypeOK ==
  /\ versions \in [Name -> SUBSET Nat]
  /\ call \in [Caller -> [pc : {"idle", "reading", "creating", "finding",
                                "deployed", "gaveUp", "started", "notFound",
                                "listing", "listed"},
                          name : Name, version : Nat, attempt : 0..DeployAttempts, skip : Nat,
                          floor : Nat, rivals : Nat, owed : SUBSET (Name \X Nat)]]
  /\ done \in [Name -> Nat]

\* However deploys of a name race, its versions are numbered from 1 without a
\* gap, and no two deploys report the same one.
NumberedWithoutGaps ==
  \A n \in Name :
    /\ versions[n] = 1..Cardinality(versions[n])
    /\ \A c, d \in Caller :
         c # d /\ call[c].pc = "deployed" /\ call[d].pc = "deployed" /\ call[c].name = n
               /\ call[d].name = n => call[c].version # call[d].version

\* A deploy gives up for lack of a free version only when at least
\* DEPLOY_ATTEMPTS others stored one while it ran: losing to one rival never
\* fails a deploy.
GivesUpOnlyWhenBeaten ==
  \A c \in Caller : call[c].pc = "gaveUp" => call[c].rivals >= DeployAttempts

\* Versions follow real time: a deploy that begins once another has returned
\* gets a higher version, and a start by name runs that one or a later one.
VersionsFollowTime ==
  \A c \in Caller :
    /\ call[c].pc = "deployed" => call[c].version > call[c].floor
    /\ call[c].pc = "started" => call[c].version >= call[c].floor
    /\ call[c].pc = "notFound" => call[c].floor = 0

\* A listing followed to its last page shows every definition that was there
\* when it began, whatever is deployed between its pages (routes.ts:105-121,
\* offsets into a list that grows).  A definition may be on two pages: a deploy
\* of an earlier row moves those behind it.
ListMissesNothing == \A c \in Caller : call[c].pc = "listed" => call[c].owed = {}
=============================================================================
