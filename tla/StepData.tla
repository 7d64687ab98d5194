------------------------------ MODULE StepData ------------------------------
(***************************************************************************)
(* The data of a process's steps: what a deploy checks of their mappings,  *)
(* the inputs a step begins with, the request of a service call, and how   *)
(* its result reaches the process variables and the log.                   *)
(*                                                                         *)
(* A JSON value is the function from the paths of its leaves to them: the  *)
(* path << >> leads to a value that is itself a leaf, an object without    *)
(* fields is the leaf NoFields, and arrays are leaves too.  What holds     *)
(* variables (the process, a scope, a request) is written as its fields    *)
(* alone, none at first.  A FEEL expression is the path it reads; FEEL     *)
(* yields values, not references, but one value may be held in two places  *)
(* from then on (AsLeft).  A design gives every step its mappings in order. *)
(***************************************************************************)
EXTENDS Naturals, Sequences, FiniteSets, SequencesExt

CONSTANTS Step,       \* the steps, which may be open at once
          Key,        \* names of variables and fields
          Leaf, Null, Blank, Redacted, NoFields,  \* leaves: null, "", the mask, {}, others
          Parsed,     \* JSON.parse of the leaves that are JSON text
          Sensitive,  \* keys that name something to mask
          IdKey, RouteId,  \* "id", by which a signal is routed, and what it holds
          TextField, NumberField,  \* kinds of scalar fields
          Fields,     \* the request message: its scalar fields, by path
          Designs,    \* of a process: functions from Step to mappings
          Data,       \* variables an instance starts with
          Results     \* what a step may end with

VARIABLES
  design,     \* the BPMN
  phase,      \* "draft", "refused", "running", "parked" or "failed"
  at,         \* of each step: "idle", "open" or "left"
  variables,  \* process variables
  locals,     \* engineExtensions' locals, of one run
  request,    \* of each service step whose call is out
  \* ghosts: the inputs each step began with, those of them that opened before
  \* the instance was parked, why it failed, and the latest result applied
  given, parked, cause, last

vars == <<design, phase, at, variables, locals, request, given, parked, cause, last>>

----------------------------------------------------------------------------
Path == Seq(Key)

Scalar(leaf) == [p \in {<< >>} |-> leaf]
None == [p \in {} |-> Null]

\* A finite tree of leaves: none is above another.
IsTree(v) ==
  /\ v \in [DOMAIN v -> Leaf] /\ DOMAIN v \subseteq Path /\ IsFiniteSet(DOMAIN v)
  /\ \A p, q \in DOMAIN v : IsPrefix(p, q) => p = q

IsJson(v)  == IsTree(v) /\ DOMAIN v # {}
IsScope(v) == IsTree(v) /\ << >> \notin DOMAIN v

IsObject(v) == << >> \in DOMAIN v => v[<< >>] = NoFields
FieldsOf(v) == [p \in DOMAIN v \ {<< >>} |-> v[p]]
Names(scope) == {p[1] : p \in DOMAIN scope}

Overlap(p, q) == IsPrefix(p, q) \/ IsPrefix(q, p)
Below(path, v) == {path \o p : p \in DOMAIN v}
Rest(path, p) == SubSeq(p, Len(path) + 1, Len(p))

\* The places of v at path, and what they read.
Within(v, path) == {p \in DOMAIN v : IsPrefix(path, p)}
Has(v, path) == Within(v, path) # {}
Lookup(v, path) == IF Has(v, path) THEN [p \in {Rest(path, q) : q \in Within(v, path)} |-> v[path \o p]]
                   ELSE Scalar(Null)

\* setPath: what was at the path is replaced, and so is a leaf on the way; the
\* fields beside it stay.
SetPath(v, path, new) ==
  [p \in {q \in DOMAIN v : ~Overlap(path, q)} \cup Below(path, new) |->
     IF p \in Below(path, new) THEN new[Rest(path, p)] ELSE v[p]]

\* { ...base, ...top }
Spread(top, base) ==
  [p \in DOMAIN top \cup {q \in DOMAIN base : q[1] \notin Names(top)} |->
     IF p \in DOMAIN top THEN top[p] ELSE base[p]]

\* Where a sensitive key is on the way, the mask takes the place of what is below.
IsHidden(p) == \E n \in DOMAIN p : p[n] \in Sensitive
Shown(p) == IF IsHidden(p)
            THEN SubSeq(p, 1, CHOOSE n \in DOMAIN p :
                   p[n] \in Sensitive /\ \A m \in 1..(n - 1) : p[m] \notin Sensitive)
            ELSE p

\* redact: sensitive keys are masked at any depth.
Redact(v) == [p \in {Shown(q) : q \in DOMAIN v} |-> IF IsHidden(p) THEN Redacted ELSE v[p]]

\* inputValue: the literal, or what the expression reads; strict readers refuse
\* a name that is missing, lenient ones take null.
InputValue(source, scope) ==
  IF source.kind = "text" THEN Scalar(source.value) ELSE Lookup(scope, source.path)
Misses(source, scope) == source.kind = "feel" /\ ~Has(scope, source.path)

\* A mapping's source and target, and a process with the mappings of its steps.
Source  == [kind : {"text", "feel", "broken"}, value : Leaf, path : Path]
Mapping == {mapping \in [source : Source, target : Path \ {<< >>}] :
              mapping.source.kind = "feel" => mapping.source.path # << >>}
IsDesign(steps) ==
  \A s \in Step : /\ steps[s].kind \in {"service", "user", "message", "script"}
                  /\ steps[s].inputs \in Seq(Mapping) /\ steps[s].outputs \in Seq(Mapping)
                  /\ steps[s].shape \in Seq(Mapping) /\ steps[s].whole \in Path
                  /\ steps[s].whole = << >> \/ Len(steps[s].whole) = 1
                  /\ \A n \in DOMAIN steps[s].shape : Len(steps[s].shape[n].target) = 1

ASSUME Leaves  == /\ {Null, Blank, Redacted, NoFields, RouteId} \subseteq Leaf
                  /\ NoFields \notin {Null, Blank, Redacted} /\ RouteId \notin {Null, NoFields}
ASSUME Texts   == \A leaf \in DOMAIN Parsed : leaf \in Leaf \ {Null, NoFields} /\ IsJson(Parsed[leaf])
ASSUME Request == DOMAIN Fields \subseteq Path
ASSUME Inputs  == /\ \A steps \in Designs : IsDesign(steps)
                  /\ \A scope \in Data : IsScope(scope)
                  /\ \A result \in Results : IsJson(result)
                  /\ {IdKey, "response"} \subseteq Key

\* The targets' values by name, as Object.fromEntries leaves them: a target
\* that is named twice has the later value, and is written whole.
TargetsIn(mappings) == {mappings[n].target : n \in DOMAIN mappings}
InputValues(s, scope) ==
  LET inputs == design[s].inputs IN
  [target \in TargetsIn(inputs) |->
     InputValue(inputs[CHOOSE n \in DOMAIN inputs : /\ inputs[n].target = target
       /\ \A m \in DOMAIN inputs : inputs[m].target = target => m <= n].source, scope)]

----------------------------------------------------------------------------
(***************************************************************************)
(* deploy.                                                                 *)
(***************************************************************************)

\* findField along a dotted target.
IsField(path) == path # << >> /\ \E field \in DOMAIN Fields : IsPrefix(path, field)

Broken(mappings) == \E n \in DOMAIN mappings : mappings[n].source.kind = "broken"

\* #checkFeel; a "script" is a zeebe:script, which needs a resultVariable.
FeelParses(s) ==
  /\ ~Broken(design[s].inputs) /\ ~Broken(design[s].outputs) /\ ~Broken(design[s].shape)
  /\ design[s].kind = "script" => design[s].whole # << >>

\* Mutant: only the first name of a target is looked up.
HeadIsField(s) ==
  design[s].kind = "service" =>
    \A n \in DOMAIN design[s].inputs : IsField(<<Head(design[s].inputs[n].target)>>)

\* #checkServiceTasks: every input is a field of the request.
InputsAreFields(s) ==
  design[s].kind = "service" => \A target \in TargetsIn(design[s].inputs) : IsField(target)

Init ==
  /\ design \in Designs /\ variables \in Data
  /\ phase = "draft" /\ at = [s \in Step |-> "idle"]
  /\ locals = [s \in Step |-> None] /\ request = [s \in Step |-> None]
  /\ given = [s \in Step |-> None] /\ parked = {} /\ cause = "none" /\ last = << >>

Deploy ==
  /\ phase = "draft"
  /\ phase' = IF \A s \in Step : FeelParses(s) /\ InputsAreFields(s) THEN "running" ELSE "refused"
  /\ UNCHANGED <<design, at, variables, locals, request, given, parked, cause, last>>

----------------------------------------------------------------------------
(***************************************************************************)
(* A step begins.                                                          *)
(***************************************************************************)

\* The run stops; its data is not saved.
Fail(why) ==
  /\ phase' = "failed" /\ cause' = why
  /\ UNCHANGED <<design, at, variables, locals, request, given, parked, last>>

\* It is given its inputs, and holds what is left of them.
Opens(s, values, held) ==
  /\ at' = [at EXCEPT ![s] = "open"]
  /\ locals' = [locals EXCEPT ![s] = held]
  /\ given' = [given EXCEPT ![s] = values]
  /\ UNCHANGED <<design, variables, parked, cause, last>>

\* taskResults, "start": any other task reads its inputs leniently.
Begin(s) ==
  /\ phase = "running" /\ at[s] = "idle" /\ design[s].kind # "service"
  /\ IF Broken(design[s].inputs) THEN Fail("feel")
     ELSE /\ Opens(s, InputValues(s, variables), InputValues(s, variables))
          /\ UNCHANGED <<phase, request>>

\* coerce: text in a field that is not text is parsed as JSON when it can be.
IsText(path) == path \in DOMAIN Fields /\ Fields[path] = TextField
Coerce(path, value) ==
  IF /\ IsField(path) /\ ~IsText(path)
     /\ << >> \in DOMAIN value /\ value[<< >>] \in DOMAIN Parsed
  THEN Parsed[value[<< >>]] ELSE value

\* buildRequest: its entries are in the order their targets are first named,
\* and a blank one leaves its field at the default.
Filled(s, values) ==
  LET inputs == design[s].inputs IN
  {n \in DOMAIN inputs : /\ \A m \in 1..(n - 1) : inputs[m].target # inputs[n].target
                         /\ values[inputs[n].target] # Scalar(Blank)}

\* The request as the fields are set one after another.
Building(s, values) ==
  LET built[n \in 0..Len(design[s].inputs)] ==
        IF n = 0 THEN None
        ELSE LET target == design[s].inputs[n].target
             IN  IF n \in Filled(s, values)
                 THEN SetPath(built[n - 1], target, Coerce(target, values[target]))
                 ELSE built[n - 1]
  IN  built
BuildRequest(s, values) == Building(s, values)[Len(design[s].inputs)]

\* A value that is neither null nor an object is on the way to a field.
Blocked(v, path) == \E p \in DOMAIN v : IsPrefix(p, path) /\ p # path /\ v[p] \notin {Null, NoFields}
IsBlocked(s, values) ==
  \E n \in Filled(s, values) : Blocked(Building(s, values)[n - 1], design[s].inputs[n].target)

\* An object that is written stays the object it is where it came from: the
\* writes that follow go inside it, until one takes its place.
AsLeft(passes, rows, written, n, value) ==
  LET over  == {m \in written : m > n /\ IsPrefix(rows[m].target, rows[n].target)}
      until == IF over = {} THEN Len(rows) ELSE Min(over) - 1
  IN  IF IsObject(value) THEN Lookup(passes[until], rows[n].target) ELSE value

\* The locals hold the very objects the request was built with.
Sent(s, values) ==
  LET inputs == design[s].inputs IN
  [target \in DOMAIN values |->
     IF \E n \in Filled(s, values) : inputs[n].target = target
     THEN AsLeft(Building(s, values), inputs, Filled(s, values),
                 CHOOSE n \in Filled(s, values) : inputs[n].target = target, values[target])
     ELSE values[target]]

\* What fromJson takes: fields, and a message or null where a message belongs.
IsMessage(v) ==
  \A p \in DOMAIN v : IF p \in DOMAIN Fields THEN v[p] # NoFields
                      ELSE IsField(p) /\ v[p] \in {Null, NoFields}

\* serviceTasks: a service call reads its inputs strictly, builds its request,
\* and is out.  A name that is missing fails the step instead of being sent.
Call(s) ==
  /\ phase = "running" /\ at[s] = "idle" /\ design[s].kind = "service"
  /\ LET inputs == design[s].inputs
         values == InputValues(s, variables)
         built  == BuildRequest(s, values)
     IN  IF Broken(inputs) THEN Fail("feel")
         ELSE IF \E n \in DOMAIN inputs : Misses(inputs[n].source, variables) THEN Fail("missing")
         ELSE IF IsBlocked(s, values) \/ ~IsMessage(built)
              THEN Fail(IF \E n \in Filled(s, values) : ~IsField(inputs[n].target)
                        THEN "field" ELSE "request")
         ELSE /\ Opens(s, values, Sent(s, values)) /\ phase' = phase
              /\ request' = [request EXCEPT ![s] = built]

----------------------------------------------------------------------------
(***************************************************************************)
(* A step ends: applyResult.                                               *)
(***************************************************************************)

Written(target, kind, value) == [target |-> target, kind |-> kind, value |-> value]

\* What resultVariable and resultExpression make of a result.
Whole(s, result) ==
  IF design[s].whole = << >> THEN << >> ELSE <<Written(design[s].whole, "whole", result)>>
Shaped(s, result) ==
  [n \in DOMAIN design[s].shape |->
     Written(design[s].shape[n].target, "expression",
             InputValue(design[s].shape[n].source, SetPath(variables, <<"response">>, result)))]
Produced(s, result) == Whole(s, result) \o Shaped(s, result)

\* The rows are written one after another; what is local stays inside the step.
Writing(v, rows) ==
  LET written[n \in 0..Len(rows)] ==
        IF n = 0 THEN v
        ELSE IF rows[n].kind = "local" THEN written[n - 1]
        ELSE SetPath(written[n - 1], rows[n].target, rows[n].value)
  IN  written
WriteAll(v, rows) == Writing(v, rows)[Len(rows)]

\* The step's own variables, and the inputs that are names.
Own(s, result) == WriteAll(IF IsObject(result) THEN FieldsOf(result) ELSE None, Produced(s, result))
Named(values) == {target \in DOMAIN values : Len(target) = 1}
InputFields(values) ==
  [p \in UNION {Below(target, values[target]) : target \in Named(values)} |->
     values[<<p[1]>>][Rest(<<p[1]>>, p)]]

\* Mutant: the step's inputs hide what it produced.
InputsFirst(s, result) == Spread(InputFields(locals[s]), Spread(Own(s, result), variables))

\* What an output sees: the process, the step's inputs, then its own variables.
Scope(s, result) == Spread(Own(s, result), Spread(InputFields(locals[s]), variables))

\* The scope was copied before the first output, one level deep: it still shares
\* the objects of the process that nothing of the step's hides and no output has
\* replaced, and shows what is written inside them.
Shares(s, result, n, key) ==
  /\ key \in Names(variables) \ (Names(Own(s, result)) \cup Names(InputFields(locals[s])))
  /\ <<key>> \in DOMAIN variables => variables[<<key>>] = NoFields
  /\ \A m \in 1..(n - 1) : design[s].outputs[m].target # <<key>>

\* What the outputs find, one after another.
Scopes(s, result) ==
  LET outputs == design[s].outputs
      scope[n \in 0..Len(outputs)] ==
        IF n = 0 THEN Scope(s, result)
        ELSE LET target == outputs[n].target
             IN  IF Len(target) > 1 /\ Shares(s, result, n, target[1])
                 THEN SetPath(scope[n - 1], target, InputValue(outputs[n].source, scope[n - 1]))
                 ELSE scope[n - 1]
  IN  scope
Outputs(s, result) ==
  [n \in DOMAIN design[s].outputs |->
     Written(design[s].outputs[n].target, "mapping",
             InputValue(design[s].outputs[n].source, Scopes(s, result)[n - 1]))]

\* Mutant: what a step produced leaves it, mapped or not.
NoneLocal(s, result) == Outputs(s, result) \o Produced(s, result)

\* With outputs only they leave the step; what was produced stays inside.
OutputRows(s, result) ==
  Outputs(s, result) \o
  [n \in DOMAIN Produced(s, result) |-> [Produced(s, result)[n] EXCEPT !.kind = "local"]]

Merged(result) ==
  IF ~IsObject(result) THEN << >>
  ELSE LET keys == SetToSeq(Names(FieldsOf(result)))
       IN  [n \in DOMAIN keys |-> Written(<<keys[n]>>, "merged", Lookup(result, <<keys[n]>>))]

\* Without them what was produced does, and with neither the result's fields
\* are merged by name, unless the step is a service call.
ApplyResult(s, result) ==
  IF design[s].outputs # << >> THEN OutputRows(s, result)
  ELSE IF Produced(s, result) # << >> THEN Produced(s, result)
  ELSE IF design[s].kind = "service" THEN << >> ELSE Merged(result)

\* Of a message's payload the message's id is put aside: it is no data.
WithoutId(payload) ==
  LET data == [p \in {q \in DOMAIN payload : q # << >> /\ q[1] # IdKey} |-> payload[p]]
  IN  IF data = None THEN Scalar(NoFields) ELSE data
Payload(s, payload) ==
  IF design[s].kind = "message" /\ IsObject(payload) THEN WithoutId(payload) ELSE payload

\* Mutant: a dotted target is masked by its first name alone.
MaskByHead(target) == Head(target) \in Sensitive

\* isSensitiveKey
IsSensitiveKey(target) == IsHidden(target)

\* maskMappings and sanitize, as the rows are logged.
Mask(row) ==
  [row EXCEPT !.value = IF IsSensitiveKey(row.target) THEN Scalar(Redacted) ELSE Redact(@)]

\* A signal's payload, or an empty object in its place, has the id of the
\* message or the element it was routed by; what scripts and calls hand over is
\* kept as it is.  A receive task that names no message is a "user".
Arrives(s, result) ==
  IF design[s].kind \in {"user", "message"}
  THEN SetPath(IF IsObject(result) THEN result ELSE Scalar(NoFields), <<IdKey>>, Scalar(RouteId))
  ELSE result

\* The rows a result is applied with.
RowsOf(s, result) == ApplyResult(s, Payload(s, Arrives(s, result)))

\* The rows as they are when they are logged, after the last was written.
LeftRows(rows) ==
  LET written == {n \in DOMAIN rows : rows[n].kind # "local"} IN
  [n \in DOMAIN rows |->
     IF n \notin written THEN rows[n]
     ELSE [rows[n] EXCEPT !.value = AsLeft(Writing(variables, rows), rows, written, n, @)]]

\* taskResults, "end": an empty result is dropped, any other is applied, logged
\* and snapshotted before the flows that leave the step are taken.
End(s, result) ==
  /\ phase = "running" /\ at[s] = "open"
  /\ IF Arrives(s, result) # Scalar(Null) /\ (Broken(design[s].outputs) \/ Broken(design[s].shape))
     THEN Fail("feel")
     ELSE /\ at' = [at EXCEPT ![s] = "left"]
          /\ locals' = [locals EXCEPT ![s] = None]
          /\ request' = [request EXCEPT ![s] = None]
          /\ IF Arrives(s, result) = Scalar(Null) THEN UNCHANGED variables /\ last' = << >>
             ELSE LET rows == LeftRows(RowsOf(s, result)) IN
                  /\ variables' = WriteAll(variables, RowsOf(s, result))
                  /\ last' = [step |-> s, result |-> result, rows |-> rows,
                              logged |-> [n \in DOMAIN rows |-> Mask(rows[n])]]
          /\ UNCHANGED <<design, phase, given, parked, cause>>

\* Mutant: the locals outlive the run.
Remembered == locals

\* A new run starts with none.
Forgotten == [s \in Step |-> None]

\* The run ends at rest or out of time and another takes the instance up: the
\* locals were the run's, and a call that is out is made again.
Park ==
  /\ phase = "running" /\ \E s \in Step : at[s] = "open"
  /\ phase' = "parked"
  /\ locals' = Forgotten /\ request' = [s \in Step |-> None]
  /\ parked' = parked \cup {s \in Step : at[s] = "open" /\ design[s].kind # "service"}
  /\ at' = [s \in Step |-> IF design[s].kind = "service" /\ at[s] = "open" THEN "idle" ELSE at[s]]
  /\ UNCHANGED <<design, variables, given, cause, last>>

Resume ==
  /\ phase = "parked" /\ phase' = "running"
  /\ UNCHANGED <<design, at, variables, locals, request, given, parked, cause, last>>

Next == \/ Deploy \/ Park \/ Resume
        \/ \E s \in Step : Begin(s) \/ Call(s) \/ \E result \in Results : End(s, result)

Spec == Init /\ [][Next]_vars

----------------------------------------------------------------------------
(***************************************************************************)
(* Properties.                                                             *)
(***************************************************************************)

LeavesIn(v) == {v[p] : p \in DOMAIN v}
Applies == last' # last /\ last' # << >>

\* The targets README.md:85-96 gives a step, from its BPMN and the result.
Targets(s, result) ==
  IF design[s].outputs # << >> THEN TargetsIn(design[s].outputs)
  ELSE IF design[s].whole # << >> \/ design[s].shape # << >>
       THEN ({design[s].whole} \ {<< >>}) \cup TargetsIn(design[s].shape)
  ELSE IF design[s].kind = "service" \/ ~IsObject(result) THEN {}
  ELSE {<<key>> : key \in Names(FieldsOf(result))}

\* Every variable stays in its set: the process variables, the inputs and the
\* requests are trees of known leaves, whatever was written into them.
TypeOK ==
  /\ design \in Designs
  /\ phase \in {"draft", "refused", "running", "parked", "failed"}
  /\ at \in [Step -> {"idle", "open", "left"}]
  /\ IsScope(variables)
  /\ \A s \in Step : /\ IsScope(request[s])
                     /\ \A target \in DOMAIN locals[s] : IsJson(locals[s][target])
                     /\ at[s] # "open" => locals[s] = None /\ request[s] = None
  /\ parked \subseteq Step /\ cause \in {"none", "feel", "missing", "field", "request"}

\* What lies beside the targets stays as it is.
ChangesUnder(targets) ==
  \A p \in DOMAIN variables \cup DOMAIN variables' :
    (\A q \in targets : ~Overlap(p, q)) =>
      p \in DOMAIN variables \cap DOMAIN variables' /\ variables'[p] = variables[p]

\* The id a signal is routed by stays in the payload of a step without mappings
\* that is not waiting for a message.
Routing(s) ==
  IF design[s].kind = "user" /\ design[s].outputs = << >>
     /\ design[s].whole = << >> /\ design[s].shape = << >>
  THEN {<<IdKey>>} ELSE {}

\* A result changes the process variables under its targets and nowhere else:
\* no input, unmapped field or produced variable leaks, whatever the other steps
\* write meanwhile (README.md:85-96).  Left out is the id a user task without
\* mappings was routed by, which does leak ("routing, not data", worker.ts:243).
OnlyTargetsChange ==
  [][ /\ (variables' # variables => Applies)
      /\ Applies => ChangesUnder(Targets(last'.step, last'.result) \cup Routing(last'.step))]_vars

\* What an output's source stands for: the step's own variable of that name,
\* or its input, or the process variable (README.md:89).
Means(s, result, source) ==
  IF source.kind = "text" THEN Scalar(source.value)
  ELSE LET name == Head(source.path) IN
       IF name \in Names(Own(s, result)) THEN Lookup(Own(s, result), source.path)
       ELSE IF <<name>> \in DOMAIN given[s] THEN Lookup(given[s][<<name>>], Tail(source.path))
       ELSE Lookup(variables, source.path)

\* Output n is read from nothing an earlier output of the step has written.
Unmixed(outputs, n) ==
  outputs[n].source.kind = "feel" =>
    \A m \in 1..(n - 1) : Head(outputs[m].target) # Head(outputs[n].source.path)

\* Output n reads no input that another input of the call is written inside.
Apart(s, n) ==
  (design[s].kind = "service" /\ design[s].outputs[n].source.kind = "feel") =>
    \A target \in TargetsIn(design[s].inputs) :
      Len(target) > 1 => Head(target) # Head(design[s].outputs[n].source.path)

Reads(s, result, n) ==
  LET outputs == design[s].outputs IN
  ( /\ Unmixed(outputs, n)
    /\ \A m \in (n + 1)..Len(outputs) : ~Overlap(outputs[m].target, outputs[n].target)) =>
  Lookup(variables', outputs[n].target) =
    Means(s, Payload(s, Arrives(s, result)), outputs[n].source)

\* The value an output leaves in the process is what its source stands for,
\* with the inputs as they were when the step began; of two that overlap the
\* later wins.  Left out are steps that were open when the instance was parked,
\* and inputs of a call that others of its inputs are written inside.
OutputsRead ==
  [][(Applies /\ last'.step \notin parked) =>
       \A n \in DOMAIN design[last'.step].outputs :
         Apart(last'.step, n) => Reads(last'.step, last'.result, n)]_vars

\* The same for every step ("the source sees the result's fields, the task's
\* inputs and the process variables", README.md:89).  Violated: the inputs are
\* remembered by the run, and a step that waits is ended by a later one.
InputsOutliveRun ==
  [][Applies => \A n \in DOMAIN design[last'.step].outputs :
                  Apart(last'.step, n) => Reads(last'.step, last'.result, n)]_vars

\* What a deploy lets through never fails a run for a reason it could have
\* seen ("fail the deploy, not a run halfway through",
\* process-engine.ts:222-226), and a call that is out carries nothing but
\* fields of its request that some input which is not blank has filled.
DeployCatches ==
  /\ cause \notin {"feel", "field"}
  /\ \A s \in Step : \A p \in DOMAIN request[s] :
       /\ IsField(p)
       /\ \E target \in TargetsIn(design[s].inputs) :
            IsPrefix(target, p) /\ given[s][target] # Scalar(Blank)

\* The rows logged of a result show no more than the variables they wrote do,
\* and account for every change that is shown (payload.ts:83-87).
LogMatchesShown ==
  [][Applies =>
      /\ \A n \in DOMAIN last'.rows :
           LeavesIn(last'.logged[n].value) \subseteq
             {Redacted} \cup LeavesIn(Redact(SetPath(None, last'.rows[n].target, last'.rows[n].value)))
      /\ Redact(variables') = Redact(WriteAll(Redact(variables), last'.logged))]_vars
=============================================================================
