---------------------------- MODULE MC_StepData ----------------------------
\* Instances of StepData for TLC: two steps, one with every combination of the
\* mappings below, the other with a few that write beside it.
EXTENDS StepData

CONSTANTS one, two, x, y, n42, number42, null, blank, redacted, noFields, routeId

Text(v)      == [kind |-> "text", value |-> v, path |-> << >>]
Feel(path)   == [kind |-> "feel", value |-> null, path |-> path]
Unparsable   == [kind |-> "broken", value |-> null, path |-> << >>]
To(target, source) == [target |-> target, source |-> source]

Message == (<<"a">> :> NumberField) @@ (<<"r", "b">> :> TextField)
JsonText == (n42 :> (<< >> :> number42))

InputMenu == {<< >>,
  <<To(<<"a">>, Text(n42)), To(<<"r", "b">>, Feel(<<"b">>))>>,
  <<To(<<"r">>, Feel(<<"a">>)), To(<<"a">>, Text(blank))>>,
  <<To(<<"r", "a">>, Text(x))>>,
  <<To(<<"r">>, Text(n42)), To(<<"r", "b">>, Text(y))>>,
  <<To(<<"r">>, Feel(<<"a">>)), To(<<"r", "b">>, Text(y))>>}
OutputMenu == {<< >>,
  <<To(<<"a", "b">>, Feel(<<"r">>)), To(<<"b">>, Feel(<<"a", "b">>))>>,
  <<To(<<"b">>, Feel(<<"a">>)), To(<<"b", "secret">>, Text(y))>>,
  <<To(<<"secret", "b">>, Feel(<<"b">>)), To(<<"a">>, Unparsable)>>,
  <<To(<<"secret", "b">>, Feel(<<"b">>)), To(<<"c">>, Feel(<<"secret">>))>>}
ShapeMenu == {<< >>, <<To(<<"a">>, Feel(<<"response", "b">>))>>}

Mappings(kinds, inputs, outputs, wholes, shapes) ==
  [kind : kinds, inputs : inputs, outputs : outputs, whole : wholes, shape : shapes]

TwoSteps ==
  {(one :> first) @@ (two :> second) :
     first \in Mappings({"service", "user", "message", "script"}, InputMenu, OutputMenu,
                        {<< >>, <<"r">>}, ShapeMenu),
     second \in Mappings({"user"}, {<< >>}, {<< >>, <<To(<<"a", "b">>, Text(y))>>}, {<< >>}, {<< >>})}

OneStep == {(one :> first) : first \in
  Mappings({"user"}, {<<To(<<"a">>, Text(x))>>}, {<<To(<<"b">>, Feel(<<"a">>))>>}, {<< >>}, {<< >>})}

StartData == {(<<"a">> :> x) @@ (<<"b">> :> y), (<<"a", "b">> :> x)}
StepResults == {<< >> :> null, << >> :> x, (<<"b">> :> y) @@ (<<"secret">> :> x), <<"a", "secret">> :> y}
=============================================================================
