----------------------------- MODULE MCPyCalls -----------------------------
(* Three classes: one beside an independent base, a mixin pair under one   *)
(* child, a line.  Two modules, one method name, constructors.             *)
EXTENDS PyCalls

MCHierarchies ==
  {[A |-> << >>, B |-> <<"A">>, C |-> << >>],
   [A |-> << >>, B |-> << >>, C |-> <<"A", "B">>],
   [A |-> << >>, B |-> <<"A">>, C |-> <<"B">>],
   [A |-> << >>, B |-> <<"outside">>, C |-> <<"A", "B">>]}
Main == <<"m", "main">>
Test == <<"t", "test">>
MCDefSets ==
  {{Main, Test, <<"A", "f">>} \cup gs \cup ctors :
     gs \in SUBSET {<<"m", "g">>, <<"A", "g">>, <<"B", "g">>, <<"C", "g">>},
     ctors \in {{}, {<<"A", "ctor">>}, {<<"A", "ctor">>, <<"B", "ctor">>}}}
Site(in, how, name, on, typed) == [in |-> in, how |-> how, name |-> name, on |-> on, typed |-> typed]
MCShapes ==
  {Site(Main, "bare", "g", "m", FALSE), Site(Test, "bare", "g", "m", FALSE)}
  \cup {Site(<<"A", "f">>, "self", "g", "A", typed) : typed \in BOOLEAN}
  \cup {Site(Main, "plain", "g", on, typed) : on \in {"A", "outside"}, typed \in BOOLEAN}
  \cup {Site(Main, "plain", "g", "C", TRUE), Site(Test, "plain", "g", "B", TRUE),
        Site(<<"A", "g">>, "plain", "g", "B", TRUE)}
  \cup {Site(Main, "chain", "g", "A", typed) : typed \in BOOLEAN}
  \cup {Site(Main, "new", "ctor", "C", FALSE)}
MCModuleOf == [o \in {"A", "B", "C", "m", "t"} |-> IF o = "t" THEN "t" ELSE "m"]
MCMarkSets ==
  {{}, {<<<<"m", "g">>, "reference-escape">>}} \cup
  {{<<<<"B", "g">>, m>>} :
     m \in {"published", "reference-escape", "dynamic-access", "unknown-decorator", "stored",
            "entry-point", "valued", "shadowed"}}
MCHotRoots == {Main}
=============================================================================
