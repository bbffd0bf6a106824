----------------------------- MODULE MCEngines ------------------------------
EXTENDS Engines

P1 == "plan"            \* "plan.pdf", of three fragments, then of one
P2 == "note"            \* "note", of one fragment, then of none
MCDocs == {P1, P2}
MCPartCount == (P1 :> <<3, 1>>) @@ (P2 :> <<1, 0>>)
MCOneToken == {P2}

Alone(name) == [name |-> name, multi |-> FALSE]
Shared(name) == [name |-> name, multi |-> TRUE]
In(one, two) == (P1 :> one) @@ (P2 :> two)
Case(instance, folder, ops, calls, changes) ==
    [instance |-> instance, folder |-> folder, ops |-> ops, calls |-> calls, changes |-> changes]

MCScenarios ==
    { Case(Alone(<<"a", "-", "1">>), In(<<>>, <<>>), {"change", "reindex", "delete"}, 1, 2),
      Case(Alone(<<"a">>), In(<<>>, <<>>), {"change", "delete", "export", "import"}, 2, 1),
      Case(Alone(<<"a">>), In(<<>>, <<>>), {"search"}, 0, 1),
      Case(Shared(<<"A">>), In(<<"a">>, <<"1", "#">>), {"change", "reindex", "delete"}, 1, 2),
      Case(Shared(<<"A">>), In(<<"#">>, <<"space", "A">>), {"change", "delete"}, 1, 2) }

\* The installer accepts a name that begins with a digit.
DigitScenarios ==
    { Case(Alone(<<"1", "a">>), In(<<>>, <<>>), {"change"}, 0, 2) }

MCSecondary(c) == c = <<P1, 2>> \/ c = <<P2, 1>>
MCIsToc(c) == c = <<P1, 3>>
=============================================================================
