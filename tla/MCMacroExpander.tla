--------------------------- MODULE MCMacroExpander ---------------------------
(***************************************************************************)
(* Macro definitions and chunks for the model checker.                     *)
(***************************************************************************)
EXTENDS MacroReference

Names == {"A", "B", "f", "g"}

Identifiers ==
    Names \cup {"x", "xA", "y", "__VA_ARGS__", "__VA_OPT__", "__COUNTER__", "__FILE__", "_Pragma"}

Spellings ==
    [p \in {<<"x", "A">>, <<"A", "x">>, <<"x", "1">>, <<"x", "x">>} |->
        CASE p = <<"x", "A">> -> "xA"
          [] p = <<"A", "x">> -> "A"
          [] p = <<"x", "1">> -> "x1"
          [] p = <<"x", "x">> -> "xx"]

PasteOf(l, r) == IF <<l, r>> \in DOMAIN Spellings THEN Spellings[<<l, r>>] ELSE "invalid"

Object(body) == DefinitionOf("object", <<>>, FALSE, body)
Function(params, body) == DefinitionOf("function", params, FALSE, body)
Variadic(params, body) == DefinitionOf("function", params, TRUE, body)

UnitOf(ds, cs) == [directives |-> ds, chunks |-> cs]

Definitions(units) == UNION {{d[2] : d \in u.directives} : u \in units}

-------------------------------------------------------------------------------
\* Rescanning: object-like macros that name themselves, each other and a
\* function-like macro.
ObjectDirectives ==
    { <<"A", Object(<<"A", "x">>)>>,
      <<"A", Object(<<"B">>)>>,
      <<"A", Object(<<"f">>)>>,
      <<"B", Object(<<"A", "1">>)>>,
      <<"f", Function(<<"x">>, <<"x">>)>> }

ObjectChunks == {<<"A", ";", "B">>, <<"A", "(", "1", ")">>}

\* Rescanning: calls of calls, calls that end behind a replacement, calls
\* with a wrong number of arguments, and names that are not calls.
CallDirectives ==
    { <<"A", Object(<<"f">>)>>,
      <<"f", Function(<<"x">>, <<"x">>)>>,
      <<"f", Function(<<"x">>, <<"g", "(", "x", ")">>)>>,
      <<"g", Function(<<"x">>, <<"f">>)>>,
      <<"g", Function(<<"x">>, <<"x", "x">>)>> }

CallChunks ==
    { <<"A", "(", "1", ")">>,
      <<"g", "(", "1", ")", "(", "2", ")">>,
      <<"f", "(", "g", "(", "1", ")", ")">>,
      <<"f", "(", "f", "(", "1", ",", "2", ")", ")">>,
      <<"f", ";", "g", "(", "1">> }

-------------------------------------------------------------------------------
\* Substitution: #, ##, variable arguments, and the calls that are refused.
OperatorDirectives ==
    { <<"A", Object(<<"x", "##", "1">>)>>,
      <<"A", Object(<<"1">>)>>,
      <<"f", Function(<<"x", "y">>, <<"x", "##", "y">>)>>,
      <<"f", Function(<<"x">>, <<"#", "x", "x">>)>>,
      <<"f", Function(<<>>, <<"A">>)>>,
      <<"g", Variadic(<<"x">>, <<"x", "__VA_OPT__", "(", "+", "__VA_ARGS__", ")">>)>>,
      <<"g", Variadic(<<>>, <<"f", "(", "__VA_ARGS__", ")">>)>>,
      <<"g", Variadic(<<"x">>, <<"x", ",", "##", "__VA_ARGS__">>)>> }

OperatorChunks ==
    { <<"f", "(", "x", ",", "1", ")", "A">>,
      <<"f", "(", "A", ",", "x", ")">>,
      <<"f", "(", "(", "1", ",", "A", ")", ")">>,
      <<"f", "(", "x", ",", "+", ")">>,
      <<"f", "(", ")">>,
      <<"g", "(", "1", ")">>,
      <<"g", "(", "A", ",", "f", "(", "A", ")", ",", "x", ")">>,
      <<"__FILE__", "_Pragma", "(", StringLiteral, ")", "@", "A", "_Pragma">> }

ComparedUnits == { UnitOf(ObjectDirectives, ObjectChunks),
                   UnitOf(CallDirectives, CallChunks),
                   UnitOf(OperatorDirectives, OperatorChunks) }

-------------------------------------------------------------------------------
\* The limit of the expansion stack: nested deeper than the three macros of
\* the units above.
LimitDirectives ==
    { <<"A", Object(<<"B">>)>>,
      <<"B", Object(<<"f", "(", "1", ")">>)>>,
      <<"B", Object(<<"__COUNTER__">>)>>,
      <<"B", Object(<<"g", "(", "f", "(", ")", ")">>)>>,
      <<"f", Function(<<"x">>, <<"g", "(", "A", ")">>)>>,
      <<"f", Function(<<"x">>, <<"g">>)>>,
      <<"f", Function(<<"x">>, <<"g", "(", "x", ")", "g", "(", "1", ",", "x", ")">>)>>,
      <<"g", Function(<<"x">>, <<"x">>)>>,
      <<"g", Function(<<"x", "y">>, <<"A">>)>>,
      <<"g", Function(<<"x">>, <<"g">>)>> }

LimitChunks ==
    { <<"A">>,
      <<"f", "(", "B", ")", "(", "A", ")", "(", "1", ")">>,
      <<"f", "(", "1", ")", "(", "B", ")">>,
      <<"g", "(", "f", "(", "A", ")", ")">> }

LimitUnits == {UnitOf(LimitDirectives, LimitChunks)}

ExpansionUnits == ComparedUnits \cup LimitUnits
ExpansionDefinitions == Definitions(ExpansionUnits)

==============================================================================
