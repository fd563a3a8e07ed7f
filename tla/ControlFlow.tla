------------------------------ MODULE ControlFlow ------------------------------
(***************************************************************************)
(* The flow analysis (src/Syntax/control_flow.c): whether the end of a     *)
(* function can be reached, and which statements cannot.  For a statement  *)
(* it computes whether control stops in it, whether it stops by returning, *)
(* and the statements it warns about.                                      *)
(***************************************************************************)
EXTENDS SyntaxTree, SequencesExt

Flow(returns, stops, warned) == [returns |-> returns, stops |-> stops, warned |-> warned]

Goes == Flow(FALSE, FALSE, {})

collectGotoTargets(f) == {n.name : n \in {m \in Subtrees(f) : m.type = "goto"}}

RECURSIVE collectOwnedSwitchCases(_), conditionlessLoopMayExit(_, _, _)

\* The cases of a switch in source order, an outer one before the ones in
\* its statements; a nested switch keeps its own.
collectOwnedSwitchCases(n) ==
    LET inner == FoldLeft(LAMBDA s, k : s \o collectOwnedSwitchCases(k), <<>>, n.kids)
    IN  CASE n.type = "case" -> <<n>> \o inner
          [] n.type \in {"block", "if", "while", "do", "for", "label"} -> inner
          [] OTHER -> <<>>

\* Whether a loop without a condition can be left: by a break of its own, or
\* by any goto.
conditionlessLoopMayExit(n, loops, switches) ==
    CASE n.type = "break" -> loops = 0 /\ switches = 0
      [] n.type = "goto" -> TRUE
      [] n.type \in {"while", "do", "for"} ->
             \E i \in DOMAIN n.kids : conditionlessLoopMayExit(n.kids[i], loops + 1, switches)
      [] n.type = "switch" ->
             \E i \in DOMAIN n.kids : conditionlessLoopMayExit(n.kids[i], loops, switches + 1)
      [] n.type \in {"block", "if", "case", "label"} ->
             \E i \in DOMAIN n.kids : conditionlessLoopMayExit(n.kids[i], loops, switches)
      [] OTHER -> FALSE

RECURSIVE checkStatement(_, _)

\* Faulty variant: a label does not make the rest reachable.
checkStatementList_labels(list, ctx) ==
    LET Step(a, n) ==
            LET report == ~a.reachable /\ ~ctx.suppressUnreachable /\ ~a.reported
                flow == checkStatement(n, [ctx EXCEPT !.reachable = a.reachable,
                                                      !.suppressUnreachable = ~a.reachable])
            IN  [reachable |-> a.reachable /\ ~flow.stops,
                 sawReturn |-> a.sawReturn \/ (a.reachable /\ flow.stops /\ flow.returns),
                 reported |-> ~a.reachable /\ (a.reported \/ report),
                 warned |-> a.warned \cup flow.warned \cup (IF report THEN {n.at} ELSE {})]
        end == FoldLeft(Step, [reachable |-> ctx.reachable, sawReturn |-> FALSE, reported |-> FALSE,
                               warned |-> {}], list)
    IN  Flow(~end.reachable /\ end.sawReturn, ~end.reachable, end.warned)

\* The statements of a list in turn.  A label that some goto names makes
\* the rest reachable again; only the first statement of a dead region is
\* reported.
checkStatementList(list, ctx) ==
    LET Step(a, n) ==
            LET live == a.reachable \/ (n.type = "label" /\ n.name \in ctx.targets)
                report == ~live /\ ~ctx.suppressUnreachable /\ ~a.reported
                flow == checkStatement(n, [ctx EXCEPT !.reachable = live, !.suppressUnreachable = ~live])
            IN  [reachable |-> live /\ ~flow.stops,
                 sawReturn |-> a.sawReturn \/ (live /\ flow.stops /\ flow.returns),
                 reported |-> ~live /\ (a.reported \/ report),
                 warned |-> a.warned \cup flow.warned \cup (IF report THEN {n.at} ELSE {})]
        end == FoldLeft(Step, [reachable |-> ctx.reachable, sawReturn |-> FALSE, reported |-> FALSE,
                               warned |-> {}], list)
    IN  Flow(~end.reachable /\ end.sawReturn, ~end.reachable, end.warned)

\* Faulty variant: a switch without a default counts as exhaustive.
checkSwitch_default(n, ctx) ==
    LET cases == FoldLeft(LAMBDA s, k : s \o collectOwnedSwitchCases(k), <<>>, Tail(n.kids))
        flow == [i \in DOMAIN cases |-> checkStatementList(cases[i].kids, ctx)]
        stops == ctx.reachable /\ cases # <<>> /\ \A i \in DOMAIN cases : flow[i].returns
    IN  Flow(stops, stops, UNION {flow[i].warned : i \in DOMAIN cases})

\* A case that does not stop goes on to the next one; the switch stops when
\* it has a default and every case ends in a return.
checkSwitch(n, ctx) ==
    LET cases == FoldLeft(LAMBDA s, k : s \o collectOwnedSwitchCases(k), <<>>, Tail(n.kids))
        inner == [ctx EXCEPT !.suppressUnreachable = ~ctx.reachable]
        flow == [i \in DOMAIN cases |-> checkStatementList(cases[i].kids, inner)]
        chain[i \in 1 .. Len(cases) + 1] ==
            CASE i > Len(cases) -> Goes
              [] i <= Len(cases) /\ flow[i].stops -> flow[i]
              [] OTHER -> chain[i + 1]
        dead == ~ctx.reachable /\ ~ctx.suppressUnreachable
        stops == /\ ctx.reachable
                 /\ \E i \in DOMAIN cases : cases[i].name = "default"
                 /\ \A i \in DOMAIN cases : chain[i].returns
    IN  Flow(stops, stops, UNION {flow[i].warned : i \in DOMAIN cases}
                               \cup (IF dead THEN {cases[i].at : i \in DOMAIN cases} ELSE {}))

checkStatement(n, ctx) ==
    LET body == checkStatement(n.kids[Len(n.kids)], ctx)
        then == checkStatement(n.kids[2], ctx)
        else == checkStatement(n.kids[3], ctx)
        endless == n.kids[2] = Null /\ n.kids[3] = Null
                       /\ (body.returns \/ ~conditionlessLoopMayExit(n.kids[4], 0, 0))
    IN  CASE n.type \in {"block", "case"} -> checkStatementList(n.kids, ctx)
          [] n.type = "if" ->
                 Flow(then.returns /\ else.returns, then.stops /\ else.stops, then.warned \cup else.warned)
          [] n.type \in {"while", "do"} -> Flow(FALSE, FALSE, body.warned)
          [] n.type = "for" -> Flow(endless, endless, body.warned)
          [] n.type = "switch" -> checkSwitch(n, ctx)
          [] n.type = "return" -> Flow(TRUE, TRUE, {})
          [] n.type \in {"break", "continue", "goto"} -> Flow(FALSE, TRUE, {})
          [] n.type = "label" -> body
          [] OTHER -> Goes

\* The analysis of a function body f.
analyzeControlFlow(f) ==
    checkStatement(f, [reachable |-> TRUE, suppressUnreachable |-> FALSE,
                       targets |-> collectGotoTargets(f)])
===============================================================================
