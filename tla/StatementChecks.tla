--------------------------- MODULE StatementChecks ----------------------------
(***************************************************************************)
(* The semantic checks on the statements of a function that returns a      *)
(* value: the walk that checks jumps, labels and cases                     *)
(* (src/Syntax/analyze_stmt.c), the check of goto against scopes           *)
(* (analyze_stmt_goto.c), and the flow analysis that looks for a missing   *)
(* return (control_flow.c).  Types are left out: a case value is the       *)
(* constant it is written as.                                              *)
(***************************************************************************)
EXTENDS SyntaxTree, SequencesExt, FiniteSetsExt

CONSTANT SWITCH_STACK_MAX

ASSUME SwitchStackAssumption == SWITCH_STACK_MAX \in Nat \ {0}

-------------------------------------------------------------------------------
(* The walk.  Its state: one frame per switch being analysed, one entry    *)
(* per scope saying whether an array was declared in it, the labels seen,  *)
(* and the errors.                                                         *)

NewFrame(st) == [values |-> {}, hasDefault |-> FALSE, scope |-> Len(st.scopes)]

\* With the stack full no frame is pushed ...
pushSwitchFrame(st) ==
    IF Len(st.frames) >= SWITCH_STACK_MAX THEN st
    ELSE [st EXCEPT !.frames = Append(@, NewFrame(st))]

\* ... and one is popped all the same.
popSwitchFrame(st) == IF st.frames = <<>> THEN st ELSE [st EXCEPT !.frames = Front(@)]

Error(st, n, what) == [st EXCEPT !.errors = @ \cup {<<n.at, what>>}]

ErrorIf(st, bad, n, what) == IF bad THEN Error(st, n, what) ELSE st

\* Scopes inside the one the switch was written in hold an array.
variablyModifiedNameBetweenScopes(st) ==
    \E i \in Last(st.frames).scope + 1 .. Len(st.scopes) : st.scopes[i]

isDeclarationStatementType(n) == n.type = "vla"

\* Faulty variant: only the last value of a switch is kept.
RecordCase_forgetting(st, n) ==
    LET f == Last(st.frames)
    IN  CASE st.frames = <<>> -> st
          [] st.frames # <<>> /\ n.name = "default" ->
                 ErrorIf([st EXCEPT !.frames[Len(st.frames)].hasDefault = TRUE],
                         f.hasDefault, n, "duplicate default")
          [] OTHER -> ErrorIf([st EXCEPT !.frames[Len(st.frames)].values = {n.name}],
                              n.name \in f.values, n, "duplicate case")

\* A case or default is recorded in the innermost frame; outside a switch
\* it is not recorded at all.
RecordCase(st, n) ==
    LET f == Last(st.frames)
    IN  CASE st.frames = <<>> -> st
          [] st.frames # <<>> /\ n.name = "default" ->
                 ErrorIf([st EXCEPT !.frames[Len(st.frames)].hasDefault = TRUE],
                         f.hasDefault, n, "duplicate default")
          [] OTHER -> ErrorIf([st EXCEPT !.frames[Len(st.frames)].values = @ \cup {n.name}],
                              n.name \in f.values, n, "duplicate case")

RECURSIVE analyzeStatementInternal(_, _, _), AnalyzeAll(_, _, _)

AnalyzeAll(st, list, loopDepth) ==
    IF list = <<>> THEN st
    ELSE AnalyzeAll(analyzeStatementInternal(st, Head(list), loopDepth), Tail(list), loopDepth)

InInnerScope(st, declares, list, loopDepth) ==
    LET inner == AnalyzeAll([st EXCEPT !.scopes = Append(@, declares)], list, loopDepth)
    IN  [inner EXCEPT !.scopes = Front(@)]

analyzeStatementInternal(st, n, loopDepth) ==
    CASE n.type = "if" -> AnalyzeAll(st, SelectSeq(Tail(n.kids), LAMBDA k : k # Null), loopDepth)
      [] n.type = "for" ->
             InInnerScope(st, n.kids[1].type = "vla", <<n.kids[4]>>, loopDepth + 1)
      [] n.type \in {"while", "do"} -> AnalyzeAll(st, <<n.kids[2]>>, loopDepth + 1)
      [] n.type = "block" -> InInnerScope(st, FALSE, n.kids, loopDepth)
      [] n.type = "return" -> ErrorIf(st, n.kids[1] = Null, n, "no value")
      [] n.type = "break" ->
             ErrorIf(st, loopDepth = 0 /\ st.frames = <<>>, n, "break outside")
      [] n.type = "continue" -> ErrorIf(st, loopDepth = 0, n, "continue outside")
      [] n.type = "switch" ->
             popSwitchFrame(AnalyzeAll(pushSwitchFrame(st), Tail(n.kids), loopDepth))
      [] n.type = "case" ->
             LET scoped == ErrorIf(st, st.frames # <<>> /\ variablyModifiedNameBetweenScopes(st),
                                   n, "case enters scope")
                 placed == ErrorIf(scoped, n.kids # <<>> /\ isDeclarationStatementType(n.kids[1]),
                                   n, "label before declaration")
             IN  AnalyzeAll(RecordCase(placed, n), n.kids, loopDepth)
      [] n.type = "label" ->
             LET known == [st EXCEPT !.labels = @ \cup {n.name}]
                 placed == ErrorIf(known, isDeclarationStatementType(n.kids[1]), n,
                                   "label before declaration")
             IN  IF n.kids[1] = Null THEN known ELSE AnalyzeAll(placed, n.kids, loopDepth)
      [] n.type = "vla" -> [st EXCEPT !.scopes[Len(st.scopes)] = TRUE]
      [] OTHER -> st

\* The parameters and the outermost block share one scope.
analyzeFunctionBody(f) ==
    AnalyzeAll([frames |-> <<>>, scopes |-> <<FALSE>>, labels |-> {}, errors |-> {}], f.kids, 0)

-------------------------------------------------------------------------------
(***************************************************************************)
(* The check of goto against the scopes of variable-length arrays          *)
(* (src/Syntax/analyze_stmt_goto.c).  A walk collects the blocks, with the *)
(* places in them where an array is declared, the labels and the gotos;    *)
(* then every goto is compared with the first label of its name.           *)
(*                                                                         *)
(* blockInitInfoAdd takes its entry from realloc and sets every field but  *)
(* entryHasVLA, which blockPathEntersVLA reads: what it finds there is the *)
(* parameter junk, the set of blocks whose entry happens to read as true.  *)
(***************************************************************************)
\* A block's identity; the block the parser puts around the statement of a
\* for loop starts at the same token.
Id(n) == <<n.at, n.name>>

NoBlock == <<0, "">>

Nothing == [blocks |-> <<>>, vlas |-> {}, entries |-> {}, labels |-> <<>>, gotos |-> <<>>]

Both(a, b) ==
    [blocks |-> a.blocks \o b.blocks, vlas |-> a.vlas \cup b.vlas,
     entries |-> a.entries \cup b.entries, labels |-> a.labels \o b.labels,
     gotos |-> a.gotos \o b.gotos]

Place(n, block, index, direct) ==
    [name |-> n.name, at |-> n.at, block |-> block, index |-> index, direct |-> direct]

RECURSIVE collectGotoInfoFromStatement(_, _, _, _)

Collected(list, block, index) ==
    FoldLeft(LAMBDA a, n : Both(a, collectGotoInfoFromStatement(n, block, index, FALSE)), Nothing, list)

collectGotoInfoFromBlock(n, parent) ==
    LET own == [Nothing EXCEPT !.blocks = <<[block |-> Id(n), parent |-> parent]>>,
                               !.vlas = {<<Id(n), i>> : i \in {j \in DOMAIN n.kids : n.kids[j].type = "vla"}}]
    IN  FoldLeft(LAMBDA a, i : Both(a, collectGotoInfoFromStatement(n.kids[i], Id(n), i, TRUE)), own,
                 [i \in DOMAIN n.kids |-> i])

collectGotoInfoFromStatement(n, block, index, direct) ==
    CASE n.type = "block" -> collectGotoInfoFromBlock(n, block)
      [] n.type = "if" -> Collected(Tail(n.kids), block, index)
      [] n.type = "for" ->
             LET declares == n.kids[1].type = "vla"
             IN  Both([Nothing EXCEPT !.vlas = IF declares THEN {<<block, index>>} ELSE {},
                                      !.entries = IF declares THEN {Id(n.kids[4])} ELSE {}],
                      Collected(<<n.kids[4]>>, block, index))
      [] n.type \in {"while", "do"} -> Collected(<<n.kids[2]>>, block, index)
      [] n.type = "switch" -> Collected(Tail(n.kids), block, index)
      [] n.type = "case" -> Collected(n.kids, block, index)
      [] n.type = "label" ->
             Both([Nothing EXCEPT !.labels = <<Place(n, block, index, direct)>>],
                  Collected(n.kids, block, index))
      [] n.type = "goto" -> [Nothing EXCEPT !.gotos = <<Place(n, block, index, direct)>>]
      [] OTHER -> Nothing

Parent(info, b) == LET i == SelectInSeq(info.blocks, LAMBDA r : r.block = b) IN info.blocks[i].parent

RECURSIVE blockIsDescendant(_, _, _), blockPathEntersVLA(_, _, _, _)

blockIsDescendant(info, b, ancestor) ==
    b = ancestor \/ (b # NoBlock /\ blockIsDescendant(info, Parent(info, b), ancestor))

blockPathEntersVLA(info, b, ancestor, junk) ==
    /\ b \notin {NoBlock, ancestor}
    /\ b \in info.entries \cup junk \/ blockPathEntersVLA(info, Parent(info, b), ancestor, junk)

\* Faulty variant: the statement behind the goto is not looked at.
blockHasInitBetween_behind(info, b, start, end) == \E i \in start + 2 .. end : <<b, i>> \in info.vlas

blockHasInitBetween(info, b, start, end) == \E i \in start + 1 .. end : <<b, i>> \in info.vlas

blockHasVLABefore(info, b, end) == \E i \in 1 .. end - 1 : <<b, i>> \in info.vlas

\* The errors for the function f: gotos without a label, and gotos that are
\* taken to enter the scope of an array.
validateGotoScopes(f, junk) ==
    LET info == collectGotoInfoFromBlock(f, NoBlock)
        Target(g) == SelectInSeq(info.labels, LAMBDA l : l.name = g.name)
        Enters(g, l) ==
            IF l.block = g.block
            THEN g.index < l.index /\ blockHasInitBetween(info, l.block, g.index, l.index)
            ELSE /\ blockIsDescendant(info, l.block, g.block)
                 /\ \/ blockPathEntersVLA(info, l.block, g.block, junk)
                    \/ blockHasVLABefore(info, l.block, l.index)
        Bad(g) == Target(g) = 0 \/ Enters(g, info.labels[Target(g)])
    IN  {<<info.gotos[i].at, "goto">> : i \in {j \in DOMAIN info.gotos : Bad(info.gotos[j])}}

\* The blocks whose entryHasVLA is never written.
Unwritten(f) ==
    LET info == collectGotoInfoFromBlock(f, NoBlock)
    IN  {info.blocks[i].block : i \in DOMAIN info.blocks} \ info.entries
===============================================================================
