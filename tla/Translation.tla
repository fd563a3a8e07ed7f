----------------------------- MODULE Translation -----------------------------
(***************************************************************************)
(* A function on its way through the compiler: parsed, analysed, lowered   *)
(* to basic blocks, and the blocks executed side by side with the text the *)
(* way C executes it (StatementText).  A text that is an expression is     *)
(* only parsed.                                                            *)
(***************************************************************************)
EXTENDS StatementParser, StatementChecks, ControlFlow, ControlLowering, StatementText

CONSTANT Texts  \* the functions and the expressions that are compiled

VARIABLES
    text,   \* the tree the programmer wrote, with the places of its tokens
    stage,  \* "written", "parsed", "analysed", "lowered", "done",
            \* or "unparsed", "rejected"
    ast,    \* the tree the parser built
    errors, \* the errors of the semantic passes
    warned, \* the statements reported as unreachable
    code,   \* the lowered function
    pc,     \* where its execution stands
    todo    \* what is left to do of the text

vars == <<text, stage, ast, errors, warned, code, pc, todo>>

IsFunction(t) == t.type = "block"

Words(t) == Spelt(t)

NoCode == [blocks |-> <<>>, broken |-> FALSE]
NoPlace == [block |-> 0, index |-> 0, value |-> ""]

Init ==
    /\ text \in Texts
    /\ stage = "written"
    /\ ast = Null
    /\ errors = {}
    /\ warned = {}
    /\ code = NoCode
    /\ pc = NoPlace
    /\ todo = <<>>

Parse ==
    LET w == Words(text)
        p == IF IsFunction(text) THEN parseBlock(w, 1, 0) ELSE parseExpression(w, 1)
    IN  /\ stage = "written"
        /\ stage' = IF p.diag \/ p.node = Null \/ p.at # Len(w) + 1 THEN "unparsed" ELSE "parsed"
        /\ ast' = p.node
        /\ UNCHANGED <<text, errors, warned, code, pc, todo>>

\* The passes over the tree of a function that returns a value; the compiler
\* goes on only without an error.
Analyze ==
    /\ stage = "parsed"
    /\ IsFunction(text)
    /\ \E junk \in SUBSET Unwritten(ast) :
         LET flow == analyzeControlFlow(ast)
         IN  /\ errors' = analyzeFunctionBody(ast).errors \cup validateGotoScopes(ast, junk)
                             \cup (IF flow.stops THEN {} ELSE {<<ast.at, "control reaches end">>})
             /\ warned' = flow.warned
    /\ stage' = IF errors' = {} THEN "analysed" ELSE "rejected"
    /\ UNCHANGED <<text, ast, code, pc, todo>>

-------------------------------------------------------------------------------
(* Execution.  Both sides are kept where something is to be seen: an       *)
(* operand is evaluated, with any of the Values, or the function returns.  *)

Event(kind, at) == [kind |-> kind, at |-> at]

\* More silent steps in a row than a text of these sizes has places: it
\* loops without doing anything.
CONSTANT SilentSteps

Values == Numbers \cup {False}

\* The value v once the phi of the block b has been passed coming from the
\* block a; "" if it names no value for that block.
Merged(g, a, b, v) ==
    LET code_ == g.blocks[b].code
        choices == {c \in Head(code_).from : c[1] = a}
        choice == (CHOOSE c \in choices : TRUE)[2]
    IN  CASE code_ = <<>> \/ Head(code_).kind # "phi" -> v
          [] OTHER -> CASE choices = {} -> ""
                        [] choices # {} /\ choice = "value" -> v
                        [] choices # {} /\ choice = "truth" -> IF v = False THEN False ELSE True
                        [] OTHER -> choice

RECURSIVE Reached(_, _, _), Due(_, _, _, _)

\* The blocks followed to where something is to be seen.
Reached(g, p, n) ==
    LET b == g.blocks[p.block]
        here == IF p.index <= Len(b.code) THEN b.code[p.index].kind ELSE b.term.kind
        case == SelectInSeq(b.term.values, LAMBDA v : v = p.value)
        target == CASE here = "br" -> b.term.to[1]
                    [] here = "condbr" -> b.term.to[IF p.value = False THEN 2 ELSE 1]
                    [] here = "cmp" -> b.term.to[IF case = 0 THEN 2 ELSE 1]
                    [] here = "switch" -> b.term.to[case + 1]
    IN  CASE n = 0 -> NoPlace
          [] n > 0 /\ here = "phi" -> Reached(g, [p EXCEPT !.index = @ + 1], n - 1)
          [] n > 0 /\ here = "not" ->
                 Reached(g, [p EXCEPT !.index = @ + 1, !.value = IF @ = False THEN True ELSE False], n - 1)
          [] n > 0 /\ here \in {"br", "condbr", "cmp", "switch"} ->
                 Reached(g, [block |-> target, index |-> 1, value |-> Merged(g, p.block, target, p.value)], n - 1)
          [] OTHER -> [p EXCEPT !.value = ""]

\* The same for what is left of the text f.
Due(f, k, v, n) ==
    LET s == Silent(f, k, v)
    IN  CASE n = 0 -> <<Node("spin", 0, "", <<>>)>>
          [] n > 0 /\ Visible(k) -> k
          [] OTHER -> Due(f, s.todo, s.value, n - 1)

CodeEvent(g, p) ==
    LET b == g.blocks[p.block]
    IN  CASE p = NoPlace -> Event("spin", 0)
          [] p # NoPlace /\ p.index <= Len(b.code) -> Event(b.code[p.index].kind, b.code[p.index].at)
          [] OTHER -> Event(b.term.kind, b.term.at)

TextEvent(k) ==
    LET n == Head(k)
    IN  CASE k = <<>> -> Event("ret", 0)
          [] k # <<>> /\ n.type = "expr" -> Event("eval", n.at)
          [] k # <<>> /\ n.type = "returned" -> Event("ret", n.at)
          [] k # <<>> /\ n.type = "spin" -> Event("spin", 0)

Lower ==
    /\ stage = "analysed"
    /\ stage' = "lowered"
    /\ code' = codegenFunctionDefinition(ast)
    /\ pc' = Reached(code', [block |-> 1, index |-> 1, value |-> ""], SilentSteps)
    /\ todo' = Due(text, <<text>>, "", SilentSteps)
    /\ UNCHANGED <<text, ast, errors, warned>>

Evaluate ==
    /\ stage = "lowered"
    /\ CodeEvent(code, pc).kind = "eval"
    /\ TextEvent(todo).kind = "eval"
    /\ \E v \in Values :
         /\ pc' = Reached(code, [pc EXCEPT !.index = @ + 1, !.value = v], SilentSteps)
         /\ todo' = Due(text, Tail(todo), v, SilentSteps)
    /\ UNCHANGED <<text, stage, ast, errors, warned, code>>

Return ==
    /\ stage = "lowered"
    /\ CodeEvent(code, pc).kind = "ret"
    /\ stage' = "done"
    /\ UNCHANGED <<text, ast, errors, warned, code, pc, todo>>

Next == Parse \/ Analyze \/ Lower \/ Evaluate \/ Return

Spec == Init /\ [][Next]_vars

-------------------------------------------------------------------------------

(* Properties.  The shapes named in the conditions (Buried, HiddenBreak,   *)
(* NestedMark, ArrayInSwitch, deep nesting of switches) are those the       *)
(* compiler is known to treat otherwise; StatementText defines them.        *)

\* A function is parsed unless a case stands where the parser of statements
\* does not take one, and an expression becomes the tree its writer meant:
\* the binding powers of the Pratt parser give C's precedence and
\* associativity (parseExpressionPratt, parseStatement).
ParsedAsWritten ==
    /\ stage = "unparsed" => StrayCase(text)
    /\ stage = "parsed" /\ ~IsFunction(text) => Form(ast) = Form(text)

\* The walk over the statements reports exactly the places the language
\* forbids: break and continue outside a loop or switch, a case value or a
\* default given twice in one switch however deep the cases are nested, a
\* case that enters the scope of an array, a label in front of a
\* declaration (analyzeStatementInternal with its stack of switch frames).
ConstraintsDiagnosed ==
    stage \in {"analysed", "rejected"} /\ SwitchDepth(text) <= SWITCH_STACK_MAX
      /\ ~ArrayInSwitch(text) =>
        {e[1] : e \in {d \in errors : d[2] \notin {"goto", "control reaches end"}}} = Forbidden(text)

\* A goto to a label of its own block, or to one outside it, is rejected
\* exactly when it enters the scope of an array or its label is missing,
\* whatever the uninitialised entries of the table of blocks hold
\* (validateGotoScopes).
GotosDiagnosed ==
    stage \in {"analysed", "rejected"} /\ ~ArrayInSwitch(text) =>
        {e[1] : e \in {d \in errors : d[2] = "goto"}} \cap NearGotos(text)
            = ForbiddenGotos(text) \cap NearGotos(text)

\* For every value of every operand, the lowered function evaluates the
\* operands in the order of the text, returns where the text returns and
\* loops forever only where the text does: break, continue, fallthrough,
\* goto, the short-circuit operators and the two ways of dispatching a
\* switch lead to the right block (codegen_control_flow.c).
LoweringFollowsText == stage = "lowered" /\ ~Buried(text) => CodeEvent(code, pc) = TextEvent(todo)

\* Every block of the lowered function has one terminator and nothing behind
\* it, as codegenFunctionDefinition promises ("Ensure function IR is always
\* well-formed").
WellFormedCode ==
    stage = "lowered" /\ ~Buried(text) =>
        /\ ~code.broken
        /\ \A b \in DOMAIN code.blocks : code.blocks[b].term # Open

\* A function that returns a value and passes the flow analysis never
\* reaches its end when it is executed (analyzeControlFlow).
ReturnsOnEveryPath ==
    stage = "lowered" /\ ~Buried(text) /\ ~HiddenBreak(text) => todo # <<>>

\* No execution evaluates an operand of a statement that was reported as
\* unreachable (checkStatementList, checkSwitch).
WarnedNeverRuns ==
    stage = "lowered" /\ ~Buried(text) /\ ~NestedMark(text) /\ ~HiddenBreak(text)
      /\ TextEvent(todo).kind = "eval" =>
        \A n \in Subtrees(text) : n.at \in warned => TextEvent(todo).at \notin {m.at : m \in Subtrees(n)}
===============================================================================
