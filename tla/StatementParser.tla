--------------------------- MODULE StatementParser ----------------------------
(***************************************************************************)
(* The parsers of expressions and statements.  A function that cannot go   *)
(* on returns NULL where it stands, sometimes without a diagnostic, and    *)
(* its caller tries something else from there or skips to the end of the   *)
(* statement.                                                              *)
(***************************************************************************)
EXTENDS SyntaxTree

(***************************************************************************)
(* The expression parser (src/Parser/Expr/parser_expr_pratt.c): a Pratt    *)
(* parser that climbs by the precedence of the token it stands on.  "x",   *)
(* "y" and the labels are identifiers, "int" is a type name.  GNU          *)
(* statement expressions, compound literals, sizeof and the built-in calls *)
(* that take a type are left out.                                          *)
(***************************************************************************)
Identifiers == {"x", "y", "L", "M"}
Numbers == {"1", "2", "9"}
AssignmentOperators == {"=", "+=", "<<="}
BinaryOperators ==
    {"+", "-", "*", "/", "==", "!=", "<", ">=", "&&", "||", "&", "|", "^", "<<"}
PrefixOperators == {"-", "+", "!", "~", "++", "--", "*", "&"}

isValidExpressionStart(t) == t \in Identifiers \cup Numbers \cup PrefixOperators \cup {"("}

getTokenPrecedence(t) ==
    CASE t = "," -> 0
      [] t \in AssignmentOperators \cup {"||", "?"} -> 1
      [] t = "&&" -> 2
      [] t = "|" -> 3
      [] t = "^" -> 4
      [] t = "&" -> 5
      [] t \in {"==", "!="} -> 6
      [] t \in {"<", ">="} -> 7
      [] t = "<<" -> 8
      [] t \in {"+", "-"} -> 9
      [] t \in {"*", "/"} -> 10
      [] t \in {"(", "[", "."} -> 14
      [] t \in {"++", "--"} -> 15
      [] OTHER -> -1

\* Faulty variant: an operator binds its right operand like its left.
getTokenRightBindingPower_left(t) == getTokenPrecedence(t)

getTokenRightBindingPower(t) ==
    getTokenPrecedence(t) - (IF t \in AssignmentOperators \cup {"?"} THEN 1 ELSE 0)

RECURSIVE parseExpressionPratt(_, _, _), Climb(_, _, _), nud(_, _), led(_, _), Arguments(_, _, _, _, _)

\* The main loop behind the first operand: go on while the token binds
\* tighter than the floor.
Climb(w, left, floor) ==
    IF left.node = Null \/ getTokenPrecedence(Tok(w, left.at)) <= floor THEN left
    ELSE Climb(w, led(w, left), floor)

parseExpressionPratt(w, i, floor) ==
    IF ~isValidExpressionStart(Tok(w, i)) THEN Failed(i, TRUE)
    ELSE Climb(w, nud(w, i), floor)

\* Arguments up to the closing parenthesis; after a comma the call of a
\* plain name (trailing) may close at once.
Arguments(w, i, args, d, trailing) ==
    LET a == parseExpressionPratt(w, i, 0)
        all == Append(args, a.node)
        more == Tok(w, a.at) = "," /\ ~(trailing /\ Tok(w, a.at + 1) = ")")
        close == IF Tok(w, a.at) = "," /\ ~more THEN a.at + 1 ELSE a.at
    IN  CASE a.node = Null -> [args |-> <<>>, at |-> a.at, diag |-> TRUE, ok |-> FALSE]
          [] more -> Arguments(w, a.at + 1, all, d \/ a.diag, trailing)
          [] OTHER -> [args |-> all, at |-> close, diag |-> d \/ a.diag, ok |-> TRUE]

\* The call whose arguments ended as r says.
CallOf(w, callee, r) ==
    IF r.ok /\ Tok(w, r.at) = ")"
    THEN Parsed(Node("call", callee.at, "", <<callee>> \o r.args), r.at + 1, r.diag)
    ELSE Failed(r.at, TRUE)

\* parseFunctionCallPratt and ledFunctionCall; i is the place behind "(".
Call(w, callee, i, d, trailing) ==
    CallOf(w, callee, IF Tok(w, i) = ")" THEN [args |-> <<>>, at |-> i, diag |-> d, ok |-> TRUE]
                      ELSE Arguments(w, i, <<>>, d, trailing))

\* An expression that starts with the token at i.
nud(w, i) ==
    LET t == Tok(w, i)
        leaf == Node("expr", i, t, <<>>)
        operand == parseExpressionPratt(w, i + 1, 11)
        inner == parseExpressionPratt(w, i + 1, -1)
        cast == parseExpressionPratt(w, i + 3, 11)
        called == t \in Identifiers /\ Tok(w, i + 1) = "("
    IN  CASE called -> Call(w, leaf, i + 2, FALSE, TRUE)
          [] t \in Identifiers \cup Numbers /\ ~called -> Parsed(leaf, i + 1, FALSE)
          [] t \in PrefixOperators ->
                 Parsed(Node("prefix", i, t, <<operand.node>>), operand.at, operand.diag)
          [] t = "(" /\ Tok(w, i + 1) = "int" /\ Tok(w, i + 2) = ")" ->
                 IF cast.node = Null THEN Failed(cast.at, TRUE)
                 ELSE Parsed(Node("cast", i, "int", <<cast.node>>), cast.at, cast.diag)
          [] t = "(" /\ Tok(w, i + 1) # "int" ->
                 IF Tok(w, inner.at) # ")" THEN Failed(inner.at, TRUE)
                 ELSE Parsed(inner.node, inner.at + 1, inner.diag)
          [] OTHER -> Failed(i + 1, TRUE)

\* What the operators make of the expression left and of what follows it.
BinaryOf(type, name, left, right) ==
    Parsed(Node(type, left.node.at, name, <<left.node, right.node>>), right.at,
           left.diag \/ right.diag)

IndexOf(w, left, index) ==
    IF index.node = Null \/ Tok(w, index.at) # "]" THEN Failed(index.at, TRUE)
    ELSE [BinaryOf("index", "", left, index) EXCEPT !.at = @ + 1]

CommaOf(left, right) ==
    LET first == IF left.node.type = "comma" THEN left.node.kids ELSE <<left.node>>
    IN  IF right.node = Null THEN Failed(right.at, TRUE)
        ELSE Parsed(Node("comma", left.node.at, "", Append(first, right.node)), right.at,
                    left.diag \/ right.diag)

TernaryOf(left, then, else) ==
    IF else.node = Null THEN else
    ELSE Parsed(Node("ternary", left.node.at, "", <<left.node, then.node, else.node>>), else.at,
                left.diag \/ then.diag \/ else.diag)

\* An expression that goes on with the token behind left.
led(w, left) ==
    LET t == Tok(w, left.at)
        right == parseExpressionPratt(w, left.at + 1, getTokenRightBindingPower(t))
        then == parseExpressionPratt(w, left.at + 1, -1)
    IN  CASE t \in BinaryOperators -> BinaryOf("binary", t, left, right)
          [] t \in AssignmentOperators -> BinaryOf("assign", t, left, right)
          [] t \in {"++", "--"} ->
                 Parsed(Node("postfix", left.node.at, t, <<left.node>>), left.at + 1, left.diag)
          [] t = "(" -> Call(w, left.node, left.at + 1, left.diag, FALSE)
          [] t = "[" -> IndexOf(w, left, parseExpressionPratt(w, left.at + 1, 0))
          [] t = "." ->
                 IF Tok(w, left.at + 1) \notin Identifiers THEN Failed(left.at + 1, TRUE)
                 ELSE Parsed(Node("member", left.node.at, Tok(w, left.at + 1), <<left.node>>),
                             left.at + 2, left.diag)
          [] t = "?" ->
                 CASE then.node = Null -> then
                   [] then.node # Null /\ Tok(w, then.at) # ":" -> Failed(then.at, TRUE)
                   [] OTHER -> TernaryOf(left, then, parseExpressionPratt(w, then.at + 1,
                                                                       getTokenRightBindingPower(t)))
          [] t = "," -> CommaOf(left, right)

-------------------------------------------------------------------------------
(***************************************************************************)
(* The statement parser (src/Parser/parser_main.c, parser_stmt.c and       *)
(* parser_switch.c) with its error paths: a function that cannot go on     *)
(* returns NULL where it stands, sometimes without a diagnostic, and its   *)
(* caller tries something else from there or skips to the end of the       *)
(* statement.  "vla" is a declaration of a variable-length array, the only *)
(* kind of declaration the later passes treat differently from an          *)
(* expression.  Attributes, asm, _Static_assert, the other declarations    *)
(* and statements that define a type are left out.                         *)
(***************************************************************************)
parseExpression(w, i) == parseExpressionPratt(w, i, -1)

parseAssignmentExpression(w, i) == parseExpressionPratt(w, i, 0)

RECURSIVE parserSyncToStatementEnd(_, _, _)

\* Where skipping from i ends: behind the next ";" outside braces opened on
\* the way, or on the "}" that closes the block around.
parserSyncToStatementEnd(w, i, depth) ==
    LET t == Tok(w, i)
    IN  CASE t = "EOF" \/ (t = "}" /\ depth = 0) -> i
          [] t = ";" /\ depth = 0 -> i + 1
          [] t = "{" -> parserSyncToStatementEnd(w, i + 1, depth + 1)
          [] t = "}" /\ depth > 0 -> parserSyncToStatementEnd(w, i + 1, depth - 1)
          [] OTHER -> parserSyncToStatementEnd(w, i + 1, depth)

RECURSIVE SkipBraces(_, _, _)

\* A switch whose ")" is missing skips its body.
SkipBraces(w, i, depth) ==
    LET d == depth + (CASE Tok(w, i) = "{" -> 1 [] Tok(w, i) = "}" -> -1 [] OTHER -> 0)
    IN  IF d > 0 /\ Tok(w, i + 1) # "EOF" THEN SkipBraces(w, i + 1, d) ELSE i + 1

RECURSIVE parseStatement(_, _, _), parseBlockItems(_, _, _, _, _), parseIfStatement(_, _, _),
          AfterItem(_, _, _, _, _), CaseBody(_, _, _, _, _), SwitchBody(_, _, _, _, _)

\* The statements of a block up to its "}"; s is the switchDepth.
parseBlockItems(w, i, s, items, d) ==
    IF Tok(w, i) \in {"}", "EOF"} THEN [items |-> items, at |-> i, diag |-> d]
    ELSE AfterItem(w, parseStatement(w, i, s), s, items, d)

AfterItem(w, p, s, items, d) ==
    IF p.node = Null
    THEN parseBlockItems(w, parserSyncToStatementEnd(w, p.at, 0), s, items, d \/ p.diag)
    ELSE parseBlockItems(w, p.at, s, Append(items, p.node), d \/ p.diag)

\* The block at i with the items b.
BlockOf(w, i, b) ==
    Parsed(Node("block", i, "", b.items), IF Tok(w, b.at) = "}" THEN b.at + 1 ELSE b.at, b.diag)

parseBlock(w, i, s) ==
    IF Tok(w, i) # "{" THEN Failed(i, FALSE)
    ELSE BlockOf(w, i, parseBlockItems(w, i + 1, s, <<>>, FALSE))

\* An expression statement; a comma expression becomes a block.
ExpressionOf(w, i, e) ==
    CASE e.node = Null -> e
      [] e.node # Null /\ Tok(w, e.at) # ";" -> Failed(e.at, e.diag)
      [] OTHER -> Parsed(IF e.node.type = "comma" THEN Node("block", i, "", e.node.kids) ELSE e.node,
                         e.at + 1, e.diag)

handleExpressionOrAssignment(w, i) == ExpressionOf(w, i, parseExpression(w, i))

-------------------------------------------------------------------------------
(* Selection and loops.                                                    *)

\* "(" condition ")" behind the keyword at i, where c is what is parsed as
\* the condition.  The condition of an if may be missing.
Parenthesized(w, i, c, mayMiss, diagOpen) ==
    CASE Tok(w, i + 1) # "(" -> [ok |-> FALSE, node |-> Null, at |-> i + 1, diag |-> diagOpen]
      [] Tok(w, i + 1) = "(" /\ (c.node # Null \/ mayMiss) /\ Tok(w, c.at) = ")" ->
             [ok |-> TRUE, node |-> c.node, at |-> c.at + 1, diag |-> c.diag]
      [] OTHER -> [ok |-> FALSE, node |-> Null, at |-> c.at, diag |-> c.diag]

Controlling(w, i, mayMiss, diagOpen) ==
    Parenthesized(w, i, parseExpression(w, i + 2), mayMiss, diagOpen)

\* The if statement at i with the condition c and the first branch t.
IfOf(w, i, s, c, t) ==
    LET e == IF Tok(w, t.at + 1) = "if" THEN parseIfStatement(w, t.at + 1, s)
             ELSE parseStatement(w, t.at + 1, s)
    IN  CASE ~c.ok -> Failed(c.at, c.diag)
          [] c.ok /\ t.node = Null -> Failed(t.at, c.diag \/ t.diag)
          [] c.ok /\ t.node # Null /\ Tok(w, t.at) # "else" ->
                 Parsed(Node("if", i, "", <<c.node, t.node, Null>>), t.at, c.diag \/ t.diag)
          [] OTHER ->
                 IF e.node = Null THEN Failed(e.at, c.diag \/ t.diag \/ e.diag)
                 ELSE Parsed(Node("if", i, "", <<c.node, t.node, e.node>>), e.at,
                             c.diag \/ t.diag \/ e.diag)

parseIfStatement(w, i, s) ==
    LET c == Controlling(w, i, TRUE, FALSE)
    IN  IfOf(w, i, s, c, parseStatement(w, c.at, s))

\* The loop at i with the condition c and the body b.
WhileOf(i, c, b) ==
    CASE ~c.ok -> Failed(c.at, c.diag)
      [] c.ok /\ b.node = Null -> Failed(b.at, c.diag \/ b.diag)
      [] OTHER -> Parsed(Node("while", i, "", <<c.node, b.node>>), b.at, c.diag \/ b.diag)

parseWhileLoop(w, i, s) ==
    LET c == Controlling(w, i, FALSE, TRUE)
    IN  WhileOf(i, c, parseStatement(w, c.at, s))

\* The loop at i with the body b and the condition c.
DoOf(w, i, b, c) ==
    CASE b.node = Null \/ Tok(w, b.at) # "while" -> Failed(b.at, TRUE)
      [] b.node # Null /\ Tok(w, b.at) = "while" /\ ~c.ok -> Failed(c.at, b.diag \/ c.diag)
      [] OTHER -> IF Tok(w, c.at) # ";" THEN Failed(c.at, TRUE)
                  ELSE Parsed(Node("do", i, "", <<c.node, b.node>>), c.at + 1, b.diag \/ c.diag)

parseDoWhileLoop(w, i, s) ==
    LET b == parseStatement(w, i + 1, s)
    IN  DoOf(w, i, b, Controlling(w, b.at, FALSE, FALSE))

\* One clause of a for statement.  The helpers cannot tell an empty clause
\* from an error: on one they stay where they are and the loop goes on.
ForClause(w, i, empty, p) ==
    CASE Tok(w, i) = empty -> Parsed(Null, IF empty = ";" THEN i + 1 ELSE i, FALSE)
      [] Tok(w, i) # empty /\ (p.node = Null \/ empty = ")") -> p
      [] OTHER -> IF Tok(w, p.at) # ";" THEN Failed(p.at, TRUE)
                  ELSE Parsed(p.node, p.at + 1, p.diag)

\* The loop at i with the clauses n, c and e.
ForOf(w, i, s, n, c, e) ==
    LET b == parseStatement(w, e.at + 1, s)
        d == n.diag \/ c.diag \/ e.diag
        body == IF Tok(w, e.at + 1) = "{" THEN b.node
                ELSE Node("block", e.at + 1, "wrapped", <<b.node>>)
    IN  CASE Tok(w, i + 1) # "(" -> Failed(i + 1, FALSE)
          [] Tok(w, i + 1) = "(" /\ Tok(w, e.at) # ")" -> Failed(e.at, d)
          [] OTHER -> IF b.node = Null THEN Failed(b.at, d \/ b.diag)
                      ELSE Parsed(Node("for", i, "", <<n.node, c.node, e.node, body>>), b.at, d \/ b.diag)

parseForLoop(w, i, s) ==
    LET n == ForClause(w, i + 2, ";",
                       IF Tok(w, i + 2) = "vla" THEN Parsed(Node("vla", i + 2, "", <<>>), i + 3, FALSE)
                       ELSE parseExpression(w, i + 2))
        c == ForClause(w, n.at, ";", parseAssignmentExpression(w, n.at))
    IN  ForOf(w, i, s, n, c, ForClause(w, c.at, ")", parseExpression(w, c.at)))

-------------------------------------------------------------------------------
(* switch, case and default.                                               *)

\* The value v of a label and the ":" behind it.
Labelled(w, v) ==
    IF v.node = Null \/ Tok(w, v.at) # ":" THEN Failed(v.at, TRUE)
    ELSE Parsed(v.node, v.at + 1, v.diag)

\* "case value :" or "default :" at i.
CaseLabel(w, i) ==
    Labelled(w, IF Tok(w, i) = "default" THEN Parsed(Node("expr", i, "default", <<>>), i + 1, FALSE)
                ELSE parseExpression(w, i + 1))

\* The statements of a case written directly in the switch body: all up to
\* the next label there.
CaseBody(w, i, s, items, d) ==
    LET p == parseStatement(w, i, s)
    IN  CASE Tok(w, i) \in {"case", "default", "}", "EOF"} ->
                 [ok |-> TRUE, items |-> items, at |-> i, diag |-> d]
          [] OTHER -> IF p.node = Null THEN [ok |-> FALSE, items |-> <<>>, at |-> p.at, diag |-> d \/ p.diag]
                      ELSE CaseBody(w, p.at, s, Append(items, p.node), d \/ p.diag)

BodyFailed(at, diag) == [ok |-> FALSE, items |-> <<>>, at |-> at, diag |-> diag]

\* The body of a switch behind a case with the label v and the statements b.
AfterCase(w, i, s, items, d, v, b) ==
    CASE v.node = Null -> BodyFailed(v.at, TRUE)
      [] v.node # Null /\ ~b.ok -> BodyFailed(b.at, d \/ b.diag)
      [] OTHER -> SwitchBody(w, b.at, s, Append(items, Node("case", i, v.node.name, b.items)), d \/ b.diag)

SwitchBody(w, i, s, items, d) ==
    LET v == CaseLabel(w, i)
        p == parseStatement(w, i, s)
    IN  CASE Tok(w, i) = "EOF" -> BodyFailed(i, TRUE)
          [] Tok(w, i) = "}" -> [ok |-> TRUE, items |-> items, at |-> i + 1, diag |-> d]
          [] Tok(w, i) \in {"case", "default"} ->
                 AfterCase(w, i, s, items, d, v, CaseBody(w, v.at, s, <<>>, v.diag))
          [] OTHER -> IF p.node = Null THEN BodyFailed(p.at, d \/ p.diag)
                      ELSE SwitchBody(w, p.at, s, Append(items, p.node), d \/ p.diag)

\* The statement at i that is a switch over the expression c, with the body b
\* if there is one in braces.
SwitchOf(w, i, s, c, b) ==
    LET open == c.at + 1
        one == parseStatement(w, open, s + 1)
        Switch(items) == Node("switch", i, "", <<c.node>> \o items)
    IN  CASE Tok(w, i + 1) # "(" -> Failed(i + 1, TRUE)
          [] Tok(w, i + 1) = "(" /\ c.node = Null -> Failed(c.at, TRUE)
          [] Tok(w, i + 1) = "(" /\ c.node # Null /\ Tok(w, c.at) # ")" ->
                 IF Tok(w, c.at) = "{" THEN Parsed(Node("block", i, "", <<>>), SkipBraces(w, c.at, 0), TRUE)
                 ELSE Failed(c.at, TRUE)
          [] OTHER ->
                 CASE Tok(w, open) = "{" -> IF b.ok THEN Parsed(Switch(b.items), b.at, b.diag)
                                            ELSE Failed(b.at, b.diag)
                   [] Tok(w, open) \in {"}", "EOF"} -> Failed(open, TRUE)
                   [] OTHER -> IF one.node = Null THEN Failed(one.at, c.diag \/ one.diag)
                               ELSE Parsed(Switch(<<one.node>>), one.at, c.diag \/ one.diag)

parseSwitchStatement(w, i, s) ==
    LET c == parseExpression(w, i + 2)
    IN  SwitchOf(w, i, s, c, SwitchBody(w, c.at + 2, s + 1, <<>>, c.diag))

-------------------------------------------------------------------------------
(* Jumps.                                                                  *)

\* break and continue: a missing ";" is not diagnosed.
parseJump(w, i) ==
    IF Tok(w, i + 1) # ";" THEN Failed(i + 1, FALSE)
    ELSE Parsed(Node(Tok(w, i), i, "", <<>>), i + 2, FALSE)

\* A comma expression becomes a block of several returns.
ReturnOf(w, i, e) ==
    LET Return(n) == Node("return", i, "", <<n>>)
    IN  CASE Tok(w, i + 1) = ";" -> Parsed(Return(Null), i + 2, FALSE)
          [] Tok(w, i + 1) # ";" /\ (e.node = Null \/ Tok(w, e.at) # ";") -> Failed(e.at, e.diag)
          [] OTHER ->
                 Parsed(IF e.node.type = "comma"
                        THEN Node("block", i, "", [j \in DOMAIN e.node.kids |-> Return(e.node.kids[j])])
                        ELSE Return(e.node), e.at + 1, e.diag)

parseReturnStatement(w, i) == ReturnOf(w, i, parseExpression(w, i + 1))

parseGotoStatement(w, i) ==
    CASE Tok(w, i + 1) \notin Identifiers -> Failed(i + 1, TRUE)
      [] Tok(w, i + 1) \in Identifiers /\ Tok(w, i + 2) # ";" -> Failed(i + 2, TRUE)
      [] OTHER -> Parsed(Node("goto", i, Tok(w, i + 1), <<>>), i + 3, FALSE)

\* A label whose statement cannot be parsed stays, with no statement.
parseLabel(w, i, s) ==
    LET p == parseStatement(w, i + 2, s)
    IN  Parsed(Node("label", i, Tok(w, i), <<p.node>>), p.at, p.diag)

ControlKeywords == {"if", "while", "do", "for", "switch", "goto", "return", "break", "continue"}

handleControlStatements(w, i, s) ==
    CASE Tok(w, i) = "if" -> parseIfStatement(w, i, s)
      [] Tok(w, i) = "while" -> parseWhileLoop(w, i, s)
      [] Tok(w, i) = "do" -> parseDoWhileLoop(w, i, s)
      [] Tok(w, i) = "for" -> parseForLoop(w, i, s)
      [] Tok(w, i) = "switch" -> parseSwitchStatement(w, i, s)
      [] Tok(w, i) = "goto" -> parseGotoStatement(w, i)
      [] Tok(w, i) = "return" -> parseReturnStatement(w, i)
      [] Tok(w, i) \in {"break", "continue"} -> parseJump(w, i)
      [] OTHER -> Failed(i, FALSE)

\* The statement p behind the label v of a case.
CaseOf(i, v, p) ==
    CASE v.node = Null -> v
      [] v.node # Null /\ p.node = Null -> Failed(p.at, v.diag \/ p.diag)
      [] OTHER -> Parsed(Node("case", i, v.node.name, <<p.node>>), p.at, v.diag \/ p.diag)

\* What parseStatement tries where a control statement is not, or could not
\* be, parsed: a case label, a label, a declaration, an expression.
OtherStatement(w, i, s) ==
    LET v == CaseLabel(w, i)
    IN  CASE s > 0 /\ Tok(w, i) \in {"case", "default"} ->
                 CaseOf(i, v, parseStatement(w, v.at, s))
          [] Tok(w, i) \in Identifiers /\ Tok(w, i + 1) = ":" -> parseLabel(w, i, s)
          [] Tok(w, i) = "vla" -> Parsed(Node("vla", i, "", <<>>), i + 2, FALSE)
          [] OTHER -> handleExpressionOrAssignment(w, i)

\* The statement at i, where parsing it as a control statement gave c.
StatementOf(w, i, s, c) ==
    LET o == OtherStatement(w, c.at, s)
    IN  CASE Tok(w, i) \in ControlKeywords /\ c.node # Null -> c
          [] Tok(w, i) \in {"do", "switch"} /\ c.node = Null /\ ~isValidExpressionStart(Tok(w, c.at)) -> c
          [] OTHER -> [o EXCEPT !.diag = @ \/ c.diag]

parseStatement(w, i, s) ==
    CASE Tok(w, i) = "{" -> parseBlock(w, i, s)
      [] Tok(w, i) = ";" -> Parsed(Node("block", i, "", <<>>), i + 1, FALSE)
      [] OTHER -> StatementOf(w, i, s, handleControlStatements(w, i, s))
===============================================================================
