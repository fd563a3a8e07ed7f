---------------------------- MODULE StatementText -----------------------------
(***************************************************************************)
(* Functions as C defines them, written from the language's grammar and    *)
(* not from the compiler: how a statement is spelt, which constraints it   *)
(* has to meet, and how it is executed.  A statement is a tree as in       *)
(* SyntaxTree; "eval" is an expression statement, a declaration is "vla",  *)
(* "case" and "label" have the one statement they prefix, "switch" and the *)
(* loops have a body that is any statement.                                *)
(***************************************************************************)
EXTENDS SyntaxTree, SequencesExt, FiniteSetsExt

(***************************************************************************)
(* How C writes an expression, from the productions of its grammar and not *)
(* from the parser: every form of expression belongs to a level, an        *)
(* operand needs a level of its own, and an operand of a lower level is    *)
(* put in parentheses.                                                     *)
(***************************************************************************)
\* The binary operators, loosest level first; the levels are 4 to 13.
Binary == << {"||"}, {"&&"}, {"|"}, {"^"}, {"&"}, {"==", "!="}, {"<", ">="}, {"<<"},
             {"+", "-"}, {"*", "/"} >>

Level(e) ==
    CASE e.type = "comma" -> 1
      [] e.type = "assign" -> 2
      [] e.type = "ternary" -> 3
      [] e.type = "binary" -> 3 + CHOOSE i \in DOMAIN Binary : e.name \in Binary[i]
      [] e.type = "cast" -> 14
      [] e.type = "prefix" -> 15
      [] e.type \in {"postfix", "index", "member", "call"} -> 16
      [] e.type = "expr" -> 17

\* The level the i-th operand of e needs.
Needs(e, i) ==
    CASE e.type = "comma" -> 2
      [] e.type = "assign" -> IF i = 1 THEN 15 ELSE 2
      [] e.type = "ternary" -> << 4, 1, 3 >>[i]
      [] e.type = "binary" -> Level(e) + i - 1
      [] e.type = "cast" -> 14
      [] e.type = "prefix" -> IF e.name \in {"++", "--"} THEN 15 ELSE 14
      [] e.type = "index" -> IF i = 1 THEN 16 ELSE 1
      [] e.type = "call" -> IF i = 1 THEN 16 ELSE 2
      [] e.type \in {"postfix", "member"} -> 16

\* The tokens in front of the first operand, between the operands, and
\* behind the last one, parentheses included.
ExpressionPieces(e) ==
    LET k == Len(e.kids)
        Lower(i) == i \in 1 .. k /\ Level(e.kids[i]) < Needs(e, i)
        Open(i) == IF Lower(i) THEN <<"(">> ELSE <<>>
        Close(i) == IF Lower(i) THEN <<")">> ELSE <<>>
        List(first, last) == [i \in 1 .. k + 1 |-> CASE i = 1 -> <<>>
                                                   [] i = 2 /\ i <= k -> first
                                                   [] i > 2 /\ i <= k -> <<",">>
                                                   [] OTHER -> last]
        plain == CASE e.type = "expr" -> << <<e.name>> >>
                   [] e.type = "comma" -> List(<<",">>, <<>>)
                   [] e.type \in {"assign", "binary"} -> << <<>>, <<e.name>>, <<>> >>
                   [] e.type = "ternary" -> << <<>>, <<"?">>, <<":">>, <<>> >>
                   [] e.type = "cast" -> << <<"(", e.name, ")">>, <<>> >>
                   [] e.type = "prefix" -> << <<e.name>>, <<>> >>
                   [] e.type = "postfix" -> << <<>>, <<e.name>> >>
                   [] e.type = "index" -> << <<>>, <<"[">>, <<"]">> >>
                   [] e.type = "member" -> << <<>>, <<".", e.name>> >>
                   [] e.type = "call" -> IF k = 1 THEN << <<>>, <<"(", ")">> >>
                                         ELSE List(<<"(">>, <<")">>)
    IN  [i \in DOMAIN plain |-> Close(i - 1) \o plain[i] \o Open(i)]

RECURSIVE Form(_)

\* The tree without places; a comma expression that starts a comma
\* expression adds its operands to it.
Form(e) ==
    LET kids == [i \in DOMAIN e.kids |-> Form(e.kids[i])]
    IN  [type |-> e.type, name |-> e.name,
         kids |-> IF e.type = "comma" /\ kids[1].type = "comma" THEN kids[1].kids \o Tail(kids)
                  ELSE kids]

-------------------------------------------------------------------------------
(***************************************************************************)
(* How a statement is spelt, constrained and executed.                     *)
(***************************************************************************)
\* The tokens in front of the first child, between the children, and behind
\* the last one.
Pieces(n) ==
    LET Around(first, last) ==
            IF n.kids = <<>> THEN <<first \o last>>
            ELSE <<first>> \o [i \in 1 .. Len(n.kids) - 1 |-> <<>>] \o <<last>>
    IN  CASE n.type = "null" -> << <<>> >>
          [] n.type = "vla" -> << IF n.name = ";" THEN <<"vla", ";">> ELSE <<"vla">> >>
          [] n.type = "empty" -> << <<";">> >>
          [] n.type = "eval" -> << <<>>, <<";">> >>
          [] n.type = "block" -> Around(<<"{">>, <<"}">>)
          [] n.type = "if" ->
                 << <<"if", "(">>, <<")">>, IF n.kids[3] = Null THEN <<>> ELSE <<"else">>, <<>> >>
          [] n.type = "while" -> << <<"while", "(">>, <<")">>, <<>> >>
          [] n.type = "do" -> << <<"do">>, <<"while", "(">>, <<")", ";">> >>
          [] n.type = "for" -> << <<"for", "(">>, <<";">>, <<";">>, <<")">>, <<>> >>
          [] n.type = "switch" -> << <<"switch", "(">>, <<")">>, <<>> >>
          [] n.type = "case" ->
                 << IF n.name = "default" THEN <<"default", ":">> ELSE <<"case", n.name, ":">>, <<>> >>
          [] n.type = "label" -> << <<n.name, ":">>, <<>> >>
          [] n.type = "goto" -> << <<"goto", n.name, ";">> >>
          [] n.type = "return" -> << <<"return">>, <<";">> >>
          [] n.type \in {"break", "continue"} -> << <<n.type, ";">> >>
          [] OTHER -> ExpressionPieces(n)

RECURSIVE Spelt(_), Laid(_, _), TakesElse(_)

Spelt(n) ==
    LET upTo[j \in 0 .. Len(n.kids)] ==
            IF j = 0 THEN Pieces(n)[1] ELSE upTo[j - 1] \o Spelt(n.kids[j]) \o Pieces(n)[j + 1]
    IN  upTo[Len(n.kids)]

\* The tree when its first token is the i-th of the text, and the place
\* behind its last one.
Laid(n, i) ==
    LET upTo[j \in 0 .. Len(n.kids)] ==
            IF j = 0 THEN [kids |-> <<>>, end |-> i + Len(Pieces(n)[1])]
            ELSE LET before == upTo[j - 1]
                     k == Laid(n.kids[j], before.end)
                 IN  [kids |-> Append(before.kids, k.node), end |-> k.end + Len(Pieces(n)[j + 1])]
        all == upTo[Len(n.kids)]
    IN  IF n = Null THEN [node |-> n, end |-> i]
        ELSE [node |-> [n EXCEPT !.at = i, !.kids = all.kids], end |-> all.end]

Placed(n) == Laid(n, 1).node

Body(n) == n.kids[Len(n.kids)]

\* An if without else at the end of n would take an else written behind n.
TakesElse(n) ==
    \/ n.type = "if" /\ n.kids[3] = Null
    \/ n.type \in {"if", "while", "for", "switch", "case", "label"} /\ TakesElse(Body(n))

\* The spelling of n reads as n.
Unambiguous(n) == \A m \in Subtrees(n) : m.type = "if" /\ m.kids[3] # Null => ~TakesElse(m.kids[2])

-------------------------------------------------------------------------------
(* Constraints.  Every constraint is about a jump and what encloses it.    *)

RECURSIVE Ways(_, _), Marks(_)

\* Every way from n down to a statement in it: the statements passed, n
\* first.
Ways(n, up) ==
    LET here == Append(up, n)
    IN  {here} \cup UNION {Ways(n.kids[i], here) : i \in DOMAIN n.kids}

Innermost(p, types) ==
    LET is == {i \in 1 .. Len(p) - 1 : p[i].type \in types} IN IF is = {} THEN 0 ELSE Max(is)

Loops == {"while", "do", "for"}

\* The labels the switch n owns: those not inside a nested switch.
Marks(n) ==
    IF n.type = "switch" THEN {}
    ELSE (IF n.type = "case" THEN {n} ELSE {}) \cup UNION {Marks(n.kids[i]) : i \in DOMAIN n.kids}

\* The declarations of arrays in scope at the end of the way p: those
\* before it in a block, and those of the for statements around it.
InScope(p) ==
    UNION {{n \in {p[i].kids[j] : j \in DOMAIN p[i].kids} :
                /\ n.type = "vla"
                /\ p[i].type \in {"block", "for"}
                /\ n.at < p[i + 1].at} : i \in 1 .. Len(p) - 1}

LabelWays(f, name) == {p \in Ways(f, <<>>) : Last(p).type = "label" /\ Last(p).name = name}

\* goto p reaches into the scope of an array it does not leave.
EntersScope(f, p) ==
    \E q \in LabelWays(f, Last(p).name) : ~(InScope(q) \subseteq InScope(p))

\* A jump out of nothing, or a return without the value it owes.
BadJump(p) ==
    \/ Last(p).type = "break" /\ Innermost(p, Loops \cup {"switch"}) = 0
    \/ Last(p).type = "continue" /\ Innermost(p, Loops) = 0
    \/ Last(p).type = "return" /\ Body(Last(p)) = Null

\* A case that an earlier one of its switch repeats.
Repeated(p) ==
    LET s == Innermost(p, {"switch"})
    IN  /\ Last(p).type = "case"
        /\ s # 0
        /\ \E m \in Marks(Body(p[s])) : m.name = Last(p).name /\ m.at < Last(p).at

\* A case that its switch reaches past the declaration of an array.
CaseEntersScope(p) ==
    LET s == Innermost(p, {"switch"})
    IN  /\ Last(p).type = "case"
        /\ s # 0
        /\ InScope(p) # InScope(SubSeq(p, 1, s))

\* A label prefixes a statement, and a declaration is none.
LabelledDeclaration(n) == n.type \in {"label", "case"} /\ Body(n).type = "vla"

\* The places of the statements that the language forbids in the function f:
\* all but the gotos, and the gotos.
Forbidden(f) ==
    {Last(p).at : p \in {q \in Ways(f, <<>>) :
        BadJump(q) \/ Repeated(q) \/ CaseEntersScope(q) \/ LabelledDeclaration(Last(q))}}

ForbiddenGotos(f) ==
    {Last(p).at : p \in {q \in Ways(f, <<>>) :
        Last(q).type = "goto" /\ (LabelWays(f, Last(q).name) = {} \/ EntersScope(f, q))}}

\* The gotos whose label, if there is one, is in the same block.
NearGotos(f) ==
    LET Around(p) == SubSeq(p, 1, Innermost(p, {"block", "for", "switch"}))
    IN  {Last(p).at : p \in {q \in Ways(f, <<>>) :
            /\ Last(q).type = "goto"
            /\ \A l \in LabelWays(f, Last(q).name) : Around(l) = Around(q)}}

\* A case label outside every switch is no statement at all.
StrayCase(f) == \E p \in Ways(f, <<>>) : Last(p).type = "case" /\ Innermost(p, {"switch"}) = 0

\* How deep switch statements are nested.
SwitchDepth(f) == Max({Cardinality({i \in DOMAIN p : p[i].type = "switch"}) : p \in Ways(f, <<>>)})

-------------------------------------------------------------------------------
(* Shapes of text the compiler does not treat as the language does.        *)

RECURSIVE Ends(_)

\* Nothing can be reached behind n, by its last statement alone.
Ends(n) ==
    \/ n.type \in {"break", "continue", "return"}
    \/ n.type \in {"label", "case"} /\ Ends(Body(n))
    \/ n.type = "block" /\ \E i \in DOMAIN n.kids :
                              /\ Ends(n.kids[i])
                              /\ \A j \in i + 1 .. Len(n.kids) : n.kids[j].type \notin {"label", "case"}

\* A label or a case inside the j-th statement of a list that control does
\* not reach from the statements in front of it.
Hidden(list, i, j) ==
    /\ \A m \in i + 1 .. j : list[m].type \notin {"label", "case"}
    /\ Marks(list[j]) # {} \/ \E n \in Subtrees(list[j]) : n.type = "label"

\* Such a label behind a jump, or in the body of a switch in front of its
\* first case.
Buried(f) ==
    LET List(n) == IF n.type = "block" THEN n.kids ELSE <<n>>
    IN  \/ \E b \in {n \in Subtrees(f) : n.type = "block"} :
               \E i, j \in DOMAIN b.kids : i < j /\ Ends(b.kids[i]) /\ Hidden(b.kids, i, j)
        \/ \E s \in {n \in Subtrees(f) : n.type = "switch"} :
               \E j \in DOMAIN List(Body(s)) :
                   Marks(List(Body(s))[j]) = {} /\ Hidden(List(Body(s)), 0, j)

\* A case that is not written directly in the body of its switch, or a
\* label that is not written directly in the body of the function.
NestedMark(f) ==
    \E p \in Ways(f, <<>>) :
        LET top == IF Last(p).type = "case" THEN Innermost(p, {"switch"}) + 1 ELSE 1
        IN  /\ Last(p).type \in {"case", "label"}
            /\ \E i \in top + 1 .. Len(p) - 1 : p[i].type \notin {"case", "label"}

\* An array declared directly in the body of a switch.
ArrayInSwitch(f) ==
    \E s \in {n \in Subtrees(f) : n.type = "switch"} :
        Body(s).type = "block" /\ \E i \in DOMAIN Body(s).kids : Body(s).kids[i].type = "vla"

\* A break that is reached only through an if and leaves a switch or a
\* loop that has no condition.
HiddenBreak(f) ==
    \E p \in Ways(f, <<>>) :
        LET s == Innermost(p, Loops \cup {"switch"})
        IN  /\ Last(p).type = "break"
            /\ s # 0
            /\ p[s].type = "switch" \/ (p[s].type = "for" /\ p[s].kids[2] = Null)
            /\ Innermost(p, {"if"}) > s

-------------------------------------------------------------------------------
(* Execution.  What is left to do is a sequence of statements and          *)
(* expressions, executed in turn; the value of the last expression decides *)
(* what comes behind it.  "after" is what happens with the value of the    *)
(* first operand of an expression or of a condition, "again" the end of an *)
(* iteration of a loop and "left" the end of a switch, the places break    *)
(* and continue look for.                                                  *)

After(n) == Node("after", n.at, "", <<n>>)
Again(n) == Node("again", n.at, "", <<n>>)
Truth == Node("truth", 0, "", <<>>)
Left == Node("left", 0, "", <<>>)

False == "0"
True == "1"

\* Dropping frames up to the end of the innermost statement of a kind.
Dropped(k, types) == SubSeq(k, SelectInSeq(k, LAMBDA n : n.type \in types), Len(k))

\* An iteration of the loop n from its condition on.
Iteration(n) ==
    LET condition == IF n.type = "while" THEN n.kids[1] ELSE n.kids[2]
        body == IF n.type = "do" THEN n.kids[1] ELSE Body(n)
    IN  [test |-> IF condition = Null THEN <<body, Again(n)>> ELSE <<condition, After(n)>>,
         body |-> <<body, Again(n)>>]

RECURSIVE Enter(_, _, _)

\* What is left after a jump to the labelled statement at place i inside n,
\* with k to do behind n.
Enter(n, i, k) ==
    LET j == CHOOSE c \in DOMAIN n.kids :
                 \E s \in Subtrees(n.kids[c]) : s.at = i /\ s.type \in {"label", "case"}
        behind == CASE n.type = "block" -> SubSeq(n.kids, j + 1, Len(n.kids)) \o k
                    [] n.type \in Loops -> <<Again(n)>> \o k
                    [] n.type = "switch" -> <<Left>> \o k
                    [] OTHER -> k
    IN  IF n.at = i /\ n.type \in {"label", "case"} THEN <<Body(n)>> \o k
        ELSE Enter(n.kids[j], i, behind)

LabelPlace(f, name) == CHOOSE i \in {n.at : n \in {m \in Subtrees(f) : m.type = "label" /\ m.name = name}} : TRUE

\* The statement the switch n goes on with for the value v, if any.
Chosen(n, v) ==
    LET marks == Marks(Body(n))
        equal == {m \in marks : m.name = v}
    IN  IF equal # {} THEN equal ELSE {m \in marks : m.name = "default"}

\* What is to be done with the value v of the operand or condition of n.
Decided(n, v, rest) ==
    LET Go(value, s) == [todo |-> s \o rest, value |-> value]
    IN  CASE n.type \in {"if", "ternary"} -> Go(v, <<n.kids[IF v # False THEN 2 ELSE 3]>>)
          [] n.type \in Loops -> Go(v, IF v # False THEN Iteration(n).body ELSE <<>>)
          [] n.type = "binary" /\ n.name = "&&" ->
                 IF v # False THEN Go(v, <<n.kids[2], Truth>>) ELSE Go(False, <<>>)
          [] n.type = "binary" /\ n.name = "||" ->
                 IF v # False THEN Go(True, <<>>) ELSE Go(v, <<n.kids[2], Truth>>)
          [] n.type = "prefix" -> Go(IF v # False THEN False ELSE True, <<>>)
          [] n.type = "switch" ->
                 IF Chosen(n, v) = {} THEN Go(v, <<>>)
                 ELSE [todo |-> Enter(n, (CHOOSE m \in Chosen(n, v) : TRUE).at, rest), value |-> v]

\* A step in which nothing is to be seen, in the function f.
Silent(f, k, v) ==
    LET n == Head(k)
        rest == Tail(k)
        Go(s) == [todo |-> s \o rest, value |-> v]
    IN  CASE n.type \in {"empty", "left", "null", "vla"} -> Go(<<>>)
          [] n.type \in {"block", "comma", "eval"} -> Go(n.kids)
          [] n.type \in {"label", "case"} -> Go(<<Body(n)>>)
          [] n.type \in {"if", "switch", "ternary", "binary", "prefix"} -> Go(<<n.kids[1], After(n)>>)
          [] n.type = "while" -> Go(Iteration(n).test)
          [] n.type = "do" -> Go(Iteration(n).body)
          [] n.type = "for" -> Go(<<n.kids[1]>> \o Iteration(n).test)
          [] n.type = "again" ->
                 Go((IF n.kids[1].type = "for" THEN <<n.kids[1].kids[3]>> ELSE <<>>) \o Iteration(n.kids[1]).test)
          [] n.type = "after" -> Decided(n.kids[1], v, rest)
          [] n.type = "truth" -> [todo |-> rest, value |-> IF v # False THEN True ELSE False]
          [] n.type = "break" -> [todo |-> Tail(Dropped(rest, {"again", "left"})), value |-> v]
          [] n.type = "continue" -> [todo |-> Dropped(rest, {"again"}), value |-> v]
          [] n.type = "goto" -> [todo |-> Enter(f, LabelPlace(f, n.name), <<>>), value |-> v]
          [] n.type = "return" -> Go(<<n.kids[1], [n EXCEPT !.type = "returned"]>>)

\* Something is to be seen: an operand is evaluated, the function returns.
Visible(k) == k = <<>> \/ Head(k).type \in {"expr", "returned", "spin"}
===============================================================================
