---------------------------- MODULE MCTranslation ----------------------------
(***************************************************************************)
(* The texts that are compiled: every statement nested two deep and every  *)
(* pair of statements in a list, with labels in front of them and behind   *)
(* them; arrays with jumps around them; the operators that branch, in      *)
(* every place that takes an expression; and every pair of operators.      *)
(***************************************************************************)
EXTENDS Translation

N(type, name, kids) == Node(type, 0, name, kids)

x == N("expr", "x", <<>>)
y == N("expr", "y", <<>>)
Eval_x == N("eval", "", <<x>>)
Return_x == N("return", "", <<x>>)
Goto(l) == N("goto", l, <<>>)
Label(l, s) == N("label", l, <<s>>)
Block(s) == N("block", "", s)
If(c, s) == N("if", "", <<c, s, Null>>)
Case(v, s) == N("case", v, <<s>>)
Switch(c, s) == N("switch", "", <<c, s>>)
Break == N("break", "", <<>>)

Jumps == {Eval_x, Break, N("continue", "", <<>>), Return_x, Goto("L")}

\* The functions with these lists of statements, where the spelling is read
\* in one way and no label is given twice.
Compiled(lists) ==
    LET Labels(f) == {n \in Subtrees(f) : n.type = "label"}
    IN  {f \in {Placed(Block(s)) : s \in lists} :
            Unambiguous(f) /\ \A m, n \in Labels(f) : m.name = n.name => m = n}

-------------------------------------------------------------------------------
\* One statement around s.
Around(s) ==
  << If(x, s), N("if", "", <<x, s, Eval_x>>), N("if", "", <<x, Eval_x, s>>),
     N("while", "", <<x, s>>), N("do", "", <<s, x>>),
     N("for", "", <<Null, Null, Null, s>>), N("for", "", <<x, x, x, s>>),
     Block(<<s>>), Block(<<Eval_x, s>>), Block(<<s, Eval_x>>), Label("M", s),
     Case("2", s), Case("default", s), Switch(x, s),
     Switch(x, Block(<<Case("1", s), Case("default", Eval_x)>>)),
     Switch(x, Block(<<Case("1", s), Eval_x, Case("9", Break), Eval_x>>)),
     Switch(x, Block(<<Case("default", s), Case("2", Eval_x)>>)) >>

\* One statement around the list s.
AroundList(s) ==
  << N("while", "", <<x, Block(s)>>), N("do", "", <<Block(s), x>>),
     N("for", "", <<Null, Null, Null, Block(s)>>), Block(s),
     Switch(x, Block(s)), Switch(x, Block(<<Case("1", s[1])>> \o Tail(s))),
     Switch(x, Block(<<Case("1", Block(s)), Case("9", Eval_x)>>)) >>

Once(S) == {Around(s)[i] : s \in S, i \in 1 .. 17}

Nested == Once(Jumps \cup Once(Jumps))

Pairs ==
    {<<a, b>> : a \in Jumps, b \in Once(Jumps \cup {Case("2", Eval_x), Label("M", Eval_x)})}
      \cup {<<b, a>> : a \in Jumps, b \in Once(Jumps)}

Listed == {AroundList(s)[i] : s \in Pairs, i \in 1 .. 7}

\* A function around s: a label behind it, in front of it, or inside it.
Lists(s) ==
  << <<s, Label("L", Eval_x), Return_x>>, <<Label("L", Eval_x), s>>,
     <<If(x, Goto("M")), s, Label("L", Eval_x), Return_x>> >>

Holds(s, l) == \E n \in Subtrees(s) : n.type = "label" /\ n.name = l

Statements ==
    Compiled({Lists(c[1])[c[2]] :
                  c \in {d \in (Nested \cup Listed) \X (1 .. 3) : d[2] = 3 => Holds(d[1], "M")}})

\* More switch statements inside each other than there are frames.
Deep ==
    Compiled({<<Switch(x, Case("1", Switch(x, Case("1", Switch(x, s))))), Return_x>> :
                  s \in Jumps \cup {Case("1", Case("1", Eval_x))}})

\* Three cases in every order, dense and sparse, repeated or not.
Cases ==
    LET values == {"1", "2", "9", "default"}
    IN  Compiled({<<Switch(x, Block(<<Case(a, Eval_x), Case(b, s), Case(c, Eval_x)>>)), Return_x>> :
                      a \in values, b \in values, c \in values, s \in {Eval_x, Break}})

-------------------------------------------------------------------------------
Array == N("vla", ";", <<>>)

WithArray(s) ==
  << Block(<<Array, s>>), Block(<<s, Array>>), Block(<<s, s>>),
     N("for", "", <<N("vla", "", <<>>), Null, Null, s>>),
     Block(<<Array, If(x, Block(<<s>>))>>), Switch(x, Block(<<Array, s>>)), Switch(x, s) >>

\* Jumps over a declaration and back.
Crossing ==
    LET items == {Array, Goto("L"), If(x, Goto("L")), Label("L", Eval_x)}
    IN  Compiled({<<a, b, c, d, Return_x>> : a \in items, b \in items, c \in items, d \in items}
                   \cup {<<Array, AroundList(<<a, b, c>>)[i], Return_x>> :
                             a \in items, b \in items, c \in items, i \in 1 .. 7})

Crossed == {Eval_x, Goto("L"), Label("M", Eval_x), Case("1", Eval_x)}

Arrays ==
    Compiled({<<a, WithArray(s)[i], c, Return_x>> :
                  a \in {Eval_x, Array, Goto("M")},
                  s \in Crossed \cup {WithArray(t)[i] : t \in Crossed, i \in 1 .. 7},
                  i \in 1 .. 7,
                  c \in {Label("L", Eval_x), Label("L", Block(<<Array, Goto("M")>>))}})

-------------------------------------------------------------------------------
\* The operators that branch, applied to operands from E.
Branching(E) ==
    {N("binary", o, <<a, b>>) : o \in {"&&", "||"}, a \in E, b \in E}
      \cup {N("ternary", "", <<a, b, c>>) : a \in E, b \in E, c \in E}
      \cup {N("prefix", "!", <<a>>) : a \in E}
      \cup {N("comma", "", <<a, b>>) : a \in E, b \in E}

\* The places that take an expression; a return and the condition of a for
\* take no comma expression here.
Using(e) ==
    LET f == IF e.type = "comma" THEN x ELSE e
    IN  << If(e, Eval_x), N("while", "", <<e, Eval_x>>), N("do", "", <<Eval_x, e>>),
           N("eval", "", <<e>>), Switch(e, Case("1", Break)),
           N("for", "", <<e, f, e, Eval_x>>), N("return", "", <<f>>) >>

Conditional ==
    Compiled({<<Using(e)[i], Return_x>> : e \in Branching({x} \cup Branching({x})), i \in 1 .. 7})

-------------------------------------------------------------------------------
AllBinary == UNION {Binary[i] : i \in DOMAIN Binary}

\* Every operator, applied to a, b, or both; an index takes no comma
\* expression here.
Operated(a, b) ==
    {N("binary", o, <<a, b>>) : o \in AllBinary}
      \cup {N("assign", o, <<a, b>>) : o \in AssignmentOperators}
      \cup {N("ternary", "", <<a, b, y>>), N("ternary", "", <<y, a, b>>)}
      \cup {N("prefix", o, <<a>>) : o \in PrefixOperators}
      \cup {N("postfix", o, <<a>>) : o \in {"++", "--"}}
      \cup {N("cast", "int", <<a>>), N("member", "x", <<a>>), N("call", "", <<a>>)}
      \cup {N("comma", "", <<a, b>>), N("call", "", <<a, b>>),
            N("index", "", <<a, IF b.type = "comma" THEN y ELSE b>>)}

\* One operator inside another, as its first operand, its second or both.
Twice == UNION {Operated(a, y) \cup Operated(y, a) \cup Operated(a, a) : a \in Operated(x, y)}

Expressions == {Placed(e) : e \in Twice}

-------------------------------------------------------------------------------
CompiledTexts == Statements \cup (Arrays \cup (Conditional \cup (Crossing \cup (Cases \cup Deep))))


MCTexts == CompiledTexts \cup Expressions
===============================================================================
