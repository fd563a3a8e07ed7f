------------------------------- MODULE MCPPExpr -------------------------------
(***************************************************************************)
(* Tokens and expressions for the model checker.  Values have four bits,   *)
(* -8 .. 7 or 0 .. 15, and results two.                                    *)
(***************************************************************************)
EXTENDS PPExprReference

Numeral(n, u, end) == [number |-> n, hasUnsignedSuffix |-> u, readToEnd |-> end]

\* 9 is above the signed range, 16 above both; strtoull stops inside 0b1.
Literals ==
    [t \in {"0", "1", "3", "7", "9", "16", "0b1", "2u"} |->
        CASE t = "0" -> Numeral(0, FALSE, TRUE)
          [] t = "1" -> Numeral(1, FALSE, TRUE)
          [] t = "3" -> Numeral(3, FALSE, TRUE)
          [] t = "7" -> Numeral(7, FALSE, TRUE)
          [] t = "9" -> Numeral(9, FALSE, TRUE)
          [] t = "16" -> Numeral(16, FALSE, TRUE)
          [] t = "0b1" -> Numeral(0, FALSE, FALSE)
          [] t = "2u" -> Numeral(2, TRUE, TRUE)]

Operator == UNION {Level[i] : i \in DOMAIN Level}
Prefix == {"-", "!", "~", "+"}
Operands == {"0", "3", "7", "2u"}

Tokens == {"0", "7", "2u", "0b1", "A", "int", "defined", "(", ")", "-", "/", "&&", "||", "?", ":"}

\* Every short sequence of tokens.
Short == {[tokens |-> <<>>, room |-> 4]}

\* Expressions behind which tokens follow.
Grown ==
    { [tokens |-> <<a, o, b>>, room |-> 1] : a, b \in DOMAIN Literals, o \in Operator }
        \cup { [tokens |-> <<a, "?", b, ":", c>>, room |-> 2] : a, b, c \in {"0", "3", "2u"} }
        \cup { [tokens |-> <<a, o, "0">>, room |-> 3] : a \in {"0", "1"}, o \in {"&&", "||", "/"} }
        \cup { [tokens |-> <<"defined", "(", "A", ")">>, room |-> 2] }

\* Expressions with two operators, in every nesting.
Nested ==
    LET Whole(s) == [tokens |-> s, room |-> 0]
    IN  { Whole(<<a, o, b, p, c>>) : a, b, c \in Operands, o, p \in Operator }
            \cup { Whole(<<a, o, "(", b, p, c, ")">>) : a, b, c \in {"7", "2u"}, o, p \in Operator }
            \cup { Whole(<<f, a, o, g, b>>) : a, b \in Operands \cup {"9"}, f, g \in Prefix, o \in Operator }
            \cup { Whole(<<f, "(", a, o, b, ")", p, c>>) :
                     a, b, c \in {"1", "7"}, f \in Prefix, o \in {"+", "-", "*"}, p \in Operator }

Seeds == Short \cup Grown \cup Nested
===============================================================================
