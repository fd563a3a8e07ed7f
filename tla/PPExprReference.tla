---------------------------- MODULE PPExprReference ----------------------------
(***************************************************************************)
(* What a #if expression means, written from the language's grammar and    *)
(* not from the code: an expression is split at its loosest operator, and  *)
(* the parts have numbers, converted as C converts them.  There is no      *)
(* cursor, no error flag, no eval flag and no bit pattern.                 *)
(*                                                                         *)
(* A meaning is [well, bad, vague, n, u]: whether the tokens are an        *)
(* expression; whether an operand that counts has no value (a division by  *)
(* zero, a numeral that cannot be read); whether C leaves its value        *)
(* open, or the evaluator is known to choose another (see Choice); the     *)
(* number; and whether its type is unsigned.                               *)
(***************************************************************************)
EXTENDS PPExpr, FiniteSetsExt

Nothing == [well |-> FALSE, bad |-> FALSE, vague |-> FALSE, n |-> 0, u |-> FALSE]

InRange(n, u) == IF u THEN n \in 0 .. Modulus - 1 ELSE n \in Signed

\* The number n with the type u: it wraps when it is unsigned, and means
\* nothing when it is signed and too large.
Typed(n, u) ==
    [well |-> TRUE, bad |-> FALSE, vague |-> ~u /\ ~InRange(n, u),
     n |-> IF u THEN n % Modulus ELSE IF InRange(n, u) THEN n ELSE 0, u |-> u]

Truth(b) == Typed(IF b THEN 1 ELSE 0, FALSE)

\* The meaning m of an operator whose operands, where they count, are ms.
From(m, ms) ==
    [m EXCEPT !.well = \A x \in ms : x.well,
              !.bad = @ \/ \E x \in ms : x.bad,
              !.vague = @ \/ \E x \in ms : x.vague]

\* An operand that is not evaluated: it has to be an expression, no more.
Skipped(m) == [m EXCEPT !.bad = FALSE, !.vague = FALSE]

-------------------------------------------------------------------------------
(* Splitting.                                                              *)

Occurs(s, k, t) == Cardinality({j \in 1 .. k : s[j] = t})

Outer(s) == {k \in DOMAIN s : Occurs(s, k - 1, "(") = Occurs(s, k - 1, ")")}

\* A token that ends an operand: what follows it is a binary operator.  The
\* word "defined" does when it is itself the name asked about.
EndsOperand(s, k) ==
    \/ s[k] \in DOMAIN Literal \cup Identifier \cup Keyword \cup {")"}
    \/ /\ s[k] = "defined"
       /\ \E j \in 0 .. k - 1 :
            /\ (k - j) % 2 = 0
            /\ \A i \in j + 1 .. k : s[i] = "defined"
            /\ j = 0 \/ s[j] # "defined"

Infix(s, level) ==
    {k \in Outer(s) : k > 1 /\ s[k] \in Level[level] /\ EndsOperand(s, k - 1)}

\* The ":" that belongs to the "?" at q.
Colons(s, q) ==
    LET open(k) == Cardinality({j \in Outer(s) : j \in q .. k /\ s[j] = "?"})
        closed(k) == Cardinality({j \in Outer(s) : j \in q .. k /\ s[j] = ":"})
    IN  {k \in Outer(s) : k > q /\ s[k] = ":" /\ open(k) = closed(k)}

Before(s, k) == SubSeq(s, 1, k - 1)
Between(s, j, k) == SubSeq(s, j + 1, k - 1)
After(s, k) == SubSeq(s, k + 1, Len(s))

-------------------------------------------------------------------------------
(* The operators on numbers.                                               *)

Absolute(n) == Max({n, -n})

\* The quotient nearest to zero.
TruncatedQuotient(a, b) ==
    CHOOSE q \in -Modulus .. Modulus :
        /\ Absolute(q * b) <= Absolute(a)
        /\ Absolute(a) < Absolute(q * b) + Absolute(b)
        /\ q # 0 => (q > 0 <=> (a < 0 <=> b < 0))

Bit(n, i) == ((n % Modulus) \div 2 ^ i) % 2

\* The number whose bits are f of the bits of a and b.
Bitwise2(f(_, _), a, b, u) ==
    LET n == MapThenSumSet(LAMBDA i : 2 ^ i * f(Bit(a, i), Bit(b, i)), 0 .. Width - 1)
    IN  Typed(IF InRange(n, u) THEN n ELSE n - Modulus, u)

Arithmetic(op, l, r) ==
    LET u == l.u \/ r.u
        a == IF u THEN l.n % Modulus ELSE l.n
        b == IF u THEN r.n % Modulus ELSE r.n
        none == [Typed(0, u) EXCEPT !.bad = TRUE]
    IN  CASE op = "+" -> Typed(a + b, u)
          [] op = "-" -> Typed(a - b, u)
          [] op = "*" -> Typed(a * b, u)
          [] op = "/" -> IF b = 0 THEN none ELSE Typed(TruncatedQuotient(a, b), u)
          [] op = "%" -> IF b = 0 THEN none
                         ELSE [Typed(a - b * TruncatedQuotient(a, b), u) EXCEPT
                                 !.vague = ~InRange(TruncatedQuotient(a, b), u)]
          [] op = "<" -> Truth(a < b)
          [] op = "<=" -> Truth(a <= b)
          [] op = ">" -> Truth(a > b)
          [] op = ">=" -> Truth(a >= b)
          [] op = "==" -> Truth(a = b)
          [] op = "!=" -> Truth(a # b)
          [] op = "&" -> Bitwise2(LAMBDA x, y : x * y, a, b, u)
          [] op = "|" -> Bitwise2(LAMBDA x, y : Max({x, y}), a, b, u)
          [] op = "^" -> Bitwise2(LAMBDA x, y : (x + y) % 2, a, b, u)

\* A shift by a number that is not below the width, and the left shift of a
\* negative number, have no meaning; >> of a negative number rounds down.
Shifted(op, l, r) ==
    IF r.n \notin 0 .. Width - 1 \/ (op = "<<" /\ l.n < 0)
    THEN [Typed(0, l.u) EXCEPT !.vague = TRUE]
    ELSE Typed(IF op = "<<" THEN l.n * 2 ^ r.n ELSE l.n \div 2 ^ r.n, l.u)

Binary(op, l, r) ==
    CASE op = "&&" -> From(Truth(l.n # 0 /\ r.n # 0), {l, IF l.n = 0 THEN Skipped(r) ELSE r})
      [] op = "||" -> From(Truth(l.n # 0 \/ r.n # 0), {l, IF l.n # 0 THEN Skipped(r) ELSE r})
      [] op \in {"<<", ">>"} -> From(Shifted(op, l, r), {l, r})
      [] OTHER -> From(Arithmetic(op, l, r), {l, r})

Unary(op, x) ==
    From(CASE op = "+" -> Typed(x.n, x.u)
           [] op = "-" -> Typed(-x.n, x.u)
           [] op = "!" -> Truth(x.n = 0)
           [] op = "~" -> Typed(-x.n - 1, x.u),
         {x})

\* C converts both results to one type; the evaluator returns the one chosen
\* with its own type, so that the meaning is open when the types differ.
Choice(c, x, y) ==
    LET chosen == IF c.n # 0 THEN x ELSE y
        other == IF c.n # 0 THEN y ELSE x
    IN  From([Typed(chosen.n, chosen.u) EXCEPT !.vague = x.u # y.u],
             {c, chosen, Skipped(other)})

-------------------------------------------------------------------------------
(* Expressions.                                                            *)

\* An identifier that is left is 0.  A keyword is not an operand.
Leaf(t) ==
    IF t \in DOMAIN Literal
    THEN LET n == Literal[t].number
             u == Literal[t].hasUnsignedSuffix \/ n >= Modulus \div 2
         IN  [Typed(IF n < Modulus THEN n ELSE 0, u) EXCEPT
                !.bad = n >= Modulus \/ ~Literal[t].readToEnd]
    ELSE IF t \in Identifier THEN Truth(FALSE)
    ELSE Nothing

Name(t) == t \in Identifier \cup Keyword \cup {"defined"}

RECURSIVE Meaning(_)
Meaning(s) ==
    LET levels == {i \in DOMAIN Level : Infix(s, i) # {}}
        question == {k \in Outer(s) : s[k] = "?"}
        q == Min(question)
        k == Max(Infix(s, Min(levels)))
    IN  CASE s = <<>> -> Nothing
          [] question # {} ->
               IF Colons(s, q) = {} THEN Nothing
               ELSE LET c == Min(Colons(s, q))
                    IN  Choice(Meaning(Before(s, q)), Meaning(Between(s, q, c)),
                               Meaning(After(s, c)))
          [] question = {} /\ levels # {} ->
               Binary(s[k], Meaning(Before(s, k)), Meaning(After(s, k)))
          [] question = {} /\ levels = {} /\ s # <<>> ->
               CASE s[1] \in {"+", "-", "!", "~"} -> Unary(s[1], Meaning(Tail(s)))
                 [] s[1] = "(" /\ s[Len(s)] = ")" -> Meaning(Between(s, 1, Len(s)))
                 [] s[1] = "defined" /\ Len(s) = 2 /\ Name(s[2]) -> Truth(s[2] \in Macros)
                 [] s[1] = "defined" /\ Len(s) = 4 /\ s[2] = "(" /\ Name(s[3]) /\ s[4] = ")" ->
                      Truth(s[3] \in Macros)
                 [] Len(s) = 1 -> Leaf(s[1])
                 [] OTHER -> Nothing

-------------------------------------------------------------------------------
(* The evaluator is called on token sequences that grow.                   *)

CONSTANTS Seed,     \* set of [tokens, room]: room is how many may follow
          Follow    \* the tokens that may follow

VARIABLES tokens, room, result

vars == <<tokens, room, result>>

Init ==
    /\ \E s \in Seed : tokens = s.tokens /\ room = s.room
    /\ result \in pp_expr_eval_range(tokens, 0, Len(tokens))

Evaluate(t) ==
    /\ room > 0
    /\ room' = room - 1
    /\ tokens' = Append(tokens, t)
    /\ result' \in pp_expr_eval_range(tokens', 0, Len(tokens'))

Next == \E t \in Follow : Evaluate(t)

Spec == Init /\ [][Next]_vars

\* The evaluator accepts a sequence of tokens exactly when it is an expression
\* whose operands that count have values: an operand that && , || or ?: skips
\* may divide by zero, and nothing may be left over behind the expression.
AcceptsExactly ==
    LET m == Meaning(tokens) IN ~m.vague => (result.ok <=> m.well /\ ~m.bad)

\* The result is the number the expression stands for, cut to the width of
\* outValue: precedence, associativity, the conversion to unsigned, truncating
\* division, and the signs are those of the language.
ValueAsWritten ==
    LET m == Meaning(tokens)
    IN  result.ok /\ ~m.vague => result.value = (m.n % Modulus) % 2 ^ ResultWidth

===============================================================================
