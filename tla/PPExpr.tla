-------------------------------- MODULE PPExpr --------------------------------
(***************************************************************************)
(* The evaluator of #if expressions, src/Preprocessor/pp_expr.c: recursive *)
(* descent over the tokens, with a flag that says whether the operand being*)
(* parsed counts (eval), values of Width bits that are signed or unsigned, *)
(* and a result cut to ResultWidth bits.                                   *)
(*                                                                         *)
(* A token is its spelling.  The ten functions for the binary operators    *)
(* have one shape and are one operator with a level.  A parser is [value,  *)
(* at, error, traps]: what the C function returns, the cursor after it,    *)
(* parser->error (once it is set the evaluation fails, so that the cursor  *)
(* and the value no longer matter), and whether a division has overflowed. *)
(* Where another signed operation overflows, the value wraps.              *)
(***************************************************************************)
EXTENDS Integers, Sequences, FiniteSets, Bitwise

CONSTANTS Width,        \* 64, a power of two
          ResultWidth,  \* 32: the width of outValue
          Literal,      \* [spelling -> [number, hasUnsignedSuffix, readToEnd]]
          Identifier,
          Keyword,      \* identifiers that have a token type of their own
          Macros        \* the names that are defined

Modulus == 2 ^ Width

Signed == -(Modulus \div 2) .. Modulus \div 2 - 1

Value(n, u) == [bits |-> n % Modulus, isUnsigned |-> u]
Zero == Value(0, FALSE)
pp_value_bool(b) == Value(IF b THEN 1 ELSE 0, FALSE)
pp_value_truthy(v) == v.bits # 0

pp_value_as_signed(v) == IF v.bits >= Modulus \div 2 THEN v.bits - Modulus ELSE v.bits

\* Faulty variant: the type of the left operand decides.
pp_value_use_unsigned_left(l, r) == l.isUnsigned

pp_value_use_unsigned(l, r) == l.isUnsigned \/ r.isUnsigned

\* The number an operand stands for in an operation of the given signedness.
Number(v, u) == IF u THEN v.bits ELSE pp_value_as_signed(v)

Parsed(v, at) == [value |-> v, at |-> at, error |-> FALSE, traps |-> FALSE]
Failed(at) == [value |-> Zero, at |-> at, error |-> TRUE, traps |-> FALSE]

Is(s, at, t) == at <= Len(s) /\ s[at] = t

-------------------------------------------------------------------------------
(* The operators.                                                          *)

\* C's division, which truncates.
Magnitude(n) == IF n < 0 THEN -n ELSE n
Quotient(a, b) ==
    LET q == Magnitude(a) \div Magnitude(b)
    IN  IF (a < 0) = (b < 0) THEN q ELSE -q
Remainder(a, b) == a - b * Quotient(a, b)

\* The smallest number divided by -1: undefined in C.
DivisionOverflows(op, l, r) ==
    /\ op \in {"/", "%"}
    /\ ~pp_value_use_unsigned(l, r)
    /\ l.bits = Modulus \div 2
    /\ r.bits = Modulus - 1

Multiplicative(op, l, r) ==
    LET u == pp_value_use_unsigned(l, r)
        a == Number(l, u)
        b == Number(r, u)
    IN  CASE op = "*" -> Value(a * b, u)
          [] op = "/" -> Value(Quotient(a, b), u)
          [] op = "%" -> Value(Remainder(a, b), u)

Additive(op, l, r) ==
    LET u == pp_value_use_unsigned(l, r)
    IN  IF op = "+" THEN Value(Number(l, u) + Number(r, u), u)
        ELSE Value(Number(l, u) - Number(r, u), u)

\* The amount is taken modulo the width; >> of a negative number keeps the sign.
Shift(op, l, r) ==
    LET amount == r.bits % Width
        n == Number(l, l.isUnsigned)
    IN  IF op = "<<" THEN Value(n * 2 ^ amount, l.isUnsigned)
        ELSE Value(n \div 2 ^ amount, l.isUnsigned)

Relational(op, l, r) ==
    LET u == pp_value_use_unsigned(l, r)
        a == Number(l, u)
        b == Number(r, u)
    IN  pp_value_bool(CASE op = "<" -> a < b
                        [] op = "<=" -> a <= b
                        [] op = ">" -> a > b
                        [] op = ">=" -> a >= b)

Equality(op, l, r) == pp_value_bool((op = "==") = (l.bits = r.bits))

Bits(op, l, r) ==
    Value(CASE op = "&" -> l.bits & r.bits
            [] op = "^" -> l.bits ^^ r.bits
            [] op = "|" -> l.bits | r.bits,
          pp_value_use_unsigned(l, r))

Logical(op, l, r) ==
    pp_value_bool(IF op = "&&" THEN pp_value_truthy(l) /\ pp_value_truthy(r)
                  ELSE pp_value_truthy(l) \/ pp_value_truthy(r))

\* The binary operators, the loosest level first.
Level == << {"||"}, {"&&"}, {"|"}, {"^"}, {"&"}, {"==", "!="},
            {"<", "<=", ">", ">="}, {"<<", ">>"}, {"+", "-"}, {"*", "/", "%"} >>

Apply(op, l, r) ==
    CASE op \in Level[1] \cup Level[2] -> Logical(op, l, r)
      [] op \in Level[3] \cup Level[4] \cup Level[5] -> Bits(op, l, r)
      [] op \in Level[6] -> Equality(op, l, r)
      [] op \in Level[7] -> Relational(op, l, r)
      [] op \in Level[8] -> Shift(op, l, r)
      [] op \in Level[9] -> Additive(op, l, r)
      [] op \in Level[10] -> Multiplicative(op, l, r)

\* Faulty variant: the right operand of && and || is always evaluated.
EvalRight_always(op, l, eval) == eval

\* Whether the right operand of an operator counts.
EvalRight(op, l, eval) ==
    /\ eval
    /\ op = "&&" => pp_value_truthy(l)
    /\ op = "||" => ~pp_value_truthy(l)

-------------------------------------------------------------------------------
(* The parser.                                                             *)

RECURSIVE parse_conditional(_, _, _)
RECURSIVE parse_unary(_, _, _)
RECURSIVE parse_binary(_, _, _, _)
RECURSIVE Operators(_, _, _, _)

parse_defined(s, at, eval) ==
    LET paren == Is(s, at + 1, "(")
        id == IF paren THEN at + 2 ELSE at + 1
    IN  IF id > Len(s) \/ s[id] \notin Identifier \cup Keyword \cup {"defined"} THEN Failed(id)
        ELSE IF paren /\ ~Is(s, id + 1, ")") THEN Failed(id + 1)
        ELSE Parsed(pp_value_bool(eval /\ s[id] \in Macros), IF paren THEN id + 2 ELSE id + 1)

\* A numeral that strtoull cannot hold, or does not read to its end but for
\* letters, is an error; one above the signed range is unsigned.
parse_integer_token(s, at) ==
    LET raw == Literal[s[at]]
    IN  IF raw.number >= Modulus \/ ~raw.readToEnd THEN Failed(at + 1)
        ELSE Parsed(Value(raw.number, raw.hasUnsignedSuffix \/ raw.number \notin Signed), at + 1)

parse_primary(s, at, eval) ==
    CASE at > Len(s) -> Failed(at)
      [] Is(s, at, "defined") -> parse_defined(s, at, eval)
      [] at <= Len(s) /\ s[at] \in DOMAIN Literal ->
           IF eval THEN parse_integer_token(s, at) ELSE Parsed(Zero, at + 1)
      [] at <= Len(s) /\ s[at] \in Identifier -> Parsed(Zero, at + 1)
      [] Is(s, at, "(") ->
           LET inner == parse_conditional(s, at + 1, eval)
           IN  IF Is(s, inner.at, ")") THEN [inner EXCEPT !.at = @ + 1]
               ELSE [inner EXCEPT !.error = TRUE]
      [] OTHER -> Failed(at)

parse_unary(s, at, eval) ==
    IF at > Len(s) \/ s[at] \notin {"+", "-", "!", "~"} THEN parse_primary(s, at, eval)
    ELSE LET operand == parse_unary(s, at + 1, eval)
             v == operand.value
         IN  IF ~eval \/ s[at] = "+" THEN operand
             ELSE [operand EXCEPT !.value =
                     CASE s[at] = "-" -> Value(-v.bits, v.isUnsigned)
                       [] s[at] = "!" -> pp_value_bool(~pp_value_truthy(v))
                       [] s[at] = "~" -> Value(Modulus - 1 - v.bits, v.isUnsigned)]

\* One round of the loop over the operators of a level: op has the operands
\* l and r, and the cursor is behind r.
Round(op, l, r, eval) ==
    IF ~eval THEN [r EXCEPT !.value = Zero]
    ELSE IF op \in {"/", "%"} /\ ~pp_value_truthy(r.value)
    THEN [r EXCEPT !.value = Zero, !.error = TRUE, !.traps = @ \/ l.traps]
    ELSE [r EXCEPT !.value = Apply(op, l.value, @),
                   !.traps = @ \/ l.traps \/ DivisionOverflows(op, l.value, r.value)]

\* The loop over the operators of a level that follow the operand p.
Operators(level, s, p, eval) ==
    IF p.error \/ p.at > Len(s) THEN p
    ELSE IF s[p.at] \notin Level[level] THEN p
    ELSE LET op == s[p.at]
             r == parse_binary(level + 1, s, p.at + 1, EvalRight(op, p.value, eval))
         IN  Operators(level, s, Round(op, p, r, eval), eval)

parse_binary(level, s, at, eval) ==
    IF level > Len(Level) THEN parse_unary(s, at, eval)
    ELSE Operators(level, s, parse_binary(level + 1, s, at, eval), eval)

parse_conditional(s, at, eval) ==
    LET condition == parse_binary(1, s, at, eval)
        holds == pp_value_truthy(condition.value)
    IN  IF ~Is(s, condition.at, "?") THEN condition
        ELSE LET first == parse_conditional(s, condition.at + 1, eval /\ holds)
             IN  IF ~Is(s, first.at, ":")
                 THEN [first EXCEPT !.error = TRUE, !.traps = @ \/ condition.traps]
                 ELSE LET second == parse_conditional(s, first.at + 1, eval /\ ~holds)
                      IN  [second EXCEPT
                             !.value = IF eval /\ holds THEN first.value ELSE @,
                             !.error = @ \/ first.error \/ condition.error,
                             !.traps = @ \/ first.traps \/ condition.traps]

Refused == [ok |-> FALSE, value |-> 0]
Trap == [ok |-> FALSE, value |-> -1]

\* What the call can leave behind for the parser p: a division that overflows
\* wraps or ends the process, whichever the processor does.
Outcomes(p, ok) ==
    {IF ok THEN [ok |-> TRUE, value |-> p.value.bits % 2 ^ ResultWidth] ELSE Refused}
        \cup (IF p.traps THEN {Trap} ELSE {})

pp_expr_eval_tokens(s) ==
    LET p == parse_conditional(s, 1, TRUE)
    IN  IF s = <<>> THEN {Refused} ELSE Outcomes(p, ~p.error /\ p.at > Len(s))

pp_expr_eval_range(s, start, end) ==
    IF start > end \/ end > Len(s) THEN {Refused}
    ELSE pp_expr_eval_tokens(SubSeq(s, start + 1, end))
===============================================================================
