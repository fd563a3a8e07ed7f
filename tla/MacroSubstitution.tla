-------------------------- MODULE MacroSubstitution --------------------------
(***************************************************************************)
(* The part of macro expansion that is a function of its arguments:        *)
(* splitting the tokens between the parentheses of a call into arguments,  *)
(* matching them with the parameters, and replacing the parameters in the  *)
(* body, with the operators # and ##, __VA_ARGS__ and __VA_OPT__           *)
(* (src/Preprocessor/macro_expander.c and macro_expander_support.c).       *)
(*                                                                         *)
(* A token is its spelling.  What a string literal contains is abstracted  *)
(* away (one token stands for all), and the spelling ## forms is given by  *)
(* a constant.                                                             *)
(***************************************************************************)
EXTENDS Integers, Sequences, FiniteSets, Folds

CONSTANTS
    Identifier,     \* the tokens of type TOKEN_IDENTIFIER
    Paste(_, _),    \* the token two adjacent spellings lex to, or NoToken
    NoToken         \* what relex_single_token rejects

\* A macro definition.  An object-like macro has no parameters.
DefinitionOf(kind, params, variadic, body) ==
    [kind |-> kind, params |-> params, variadic |-> variadic, body |-> body]

\* The string literal that # makes of an argument.
StringLiteral == "string"

\* op applied to the elements of a sequence, the first one first.
InOrder(op(_, _), base, seq) ==
    MapThenFoldSet(LAMBDA x, y : op(y, x), base, LAMBDA k : seq[k],
                   LAMBDA S : CHOOSE k \in S : \A j \in S : j <= k, DOMAIN seq)

Flatten(ss) == InOrder(LAMBDA s, t : s \o t, <<>>, ss)

\* The numbers from lo to hi that satisfy P, in order.
Where(lo, hi, P(_)) == SelectSeq([j \in 1 .. hi - lo + 1 |-> lo + j - 1], P)

-------------------------------------------------------------------------------
(* Arguments.                                                              *)

\* How many parentheses are open before position k, counted from `from`.
OpenBefore(input, from, k) ==
      Cardinality({j \in from .. k - 1 : input[j] = "("})
    - Cardinality({j \in from .. k - 1 : input[j] = ")"})

AtTop(input, from, k, tok) == input[k] = tok /\ OpenBefore(input, from, k) = 0

Closings(input, from) == {k \in from .. Len(input) : AtTop(input, from, k, ")")}

\* parse_macro_argument_tokens finds the parenthesis that closes the call.
IsClosed(input, from) == Closings(input, from) # {}

Closing(input, from) ==
    CHOOSE k \in Closings(input, from) : \A j \in Closings(input, from) : k <= j

\* parse_macro_argument_tokens splits at the commas outside parentheses.
ArgumentsIgnoringNesting(input, from, def) ==
    LET close  == Closing(input, from)
        commas == Where(from, close - 1, LAMBDA k : input[k] = ",")
        bounds == <<from - 1>> \o commas \o <<close>>
    IN  [a \in 1 .. Len(bounds) - 1 |->
            SubSeq(input, bounds[a] + 1, bounds[a + 1] - 1)]

Arguments(input, from, def) ==
    LET close  == Closing(input, from)
        commas == Where(from, close - 1, LAMBDA k : AtTop(input, from, k, ","))
        bounds == <<from - 1>> \o commas \o <<close>>
        parts  == [a \in 1 .. Len(bounds) - 1 |->
                      SubSeq(input, bounds[a] + 1, bounds[a + 1] - 1)]
    IN  IF parts = <<<<>>>> /\ def.params = <<>> /\ ~ def.variadic
        THEN <<>>
        ELSE parts

\* build_macro_arg_pack: how many arguments a call provides, and whether
\* the macro can take that many.
Provided(def, args) ==
    IF def.params # <<>> /\ args = <<<<>>>> THEN 0 ELSE Len(args)

ArgumentCountOK(def, args) ==
    IF def.variadic
    THEN Provided(def, args) >= Len(def.params)
    ELSE Provided(def, args) = Len(def.params)

-------------------------------------------------------------------------------
(* Token pasting.                                                          *)

\* apply_token_paste, one token at a time.  The accumulator holds the
\* tokens already emitted, the pending token and whether a ## waits for
\* its right operand.
PasteToken(acc, tok) ==
    IF tok = "##"
    THEN IF acc.pending = <<>> THEN acc ELSE [acc EXCEPT !.join = TRUE]
    ELSE IF acc.join
    THEN LET joined == Paste(acc.pending[1], tok)
         IN  [acc EXCEPT !.ok = @ /\ joined # NoToken,
                         !.pending = <<joined>>,
                         !.join = FALSE]
    ELSE [acc EXCEPT !.out = @ \o acc.pending, !.pending = <<tok>>]

\* A ## with nothing to its right drops a comma to its left.
ApplyTokenPaste(tokens) ==
    LET end == InOrder(PasteToken,
                       [ok |-> TRUE, out |-> <<>>, pending |-> <<>>, join |-> FALSE],
                       tokens)
    IN  [ok |-> end.ok,
         tokens |-> IF end.join /\ end.pending = <<",">>
                    THEN end.out
                    ELSE end.out \o end.pending]

-------------------------------------------------------------------------------
(* Substitution.                                                           *)

Seps(args) ==
    Flatten([k \in 1 .. Len(args) |-> IF k = 1 THEN args[k] ELSE <<",">> \o args[k]])

\* substitute_macro without the final paste, for the part of the body from
\* lo to hi: what the tokens from position i on become.  raw and expanded
\* are the arguments before and after their own expansion.
SubstituteFrom(def, raw, expanded) ==
    LET body        == def.body
        count       == Len(def.params)
        isFunction  == def.kind = "function"
        extra(args) == SubSeq(args, count + 1, Len(args))
        Param(t)    == {p \in 1 .. count : def.params[p] = t}
        IsParam(t)  == isFunction /\ Param(t) # {}
        index(t)    == CHOOSE p \in Param(t) : \A q \in Param(t) : p <= q
        IsVaArgs(t) == isFunction /\ def.variadic /\ t = "__VA_ARGS__"
        \* The end of the parenthesised operand of __VA_OPT__ at i.
        OptEnds(i, hi) == {k \in i + 2 .. hi : AtTop(body, i + 2, k, ")")}
        IsVaOpt(i, hi) ==
            /\ isFunction /\ def.variadic /\ body[i] = "__VA_OPT__"
            /\ i + 1 <= hi /\ body[i + 1] = "("
            /\ OptEnds(i, hi) # {}
            /\ i + 2 \notin OptEnds(i, hi)
        OptEnd(i, hi) == CHOOSE k \in OptEnds(i, hi) : \A j \in OptEnds(i, hi) : k <= j
        IsStringify(i, hi) ==
            /\ isFunction /\ body[i] = "#" /\ i + 1 <= hi
            /\ IsParam(body[i + 1]) \/ IsVaArgs(body[i + 1])
        PasteLeft(lo, i)  == i > lo /\ body[i - 1] = "##"
        PasteRight(i, hi) == i < hi /\ body[i + 1] = "##"
        Pasted(lo, i, hi) == PasteLeft(lo, i) \/ PasteRight(i, hi)
        AfterDefined(lo, i) ==
            \/ i > lo /\ body[i - 1] = "defined"
            \/ i - 1 > lo /\ body[i - 1] = "(" /\ body[i - 2] = "defined"
        \* The GNU form ", ## __VA_ARGS__" is refused.
        IsGnuComma(lo, i) ==
            IsVaArgs(body[i]) /\ PasteLeft(lo, i) /\ i - 1 > lo /\ body[i - 2] = ","
        Then(head, rest)  == [rest EXCEPT !.tokens = head \o @]
        Fails(error)      == [error |-> error, tokens |-> <<>>]
        from[lo \in 1 .. Len(body) + 1, i \in 1 .. Len(body) + 1, hi \in 0 .. Len(body)] ==
            IF i > hi THEN Fails("none")
            ELSE IF IsStringify(i, hi)
            THEN Then(<<StringLiteral>>, from[lo, i + 2, hi])
            ELSE IF IsVaOpt(i, hi)
            THEN LET inner == from[i + 2, i + 2, OptEnd(i, hi) - 1]
                     joined == ApplyTokenPaste(inner.tokens)
                     rest == from[lo, OptEnd(i, hi) + 1, hi]
                 IN  IF extra(raw) = <<>> THEN rest
                     ELSE IF inner.error # "none" THEN Fails(inner.error)
                     ELSE IF ~ joined.ok THEN Fails("paste")
                     ELSE Then(joined.tokens, rest)
            ELSE IF IsParam(body[i])
            THEN Then(IF Pasted(lo, i, hi) \/ AfterDefined(lo, i)
                      THEN raw[index(body[i])]
                      ELSE expanded[index(body[i])],
                      from[lo, i + 1, hi])
            ELSE IF IsGnuComma(lo, i) THEN Fails("gnu_comma")
            ELSE IF IsVaArgs(body[i])
            THEN Then(Seps(extra(IF Pasted(lo, i, hi) THEN raw ELSE expanded)),
                      from[lo, i + 1, hi])
            ELSE Then(<<body[i]>>, from[lo, i + 1, hi])
    IN  from[1, 1, Len(body)]

\* substitute_macro: the replacement, or "gnu_comma" or "paste" for an error.
Substitute(def, raw, expanded) ==
    LET replaced == SubstituteFrom(def, raw, expanded)
        joined   == ApplyTokenPaste(replaced.tokens)
    IN  [error |-> IF replaced.error # "none" THEN replaced.error
                   ELSE IF joined.ok THEN "none" ELSE "paste",
         tokens |-> joined.tokens]
===============================================================================
