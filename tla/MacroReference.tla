---------------------------- MODULE MacroReference ----------------------------
(***************************************************************************)
(* What macro expansion should produce, written from the language's rule   *)
(* and not from the code: every token carries the set of the macros it     *)
(* must not be expanded as any more, a call is replaced in the stream of   *)
(* tokens and the stream is scanned on from the replacement.  There are no *)
(* activations, no expansion stack and no boundaries.                      *)
(***************************************************************************)
EXTENDS MacroExpander, SequencesExt

\* The units whose expansion is compared: those without __COUNTER__ and
\* without a call behind the replacement of a function-like macro that leads
\* back to that macro, where the code is known to differ.
CONSTANT Compared

Plain(t) == [t |-> t, hide |-> {}]
PlainSeq(s) == [k \in DOMAIN s |-> Plain(s[k])]
Spelling(ts) == [k \in DOMAIN ts |-> ts[k].t]

Operator == Plain("## operator")
Placemarker == Plain("placemarker")
Error == Plain("error")

HasError(ts) == \E k \in DOMAIN ts : ts[k].t = Error.t

Hide(ts, names) == [k \in DOMAIN ts |-> [ts[k] EXCEPT !.hide = @ \cup names]]

\* The arguments of the call whose opening parenthesis is ts[from - 1].
RefArguments(ts, from) ==
    LET plain  == Spelling(ts)
        close  == Closing(plain, from)
        commas == Where(from, close - 1, LAMBDA k : AtTop(plain, from, k, ","))
        bounds == <<from - 1>> \o commas \o <<close>>
    IN  [a \in 1 .. Len(bounds) - 1 |-> SubSeq(ts, bounds[a] + 1, bounds[a + 1] - 1)]

\* Nothing between the parentheses is no argument, also for a macro with one
\* parameter.
RefCountOK(def, args) ==
    LET provided == IF args = <<<<>>>> THEN 0 ELSE Len(args)
    IN  IF def.variadic THEN provided >= Len(def.params) ELSE provided = Len(def.params)

\* The variable arguments are one parameter, its commas included.
RefOperands(def, args) ==
    LET count == Len(def.params)
        extra == SubSeq(args, count + 1, Len(args))
        join(s, k) == IF k = 1 THEN extra[1] ELSE s \o <<Plain(",")>> \o extra[k]
    IN  SubSeq(args, 1, count) \o
        (IF def.variadic
         THEN <<FoldLeft(join, <<>>, [k \in DOMAIN extra |-> k])>>
         ELSE <<>>)

RefParams(def) ==
    def.params \o (IF def.variadic THEN <<"__VA_ARGS__">> ELSE <<>>)

\* ## joins its neighbours; an empty operand joins to the other one.
Join(l, r) ==
    IF l = Placemarker THEN r
    ELSE IF r = Placemarker THEN l
    ELSE LET t == Paste(l.t, r.t)
         IN  IF t = NoToken THEN Error ELSE [t |-> t, hide |-> l.hide \cap r.hide]

Joined(items) ==
    LET step(acc, k) ==
            IF items[k] = Operator THEN acc
            ELSE IF k > 1 /\ items[k - 1] = Operator
            THEN Append(Front(acc), Join(Last(acc), items[k]))
            ELSE Append(acc, items[k])
        joined == FoldLeft(step, <<>>, [k \in DOMAIN items |-> k])
    IN  SelectSeq(joined, LAMBDA t : t # Placemarker)

RECURSIVE Expanded(_, _)
RECURSIVE Items(_, _, _, _, _)

\* The body of a macro from position i to hi with its operands in place.
Items(def, operands, nested, i, hi) ==
    LET body == def.body
        params == RefParams(def)
        IsParam(t) == \E p \in DOMAIN params : params[p] = t
        operand(t) == operands[CHOOSE p \in DOMAIN params : params[p] = t]
        marked(ts) == IF ts = <<>> THEN <<Placemarker>> ELSE ts
        pasted == (i > 1 /\ body[i - 1] = "##") \/ (i < hi /\ body[i + 1] = "##")
        optEnds == {k \in i + 2 .. hi : AtTop(body, i + 2, k, ")")}
        optEnd == CHOOSE k \in optEnds : \A j \in optEnds : k <= j
        present == Expanded(operand("__VA_ARGS__"), nested) # <<>>
    IN  IF i > hi THEN <<>>
        ELSE IF body[i] = "##" THEN <<Operator>> \o Items(def, operands, nested, i + 1, hi)
        ELSE IF def.kind = "function" /\ body[i] = "#"
        THEN <<Plain(StringLiteral)>> \o Items(def, operands, nested, i + 2, hi)
        ELSE IF def.variadic /\ body[i] = "__VA_OPT__"
        THEN marked(IF present
                    THEN Joined(Items(def, operands, nested, i + 2, optEnd - 1))
                    ELSE <<>>)
             \o Items(def, operands, nested, optEnd + 1, hi)
        ELSE IF IsParam(body[i])
        THEN (IF pasted THEN marked(operand(body[i])) ELSE Expanded(operand(body[i]), nested))
             \o Items(def, operands, nested, i + 1, hi)
        ELSE <<Plain(body[i])>> \o Items(def, operands, nested, i + 1, hi)

Replacement(def, operands, nested) == Joined(Items(def, operands, nested, 1, Len(def.body)))

\* An error stays in the stream as a token of its own.  An invalid call in
\* an argument makes the call invalid, even if the argument is not used.
Expanded(ts, nested) ==
    IF ts = <<>> THEN <<>>
    ELSE
    LET t       == Head(ts)
        rest    == Tail(ts)
        plain   == Spelling(ts)
        def     == Table!Lookup(t.t)
        isMacro == t.t \in Identifier /\ Table!IsDefined(t.t) /\ t.t \notin t.hide
        isCall  == IsCall(plain, 2)
        close   == Closing(plain, 3)
        args    == RefArguments(ts, 3)
        hidden  == {t.t} \cup (IF nested THEN t.hide ELSE t.hide \cap ts[close].hide)
        after   == SubSeq(ts, close + 1, Len(ts))
    IN  IF t.t = "__FILE__" THEN <<Plain(StringLiteral)>> \o Expanded(rest, nested)
        ELSE IF isMacro /\ def.kind = "object"
        THEN Expanded(Hide(Replacement(def, <<>>, nested), t.hide \cup {t.t}) \o rest, nested)
        ELSE IF isMacro /\ def.kind = "function" /\ isCall
        THEN IF RefCountOK(def, args) /\ \A a \in DOMAIN args : ~ HasError(Expanded(args[a], nested))
             THEN Expanded(Hide(Replacement(def, RefOperands(def, args), nested), hidden)
                               \o after, nested)
             ELSE <<Error>> \o Expanded(after, nested)
        ELSE <<t>> \o Expanded(rest, nested)

\* The language leaves open whether a call whose name ends a replacement and
\* whose arguments follow it counts as nested in that replacement.
RefExpansions(tokens) ==
    {Spelling(Expanded(PlainSeq(tokens), nested)) : nested \in BOOLEAN}

RefFails(tokens) == \A nested \in BOOLEAN : HasError(Expanded(PlainSeq(tokens), nested))

-------------------------------------------------------------------------------
\* A chunk is delivered as the language expands it (macro_expander_expand,
\* pp_flush_chunk).
ExpansionCorrect ==
    phase = "done" /\ unit \in Compared => \E e \in RefExpansions(chunk) : output = Delivered(e)

\* An expansion fails only for a chunk in which a macro call or a ## is
\* invalid, apart from the GNU form that substitute_macro refuses on
\* purpose.
FailureJustified ==
    phase = "stopped" /\ unit \in Compared /\ "gnu_comma" \notin raised => RefFails(chunk)
===============================================================================
