-------------------------- MODULE MCCompileDriver --------------------------
(* Invocations for TLC: up to three inputs whose symbols share names, buckets *)
(* and types in every way that matters, and up to two inputs that fail at    *)
(* each kind of stage or go to clang, in every mode.                         *)
EXTENDS CompileDriver

MCHash == [k \in Name \X Kind |-> IF k[1] = "x" /\ k[2] = "variable" THEN 2 ELSE
                                  IF k[1] = "y" THEN 4 ELSE 1]

Plain(base) == [base |-> base, dims |-> <<>>, params |-> <<>>, hasPrototype |-> FALSE,
                isVariadic |-> FALSE]
ArrayOf(n) == [Plain("int") EXCEPT !.dims = <<n>>]
Taking(base) == [Plain("int") EXCEPT !.params = <<base>>, !.hasPrototype = TRUE]

Defines(n, k, t) == [name |-> n, kind |-> k, type |-> t, static |-> FALSE,
                     hasDefinition |-> TRUE, declared |-> FALSE]
Declares(n, k, t) == [Defines(n, k, t) EXCEPT !.hasDefinition = FALSE, !.declared = TRUE]
Hides(n, k, t) == [Defines(n, k, t) EXCEPT !.static = TRUE]

Variable == {Plain("int"), Plain("char"), ArrayOf(0), ArrayOf(2), ArrayOf(3)}
Function == {Plain("int"), Taking("int"), Taking("char")}

(* One symbol of interest, alone or before others that fill the ledger and  *)
(* its buckets.                                                              *)
Interesting ==
    {Defines("x", "variable", t) : t \in Variable \ {Plain("char")}}
      \cup {Declares("x", "variable", t) : t \in Variable}
      \cup {Defines("f", "function", t) : t \in Function}
      \cup {Declares("f", "function", Taking("char")), Hides("x", "variable", Plain("char"))}
Filler == <<Defines("y", "variable", Plain("int")), Defines("x", "function", Plain("int"))>>

Compiles(symbols) == [fails |-> "none", lane |-> "native", symbols |-> symbols]

SameNames(a, b, c) == a.name = b.name /\ b.name = c.name

Job(mode, inputs) == [mode |-> mode, inputs |-> inputs, objects |-> 0, meta |-> FALSE,
                      diags |-> TRUE, named |-> FALSE, codegen |-> TRUE, links |-> TRUE]

Declarations ==
    {Job("link", <<Compiles(<<a>>), Compiles(<<b>> \o Filler), Compiles(<<c>>)>>) :
        <<a, b, c>> \in {t \in Interesting \X Interesting \X Interesting :
                           SameNames(t[1], t[2], t[3])}}

SomeUnits ==
    {[fails |-> at, lane |-> "native", symbols |-> <<Defines("x", "variable", Plain("int"))>>] :
        at \in {"none", "context", "lex", "recovered", "semantic", "codegen"}}
      \cup {[fails |-> "none", lane |-> l, symbols |-> <<Declares("x", "variable", Plain("char"))>>] :
              l \in {"tools", "legacy"}}

Failures ==
    {Job(mode, inputs) : mode \in {"compile", "link", "manifest", "plain"},
        inputs \in {<<>>} \cup {<<a>> : a \in SomeUnits} \cup {<<a, b>> : a, b \in SomeUnits}}

Options ==
    {[Job(mode, <<a>>) EXCEPT !.meta = m, !.diags = d, !.objects = n, !.links = ~m] :
        mode \in {"compile", "link", "manifest"}, a \in SomeUnits, m, d \in BOOLEAN, n \in {0, 1}}
      \cup {[Job(mode, inputs) EXCEPT !.codegen = FALSE, !.named = TRUE] :
              mode \in {"compile", "link", "manifest", "plain"},
              inputs \in {<<Compiles(<<>>)>>, <<Compiles(<<>>), Compiles(<<>>)>>}}

MCJobs == Declarations \cup Failures \cup Options
=============================================================================
