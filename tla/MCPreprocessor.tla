--------------------------- MODULE MCPreprocessor ---------------------------
(***************************************************************************)
(* Programs for TLC: a main file and two headers.  GuardPrograms pair all  *)
(* header shapes, cycles among them, in the ways the resolver can find     *)
(* them; LinePrograms try every short main file against one header.        *)
(***************************************************************************)
EXTENDS PreprocessReference

Main == "main.c"
A == "a.h"
B == "b.h"
Missing == "none.h"
SystemMissing == "sys.h"
Files == {Main, A, B, Missing, SystemMissing}
Macros == {"X", "A_H", "B_H"}

L(o, n, v) == [op |-> o, name |-> n, value |-> v]
Do(o) == L(o, "X", Empty)
Text == Do("text")
Define(x, v) == L("define", x, v)
Inc(f) == L("include", f, Empty)

GuardOf(f) == IF f = A THEN "A_H" ELSE "B_H"
OtherOf(f) == IF f = A THEN B ELSE A

Found(o, i) == [origin |-> o, index |-> i, system |-> FALSE]
Search(a, b) == [f \in Files |-> CASE f = A -> a
                                   [] f = B -> b
                                   [] f = SystemMissing -> [Found("raw", 0) EXCEPT !.system = TRUE]
                                   [] OTHER -> Found("raw", 0)]
SameDir == Search(Found("same_dir", 0), Found("same_dir", 0))
OnPath == Search(Found("include_path", 1), Found("include_path", 2))

OneDir == Search(Found("include_path", 1), Found("include_path", 1))

Prog(m, a, b, s) ==
    [body |-> (Main :> m) @@ (A :> a) @@ (B :> b), search |-> s, lenient |-> FALSE]

-----------------------------------------------------------------------------
\* Guards, pragma once and cycles

Guarded(g, v, inner) == <<L("ifndef", g, Empty), Define(g, v)>> \o inner \o <<Do("endif")>>

Inner(f) == {<<Text>>,
             <<Inc(OtherOf(f)), Text>>,
             <<Define("X", "v"), Inc(OtherOf(f))>>,
             <<Inc(f), Text>>,
             <<L("undef", GuardOf(f), Empty), Inc(Main)>>,
             <<Inc(OtherOf(f)), L("typedef", "X", Empty), Text>>}

Shapes(f) == LET g == GuardOf(f) IN
    UNION {{inner,
            Guarded(g, Empty, inner),
            Guarded(g, "w", inner) \o <<Text>>,
            <<Do("pragma_once")>> \o inner,
            <<Do("pragma_once")>> \o Guarded(g, Empty, inner),
            <<Text, Do("pragma_once")>> \o inner} : inner \in Inner(f)}

TwiceMain == <<Inc(A), Text, Inc(B), Inc(A)>>

\* B is first met with its guard defined already.
UndefMain == <<Define("B_H", Empty), Inc(B), L("undef", "B_H", Empty),
               Inc(B), Inc(A), Text>>

Headers(m, s) == {Prog(m, a, b, s) : a \in Shapes(A), b \in Shapes(B)}

GuardPrograms == Headers(TwiceMain, SameDir) \cup Headers(TwiceMain, OnPath)
                 \cup Headers(UndefMain, OneDir)

LenientPrograms == {[p EXCEPT !.lenient = TRUE] : p \in Headers(TwiceMain, OneDir)}

-----------------------------------------------------------------------------
\* Lines

MainLines == {Text, Do("call"), Define("X", "v"), Define("X", Function), Do("undef"),
              L("line", "l.c", 50), L("line", Undefined, 2), Do("error"),
              Do("ifdef"), Do("ifnot"), Do("elif"), Do("else"), Do("endif"),
              Inc(A), Inc(Missing), Inc(SystemMissing),
              L("include_macro", "X", Empty), Define("X", B), Do("unknown")}

LineHeader == <<Text, L("line", "h.c", 7), Text, Define("X", "w")>>

CoreLines == {Text, Define("X", "v"), L("line", "l.c", 50),
              Do("ifdef"), Do("elif"), Do("else"), Do("endif"), Inc(A)}

LinePrograms == {Prog(m \o <<Text>>, LineHeader, <<Do("if"), Text>>, SameDir) :
                   m \in [1..3 -> MainLines] \cup [1..4 -> CoreLines]}

AllPrograms == GuardPrograms \cup LenientPrograms \cup LinePrograms

-----------------------------------------------------------------------------
\* Guards that are set aside

Cycle(a, b) == {Prog(<<Inc(A), Text>>, a, b, s) : s \in {SameDir, OneDir, OnPath}}

Typedef == L("typedef", "X", Empty)

RawTailPrograms == Cycle(Guarded("A_H", Empty, <<Inc(B), Typedef>>),
                         Guarded("B_H", Empty, <<Inc(A), Typedef>>))

\* "unexpected recursive include diagnostic for guarded cycle"
\* (tests/preprocessor/run_pp_recursive_guard.sh): headers that include each
\* other and are guarded are not rejected.  A guard that
\* classify_include_summary_router_raw_tail sets aside is not consulted before
\* the recursion check of process_include.
GuardedCycleAccepted == FailureJustified
=============================================================================
