------------------------ MODULE PreprocessReference ------------------------
(***************************************************************************)
(* What preprocessing a program should give, read off the files by         *)
(* recursion: conditionals by matching their directives, an include by     *)
(* reading the header there and then.  There is no chunk, no conditional   *)
(* stack, no guard detection and no cache.  An include of a file that is   *)
(* being read is an error unless reading it would have no effect.          *)
(***************************************************************************)
EXTENDS Preprocessor, SequencesExt

\* The line that ends the branch begun by line k: the next #elif, #else or
\* #endif of the same conditional, or 0 when there is none.
BranchEnd(b, k) ==
    LET level(i) == Depth(b, i) - Depth(b, k)
        ends == {i \in (k + 1)..Len(b) :
                   /\ b[i].op \in {"elif", "else", "endif"}
                   /\ \A j \in (k + 1)..(i - 1) : level(j) >= 0
                   /\ level(i) = IF b[i].op = "endif" THEN -1 ELSE 0}
    IN IF ends = {} THEN 0 ELSE CHOOSE i \in ends : \A j \in ends : i <= j

\* The branch lines of the conditional opened by line k, #endif last; <<0>>
\* at the end when it is not closed.
RECURSIVE Branches(_, _)
Branches(b, k) ==
    LET e == BranchEnd(b, k) IN
    IF e = 0 THEN <<k, 0>>
    ELSE IF b[e].op = "endif" THEN <<k, e>>
    ELSE <<k>> \o Branches(b, e)

Holds(line, defs) ==
    CASE line.op \in {"ifdef", "if", "elif"} -> defs[line.name] # Undefined
      [] line.op \in {"ifndef", "ifnot"} -> defs[line.name] = Undefined
      [] line.op = "else" -> TRUE

\* The state of a reading: ok, the macros, the files under #pragma once, the
\* presumed location, the output and the number of #error lines.
Start == [ok |-> TRUE, defs |-> [x \in Macro |-> Undefined], once |-> {},
          at |-> FreshLines(Root), out |-> <<>>, errors |-> 0]

Bad(s) == [s EXCEPT !.ok = FALSE]

Shown(s, file, line, k) ==
    LET v == s.defs[line.name]
        t == IF v \in {Undefined, Function} THEN line.name ELSE v
        n == IF s.at.remap THEN k + s.at.offset ELSE k
    IN IF line.op = "call" /\ v = Function THEN Bad(s)
       ELSE IF t = Empty THEN s
       ELSE [s EXCEPT !.out = Append(@,
               [tok |-> t, file |-> IF s.at.remap THEN s.at.logical ELSE file,
                line |-> IF n < 1 THEN 1 ELSE n])]

\* Reading the lines lo..hi of the file on top of stack (a sequence of files).
RECURSIVE ReadLines(_, _, _, _)
RECURSIVE ReadLine(_, _, _)
RECURSIVE ReadInclude(_, _, _)

\* The file, read now, would leave everything as it is: it has no line of its
\* own with an effect in the branches taken.
Quiet(f, s) ==
    LET alone == [s EXCEPT !.at = FreshLines(f)]
    IN ReadLines(<<f>>, 1, Len(Body(f)), [alone EXCEPT !.once = {"probing"}])
         = [alone EXCEPT !.once = {"probing"}]

ReadLines(stack, lo, hi, s) ==
    IF lo > hi \/ ~s.ok THEN s
    ELSE LET b == Body(Last(stack))
             line == b[lo]
         IN IF Opens(b, lo)
            THEN LET parts == Branches(b, lo)
                     taken == {i \in 1..(Len(parts) - 1) :
                                 /\ Holds(b[parts[i]], s.defs)
                                 /\ \A j \in 1..(i - 1) :
                                       ~Holds(b[parts[j]], s.defs)}
                 IN IF \E i \in 1..(Len(parts) - 2) : b[parts[i]].op = "else"
                    THEN Bad(s)
                    ELSE IF taken = {}
                    THEN IF Last(parts) = 0 THEN Bad(s)
                         ELSE ReadLines(stack, Last(parts) + 1, hi, s)
                    ELSE LET i == CHOOSE j \in taken : TRUE
                             to == IF parts[i + 1] = 0 THEN hi ELSE parts[i + 1] - 1
                             after == ReadLines(stack, parts[i] + 1, to, s)
                         IN IF Last(parts) = 0 THEN Bad(after)
                            ELSE ReadLines(stack, Last(parts) + 1, hi, after)
            ELSE ReadLines(stack, lo + 1, hi, ReadLine(stack, lo, s))

ReadLine(stack, k, s) ==
    LET file == Last(stack)
        line == Body(file)[k]
    IN CASE line.op \in OrdinaryOps -> Shown(s, file, line, k)
         [] line.op = "define" -> [s EXCEPT !.defs[line.name] = line.value]
         [] line.op = "undef" -> [s EXCEPT !.defs[line.name] = Undefined]
         [] line.op = "pragma_once" -> [s EXCEPT !.once = @ \cup {file}]
         [] line.op = "line" ->
              [s EXCEPT !.at = [remap |-> TRUE, offset |-> line.value - (k + 1),
                                logical |-> IF line.name = Undefined
                                            THEN @.logical ELSE line.name]]
         [] line.op = "error" -> [s EXCEPT !.errors = @ + 1]
         [] line.op = "include" -> ReadInclude(stack, line.name, s)
         [] line.op = "include_macro" ->
              IF s.defs[line.name] \in File
              THEN ReadInclude(stack, s.defs[line.name], s) ELSE Bad(s)
         [] OTHER -> Bad(s)

\* Through an earlier directory of the include path a file may be read again.
ComesBack(f, from) ==
    LET there == program.search[f]
        here == program.search[from]
    IN /\ there.origin = "include_path" /\ here.origin = "include_path"
       /\ there.index < here.index

ReadInclude(stack, f, s) ==
    LET refused == IF Lenient THEN s ELSE Bad(s)
        active == \E i \in DOMAIN stack : stack[i] = f
    IN IF "probing" \in s.once THEN Bad(s)
       ELSE IF ~Exists(f) THEN IF program.search[f].system THEN s ELSE refused
       ELSE IF f \in s.once \/ (active /\ Quiet(f, s)) THEN s
       ELSE IF active /\ ~ComesBack(f, Last(stack)) THEN refused
       ELSE IF Len(stack) >= MaxDepth
            THEN IF Quiet(f, s) THEN s ELSE refused
       ELSE LET r == ReadLines(Append(stack, f), 1, Len(Body(f)),
                               [s EXCEPT !.at = FreshLines(f)])
            IN [r EXCEPT !.at = s.at]

Reading == ReadLines(<<Root>>, 1, Len(Body(Root)), Start)

\* The tokens delivered, with the places presumed for them, and the number of
\* #error lines reported are those of reading the files in order: pragma once,
\* cached and detected guards, the conditional stack, the chunk and the saved
\* #line state change nothing of it (process_include, preprocess_tokens).
MatchesReading ==
    status = "ok" => /\ Reading.ok
                     /\ output = Reading.out
                     /\ errors = Reading.errors

\* preprocess_tokens gives up only on a program that cannot be read.
FailureJustified == status = "failed" => ~Reading.ok
=============================================================================
