---------------------------- MODULE Preprocessor ----------------------------
(***************************************************************************)
(* The preprocessor over a set of files: the token loop of                 *)
(* preprocess_tokens for each file being read, process_include with the    *)
(* shortcuts that avoid reading a header again, the #line state around an  *)
(* include, and the way a failure unwinds to preprocessor_run.             *)
(*                                                                         *)
(* A file is a sequence of lines [op, name, value]:                        *)
(*   text X, typedef X     a declaration that uses X / that is a typedef   *)
(*   call X                a call of X with a wrong number of arguments    *)
(*   define X v, undef X   v is Empty, Function or a replacement token     *)
(*   include f, include_macro X      literal operand / macro operand       *)
(*   ifdef X, ifndef X, if X, ifnot X, elif X, else, endif                 *)
(*                         if / ifnot are #if defined(X) / #if !defined(X) *)
(*   pragma_once, line n, error, unknown                                   *)
(* Macro expansion proper is MacroExpander; here a macro is replaced by    *)
(* one token.  The replay modes (off unless the environment asks for them),*)
(* hybrid preprocessing and preserved directives are not modelled.         *)
(***************************************************************************)
EXTENDS Conditionals, Integers, FiniteSets

CONSTANTS File, Root,       \* the files a program may name; the main file
          Macro,            \* macro names, guards included
          Empty, Function,  \* two replacements: no token, a function macro
          Undefined,        \* the value of a macro that is not defined
          Program,          \* the programs to preprocess
          MaxDepth          \* FISICS_MAX_INCLUDE_DEPTH

ASSUME PreprocessorAssumption ==
    /\ Root \in File
    /\ MaxDepth \in Nat \ {0}
    /\ \A p \in Program : /\ Root \in DOMAIN p.body
                          /\ DOMAIN p.body \subseteq File
                          /\ DOMAIN p.search = File
                          /\ p.lenient \in BOOLEAN

VARIABLES program,     \* [body : files that exist -> lines,
                       \*  search : File -> where the resolver finds it,
                       \*  lenient : pp->lenientMissingIncludes]
          frames,      \* the include stack and, per file, its token loop
          macros,      \* pp->table: Macro -> replacement or Undefined
          info,        \* the resolver's IncludeFile of each file
          lineState,   \* pp->lineRemapActive, lineOffset, logicalFile
          output, errors,
          status       \* "running"; "failing" while false is returned from
                       \* frame to frame; "ok" or "failed"

vars == <<program, frames, macros, info, lineState, output, errors, status>>

Body(f) == program.body[f]

Lenient == program.lenient

Exists(f) == f \in DOMAIN program.body

Fr == frames[Len(frames)]

Ln == Body(Fr.file)[Fr.pc]

Active == Fr.cond # <<>> => conditional_stack_is_active(Fr.cond)

IsDefined(x) == macros[x] # Undefined

NewBuffer(file, search, saved) ==
    [file |-> file, pc |-> 1, cond |-> <<>>, chunk |-> <<>>,
     search |-> search, saved |-> saved]

\* A file is read with its own name and no remapping.
FreshLines(file) == [remap |-> FALSE, offset |-> 0, logical |-> file]

NoInfo == [pragmaOnce |-> FALSE, included |-> FALSE,
           guard |-> Undefined, probe |-> "unknown"]

Init == /\ program \in Program
        /\ frames = <<NewBuffer(Root, program.search[Root], FreshLines(Root))>>
        /\ macros = [x \in Macro |-> Undefined]
        /\ info = [f \in File |-> NoInfo]
        /\ lineState = FreshLines(Root)
        /\ output = <<>> /\ errors = 0 /\ status = "running"

-----------------------------------------------------------------------------
\* The chunk of ordinary tokens

ExpandedText(x) == IF macros[x] \in {Undefined, Function} THEN x ELSE macros[x]

\* Where pp_token_clone_remap says that a token is; for a token of a macro
\* body, the place of the macro's use (macroCallSite).
Located(tok, line) ==
    [tok |-> tok,
     file |-> IF lineState.remap THEN lineState.logical ELSE Fr.file,
     line |-> LET n == line + (IF lineState.remap THEN lineState.offset ELSE 0)
              IN IF n < 1 THEN 1 ELSE n]

\* Expansion of the chunk succeeds.
Flushes == \A i \in DOMAIN Fr.chunk :
              ~(Fr.chunk[i].op = "call" /\ macros[Fr.chunk[i].name] = Function)

Delivered == LET shown == SelectSeq(Fr.chunk, LAMBDA t : ExpandedText(t.name) # Empty)
             IN [i \in DOMAIN shown |->
                    Located(ExpandedText(shown[i].name), shown[i].line)]

\* pp_flush_chunk, when it succeeds.
Flush == Flushes /\ output' = output \o Delivered

-----------------------------------------------------------------------------
\* One line of the loop

More == status = "running" /\ Fr.pc <= Len(Body(Fr.file))

At(ops) == More /\ Ln.op \in ops

SetTop(fr) == frames' = [frames EXCEPT ![Len(frames)] = fr]

NextLine == SetTop([Fr EXCEPT !.pc = @ + 1, !.chunk = <<>>])

Goes == status' = status

Fails == status' = "failing" /\ UNCHANGED frames

OrdinaryOps == {"text", "typedef", "call"}

ConditionalOps == {"ifdef", "ifndef", "if", "ifnot", "elif", "else", "endif"}

\* Handled, and preceded by a flush, in an active region only.
ActiveOps == {"define", "undef", "include", "include_macro",
              "pragma_once", "line"}

\* #error, #warning and unknown directives do not flush.
SilentOps == {"error", "unknown"}

DoText == /\ At(OrdinaryOps) /\ Active
          /\ SetTop([Fr EXCEPT !.pc = @ + 1,
                       !.chunk = Append(@, [op |-> Ln.op, name |-> Ln.name,
                                            line |-> Fr.pc])])
          /\ Goes
          /\ UNCHANGED <<program, macros, info, lineState, output, errors>>

SkipInactive == /\ At(OrdinaryOps \cup ActiveOps \cup SilentOps) /\ ~Active
                /\ SetTop([Fr EXCEPT !.pc = @ + 1])
                /\ Goes
                /\ UNCHANGED <<program, macros, info, lineState, output, errors>>

\* The chunk cannot be expanded: the directive is not reached.
FlushFails == /\ \/ At(ActiveOps) /\ Active
                 \/ At(ConditionalOps)
                 \/ status = "running" /\ ~More
              /\ ~Flushes
              /\ Fails
              /\ UNCHANGED <<program, macros, info, lineState, output, errors>>

process_define == /\ At({"define"}) /\ Active /\ Flush
                  /\ macros' = [macros EXCEPT ![Ln.name] = Ln.value]
                  /\ NextLine /\ Goes
                  /\ UNCHANGED <<program, info, lineState, errors>>

process_undef == /\ At({"undef"}) /\ Active /\ Flush
                 /\ macros' = [macros EXCEPT ![Ln.name] = Undefined]
                 /\ NextLine /\ Goes
                 /\ UNCHANGED <<program, info, lineState, errors>>

process_pragma == /\ At({"pragma_once"}) /\ Active /\ Flush
                  /\ info' = [info EXCEPT ![Fr.file].pragmaOnce = TRUE]
                  /\ NextLine /\ Goes
                  /\ UNCHANGED <<program, macros, lineState, errors>>

\* #line n "logical"; a directive without a file keeps the current one.
process_line_directive ==
    /\ At({"line"}) /\ Active /\ Flush
    /\ lineState' = [remap |-> TRUE, offset |-> Ln.value - (Fr.pc + 1),
                     logical |-> IF Ln.name = Undefined THEN lineState.logical
                                 ELSE Ln.name]
    /\ NextLine /\ Goes
    /\ UNCHANGED <<program, macros, info, errors>>

\* #error is reported and the loop goes on.
ErrorDirective == /\ At({"error"}) /\ Active
                  /\ errors' = errors + 1
                  /\ SetTop([Fr EXCEPT !.pc = @ + 1])
                  /\ Goes
                  /\ UNCHANGED <<program, macros, info, lineState, output>>

UnknownDirective == /\ At({"unknown"}) /\ Active
                    /\ Fails
                    /\ UNCHANGED <<program, macros, info, lineState, output, errors>>

\* The conditional directives: the operators of Conditionals.
Condition == IF IsDefined(Ln.name) THEN "true" ELSE "false"

ConditionalResult ==
    CASE Ln.op = "ifdef"  -> process_ifdeflike(Fr.cond, TRUE, IsDefined(Ln.name), FALSE)
      [] Ln.op = "ifndef" -> process_ifdeflike(Fr.cond, TRUE, IsDefined(Ln.name), TRUE)
      [] Ln.op = "if"     -> process_if(Fr.cond, Condition)
      [] Ln.op = "ifnot"  -> process_if(Fr.cond, IF IsDefined(Ln.name)
                                                 THEN "false" ELSE "true")
      [] Ln.op = "elif"   -> process_elif(Fr.cond, Condition, Lenient)
      [] Ln.op = "else"   -> process_else(Fr.cond, Lenient)
      [] Ln.op = "endif"  -> process_endif(Fr.cond, Lenient)

\* An #elif that only leniency lets pass leaves its expression to be read as
\* text.
Leaked == IF Ln.op = "elif" /\ (Fr.cond = <<>> \/ Top(Fr.cond).sawElse) /\ Active
          THEN <<[op |-> "text", name |-> Ln.name, line |-> Fr.pc]>>
          ELSE <<>>

DoConditional ==
    /\ At(ConditionalOps) /\ Flush
    /\ SetTop([Fr EXCEPT !.pc = @ + 1, !.chunk = Leaked,
                         !.cond = ConditionalResult.stack])
    /\ status' = IF ConditionalResult.ok THEN "running" ELSE "failing"
    /\ UNCHANGED <<program, macros, info, lineState, errors>>

-----------------------------------------------------------------------------
\* What is known of a header without reading it again

Opens(b, k) == b[k].op \in {"ifdef", "ifndef", "if", "ifnot"}

Depth(b, k) == Cardinality({i \in 1..k : Opens(b, i)})
               - Cardinality({i \in 1..k : b[i].op = "endif"})

\* The conditional that line k opens is closed by the last line.
ClosedByLast(b, k) == /\ b[Len(b)].op = "endif"
                      /\ Depth(b, Len(b)) = 0
                      /\ \A i \in k..(Len(b) - 1) : Depth(b, i) > 0

\* Faulty variant: the #define is looked for one line too far.
GuardAt_off_by_one(b, k) == /\ k + 2 < Len(b)
                            /\ b[k].op = "ifndef" /\ b[k + 2].op = "define"
                            /\ b[k].name = b[k + 2].name
                            /\ ClosedByLast(b, k)

\* #ifndef G, #define G, and the #endif that closes the first line is the
\* last one.  #else and #elif are not looked at.
GuardAt(b, k) == /\ k + 1 < Len(b)
                 /\ b[k].op = "ifndef" /\ b[k + 1].op = "define"
                 /\ b[k].name = b[k + 1].name
                 /\ ClosedByLast(b, k)

detect_include_guard(b) == IF GuardAt(b, 1) THEN b[1].name ELSE Undefined

detect_leading_pragma_once(b) == Len(b) > 0 /\ b[1].op = "pragma_once"

\* The summary of a header found on an include path: rejected when an operand
\* is not literal or a directive not known.
analyze_include_summary_probe(b) ==
    IF \E i \in DOMAIN b : b[i].op \in {"include_macro", "unknown"}
    THEN "rejected" ELSE "candidate"

\* As detect_include_guard, after leading pragmas, for an empty #define.
detect_include_guard_from_summary_actions(b) ==
    LET starts == {k \in DOMAIN b : \A i \in 1..(k - 1) : b[i].op = "pragma_once"}
        found == {k \in starts : GuardAt(b, k) /\ b[k + 1].value = Empty}
    IN IF found = {} THEN Undefined ELSE b[CHOOSE k \in found : TRUE].name

\* Within the guard only includes and typedefs, some of each, each typedef a
\* range of its own.
classify_include_summary_router_raw_tail(b, guard) ==
    LET inner(op) == {i \in DOMAIN b : b[i].op = op}
        start == CHOOSE k \in inner("ifndef") : TRUE
    IN /\ guard # Undefined
       /\ Cardinality(inner("ifndef")) = 1 /\ Cardinality(inner("define")) = 1
       /\ inner("include") # {} /\ inner("typedef") # {}
       /\ inner("ifndef") \cup inner("define") \cup inner("include")
             \cup inner("typedef") \cup inner("pragma_once") \cup {Len(b)}
             = DOMAIN b
       /\ b[Len(b)].op = "endif" /\ b[start].name = guard
       /\ \E d \in inner("define") :
             /\ b[d].name = guard /\ b[d].value = Empty /\ start < d
             /\ \A i \in inner("include") \cup inner("typedef") : d < i
       /\ \A i \in inner("typedef") : i + 1 \notin inner("typedef")

\* What process_include records of header f, found at search, when it has
\* lexed it.
Learnt(f, search) ==
    LET known == info[f]
        b == Body(f)
        probes == search.origin = "include_path" /\ known.probe = "unknown"
        probe == IF probes THEN analyze_include_summary_probe(b) ELSE known.probe
        summary == IF probes /\ probe = "candidate"
                   THEN detect_include_guard_from_summary_actions(b) ELSE Undefined
        guard == IF known.guard # Undefined THEN known.guard
                 ELSE IF summary # Undefined THEN summary
                 ELSE detect_include_guard(b)
    IN [known EXCEPT
          !.pragmaOnce = @ \/ detect_leading_pragma_once(b),
          !.guard = guard,
          !.probe = IF probes /\ probe = "candidate"
                       /\ classify_include_summary_router_raw_tail(b, guard)
                    THEN "raw_tail" ELSE probe]

\* Faulty variant: the guard need not be defined.
GuardSkips_undefined(known) == known.guard # Undefined /\ known.probe # "raw_tail"

\* A guard that covers the whole file is defined.
GuardSkips(known) == /\ known.guard # Undefined
                     /\ known.probe # "raw_tail"
                     /\ IsDefined(known.guard)

-----------------------------------------------------------------------------
\* process_include

\* The file that the operand names, and whether the operand is one.
IsOperand == Ln.op = "include_macro" => macros[Ln.name] \in File

Target == IF Ln.op = "include" THEN Ln.name ELSE macros[Ln.name]

AtInclude == /\ At({"include", "include_macro"}) /\ Active /\ Flush
             /\ UNCHANGED <<program, macros, errors>>

InvalidOperand == /\ AtInclude /\ ~IsOperand
                  /\ Fails
                  /\ UNCHANGED <<info, lineState>>

\* A missing system header, or any with leniency, is skipped with a warning.
MissingInclude ==
    /\ AtInclude /\ IsOperand /\ ~Exists(Target)
    /\ IF Lenient \/ program.search[Target].system
       THEN NextLine /\ Goes ELSE Fails
    /\ UNCHANGED <<info, lineState>>

Resolved == AtInclude /\ IsOperand /\ Exists(Target)

OnceSkips == info[Target].pragmaOnce /\ info[Target].included

CachedSkips == OnceSkips \/ GuardSkips(info[Target])

\* Skipped on what earlier includes have recorded.
SkipKnownInclude == /\ Resolved /\ CachedSkips
                    /\ NextLine /\ Goes
                    /\ UNCHANGED <<info, lineState>>

Header == Learnt(Target, program.search[Target])

\* The header is lexed and its record updated.
Lexed == Resolved /\ ~CachedSkips

SkipGuardedInclude ==
    /\ Lexed /\ GuardSkips(Header)
    /\ info' = [info EXCEPT ![Target] = [Header EXCEPT !.included = TRUE]]
    /\ NextLine /\ Goes
    /\ UNCHANGED lineState

Recurses == \E i \in DOMAIN frames : frames[i].file = Target

\* #include_next chains come back to a file through an earlier directory.
Reenters ==
    LET search == program.search[Target] IN
    /\ search.origin = "include_path" /\ Fr.search.origin = "include_path"
    /\ search.index < Fr.search.index

\* Faulty variant: the cursor stays on the directive.
SkipRecursiveOnce_stuck == /\ Lexed /\ ~GuardSkips(Header)
                           /\ Recurses /\ Header.pragmaOnce
                           /\ info' = [info EXCEPT ![Target] = Header]
                           /\ Goes
                           /\ UNCHANGED <<frames, lineState>>

SkipRecursiveOnce == /\ Lexed /\ ~GuardSkips(Header)
                     /\ Recurses /\ Header.pragmaOnce
                     /\ info' = [info EXCEPT ![Target] = Header]
                     /\ NextLine /\ Goes
                     /\ UNCHANGED lineState

Blocked == \/ Recurses /\ ~Reenters
           \/ Len(frames) >= MaxDepth

RejectInclude == /\ Lexed /\ ~GuardSkips(Header)
                 /\ ~(Recurses /\ Header.pragmaOnce) /\ Blocked
                 /\ info' = [info EXCEPT ![Target] = Header]
                 /\ IF Lenient THEN NextLine /\ Goes ELSE Fails
                 /\ UNCHANGED lineState

\* The frame is pushed and the header read from its first token.
EnterInclude ==
    /\ Lexed /\ ~GuardSkips(Header)
    /\ ~(Recurses /\ Header.pragmaOnce) /\ ~Blocked
    /\ info' = [info EXCEPT ![Target] = Header]
    /\ frames' = Append([frames EXCEPT ![Len(frames)].pc = @ + 1,
                                       ![Len(frames)].chunk = <<>>],
                        NewBuffer(Target, program.search[Target], lineState))
    /\ lineState' = FreshLines(Target)
    /\ Goes

\* What follows the loop over a header, whether or not it succeeded; the root
\* is only popped.
LeaveFile ==
    /\ lineState' = Fr.saved
    /\ info' = IF Len(frames) = 1 THEN info
               ELSE [info EXCEPT ![Fr.file].included = TRUE]
    /\ frames' = SubSeq(frames, 1, Len(frames) - 1)

\* The end of a file; an open conditional is an error.
EndOfFile == /\ status = "running" /\ ~More /\ Flush
             /\ IF Fr.cond = <<>>
                THEN /\ LeaveFile
                     /\ status' = IF Len(frames) = 1 THEN "ok" ELSE "running"
                ELSE Fails /\ UNCHANGED <<info, lineState>>
             /\ UNCHANGED <<program, macros, errors>>

\* A failure is returned through every file being read.
Unwind == /\ status = "failing"
          /\ LeaveFile
          /\ status' = IF Len(frames) = 1 THEN "failed" ELSE "failing"
          /\ UNCHANGED <<program, macros, output, errors>>

Next == \/ DoText \/ SkipInactive \/ FlushFails
        \/ process_define \/ process_undef \/ process_pragma
        \/ process_line_directive \/ ErrorDirective \/ UnknownDirective
        \/ DoConditional
        \/ InvalidOperand \/ MissingInclude \/ SkipKnownInclude
        \/ SkipGuardedInclude \/ SkipRecursiveOnce \/ RejectInclude
        \/ EnterInclude \/ EndOfFile \/ Unwind

Spec == Init /\ [][Next]_vars

\* The loop is sequential code: it always takes its next step.
FairSpec == Spec /\ WF_vars(Next)

-----------------------------------------------------------------------------

Done == status \in {"ok", "failed"}

TypeOK ==
    /\ \A i \in DOMAIN frames :
          /\ Exists(frames[i].file)
          /\ frames[i].pc \in 1..(Len(Body(frames[i].file)) + 1)
          /\ \A k \in DOMAIN frames[i].cond : frames[i].cond[k] \in Frame
          /\ Len(frames[i].chunk) < frames[i].pc
    /\ macros \in [Macro -> {Undefined, Empty, Function} \cup STRING]
    /\ info \in [File -> [pragmaOnce : BOOLEAN, included : BOOLEAN,
                          guard : Macro \cup {Undefined},
                          probe : {"unknown", "rejected", "candidate", "raw_tail"}]]
    /\ lineState.remap \in BOOLEAN /\ lineState.offset \in Int
    /\ errors \in Nat
    /\ status \in {"running", "failing", "ok", "failed"}
    /\ (frames = <<>>) <=> Done

\* Every program, cyclic includes among them, is preprocessed to an end.
PreprocessingEnds == <>Done
=============================================================================
