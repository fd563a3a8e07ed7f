---------------------------- MODULE MacroExpander ----------------------------
(***************************************************************************)
(* Macro expansion, src/Preprocessor/macro_expander.c, running on the      *)
(* macro table.                                                            *)
(*                                                                         *)
(* macro_expander_expand scans a token buffer and calls itself on the      *)
(* arguments of a macro call and on the replacement of the call.  The C    *)
(* stack is the variable calls: one record per activation, which holds the *)
(* buffer, the position of the scan, the output and, while a nested        *)
(* activation runs, the call that it serves.  A name at the end of a       *)
(* replacement that turns out to be a function-like macro with its         *)
(* parenthesis in the enclosing buffer is expanded across that boundary.   *)
(*                                                                         *)
(* Between two expansions the directives change the table.  A failed       *)
(* expansion unwinds activation by activation.                             *)
(***************************************************************************)
EXTENDS MacroSubstitution

CONSTANTS
    Name,               \* the names that directives define and undefine
    Definition,         \* the definitions they are given
    Unit,               \* the translation units: [directives, chunks], a set of
                        \* pairs of a name and a definition for #define, and the
                        \* token runs that pp_flush_chunk expands
    Undefined,
    ExpansionLimit,     \* table->expansionLimit
    MaxMutations,       \* bound: the directives that are explored
    MaxCounter          \* bound: no chunk begins with a larger __COUNTER__

ASSUME MacroExpanderAssumption ==
    \A u \in Unit : u.directives \subseteq Name \X Definition

VARIABLES
    macros, mutationSerial, expansionStack, tableError,     \* the macro table
    unit,           \* the translation unit
    phase,          \* "idle", "expanding", "done" or "stopped"
    chunk,          \* what is being expanded
    calls,          \* the activations of macro_expander_expand
    failed,         \* the last callee of the top activation returned false
    expandError,    \* expander->lastError.kind
    raised,         \* the errors met since the expansion began
    cause,          \* the last of them
    counter,        \* pp->counter
    output          \* the expansion of the chunk, when it is done

tableVars == <<macros, mutationSerial, expansionStack, tableError>>
vars == <<tableVars, unit, phase, chunk, calls, failed, expandError, raised, cause, counter, output>>

\* The table without the memo of the include summaries.
Table == INSTANCE MacroTable WITH
             RawRange <- {},
             lastError <- tableError,
             memo <- [valid |-> FALSE, serial |-> 0, result |-> FALSE]

Numeral == <<"0", "1", "2", "3", "4", "5", "6", "7">>

-------------------------------------------------------------------------------
(* Activations.                                                            *)

\* A macro call in progress: the position of the macro in the table, the
\* arguments before and after expansion, the position after the call, the
\* tokens in front of a callee found at the end of a replacement, and the
\* enclosing function-like macro that is still on the expansion stack
\* (0 when there is none).
Call(kind, macro, raw, next, prefix, host) ==
    [kind |-> kind, macro |-> macro, raw |-> raw, expanded |-> <<>>,
     next |-> next, prefix |-> prefix, host |-> host, nested |-> <<>>]

NoCall == Call("none", 0, <<>>, 0, <<>>, 0)

\* stage: "scan", "args" (expanding arguments), "body" (rescanning the
\* replacement), "nested" (the replacement is rescanned), "leave" (the
\* enclosing macro is to be popped) or "accumulate".
Activation(tokens) ==
    [input |-> tokens, i |-> 1, out |-> <<>>, stage |-> "scan", call |-> NoCall]

Top == calls[Len(calls)]
Caller == calls[Len(calls) - 1]
Tok == Top.input[Top.i]
Finished == ~ failed /\ Top.stage = "scan" /\ Top.i > Len(Top.input)

WithTop(a) == [calls EXCEPT ![Len(calls)] = a]

LastOf(tokens) == tokens[Len(tokens)]
AllButLast(s) == SubSeq(s, 1, Len(s) - 1)

\* The top activation returns and its caller becomes a.
Returning(a) == Append(SubSeq(calls, 1, Len(calls) - 2), a)

Def(p) == macros[p].definition

\* The top activation is about to look at the token at its position.
AtToken ==
    /\ phase = "expanding" /\ ~ failed
    /\ Top.stage = "scan" /\ Top.i <= Len(Top.input)

At(stage) == phase = "expanding" /\ ~ failed /\ Top.stage = stage

Raise(error) == raised' = raised \cup {error} /\ cause' = error

Emit(a, tokens, next) ==
    [a EXCEPT !.out = @ \o tokens, !.i = next, !.stage = "scan", !.call = NoCall]

-------------------------------------------------------------------------------
(* The token at the position of the scan.                                  *)

IsBuiltin(t) == t \in {"__COUNTER__", "__FILE__"}

\* The macro a token names, unless that macro is being expanded.
Expandable(t) ==
    /\ t \in Identifier /\ ~ IsBuiltin(t)
    /\ Table!IsDefined(t)
    /\ ~ Table!IsExpanding(t)

Opens(input, k) == k <= Len(input) /\ input[k] = "("

\* A function-like macro is called when its name is followed by a complete
\* list of arguments.
IsCall(input, k) == Opens(input, k) /\ IsClosed(input, k + 1)

CopyToken ==
    /\ AtToken
    /\ ~ IsBuiltin(Tok)
    /\ Expandable(Tok) =>
          Table!Lookup(Tok).kind = "function" /\ ~ IsCall(Top.input, Top.i + 1)
    /\ calls' = WithTop(Emit(Top, <<Tok>>, Top.i + 1))
    /\ UNCHANGED <<tableVars, unit, phase, chunk, failed, expandError, raised, cause, counter, output>>

\* handle_builtin_identifier.
ExpandBuiltin ==
    /\ AtToken
    /\ IsBuiltin(Tok)
    /\ IF Tok = "__COUNTER__"
       THEN /\ counter' = counter + 1
            /\ calls' = WithTop(Emit(Top, <<Numeral[counter + 1]>>, Top.i + 1))
       ELSE /\ counter' = counter
            /\ calls' = WithTop(Emit(Top, <<StringLiteral>>, Top.i + 1))
    /\ UNCHANGED <<tableVars, unit, phase, chunk, failed, expandError, raised, cause, output>>

-------------------------------------------------------------------------------
(* Entering the replacement of a call.                                     *)

\* macro_table_push_expansion, substitute_macro and the recursive call on
\* the replacement, for the call c of the top activation.  A function-like
\* macro that cannot be pushed is left in the text; otherwise the failure
\* to push or to substitute fails the expansion.
EnterBody(c) ==
    \E result \in {Substitute(Def(c.macro), c.raw, c.expanded)} :
    LET push   == Table!PushError(c.macro)
        inside == [Top EXCEPT !.stage = "body", !.call = c]
    IN  /\ Table!PushExpansion(c.macro)
        /\ IF push # "none"
           THEN /\ Raise(push)
                /\ expandError' = expandError
                /\ IF c.kind = "function"
                   THEN /\ calls' = WithTop(Emit(Top, <<Tok>>, Top.i + 1))
                        /\ failed' = FALSE
                   ELSE /\ calls' = WithTop([Top EXCEPT
                                        !.stage = IF c.host = 0 THEN "scan" ELSE "leave",
                                        !.call = c])
                        /\ failed' = TRUE
           ELSE IF result.error = "none"
           THEN /\ calls' = Append(WithTop(inside), Activation(result.tokens))
                /\ expandError' = "none"
                /\ UNCHANGED <<failed, raised, cause>>
           ELSE /\ calls' = WithTop(inside)
                /\ failed' = TRUE
                /\ Raise(result.error)
                /\ expandError' = IF result.error = "paste" THEN expandError ELSE result.error

ExpandObject ==
    /\ AtToken
    /\ Expandable(Tok)
    /\ Table!Lookup(Tok).kind = "object"
    /\ EnterBody(Call("object", Table!Position(Tok), <<>>, Top.i + 1, <<>>, 0))
    /\ UNCHANGED <<unit, phase, chunk, counter, output>>

-------------------------------------------------------------------------------
(* Calls of function-like macros.                                          *)

\* parse_macro_argument_tokens and build_macro_arg_pack for the macro at
\* position p, whose opening parenthesis is at position k of the input.
StartCall(a, kind, p, k, prefix, host) ==
    \E args \in {Arguments(a.input, k + 1, Def(p))} :
    LET call == Call(kind, p, args, Closing(a.input, k + 1) + 1, prefix, host)
    IN  IF ArgumentCountOK(Def(p), args)
        THEN /\ calls' = WithTop([a EXCEPT !.stage = "args", !.call = call])
             /\ UNCHANGED <<failed, expandError, raised, cause>>
        ELSE /\ calls' = WithTop([a EXCEPT !.stage = IF host = 0 THEN "scan" ELSE "leave",
                                           !.call = call])
             /\ failed' = TRUE
             /\ expandError' = "arg_count"
             /\ Raise("arg_count")

CallFunction ==
    /\ AtToken
    /\ Expandable(Tok)
    /\ Table!Lookup(Tok).kind = "function"
    /\ IsCall(Top.input, Top.i + 1)
    /\ StartCall(Top, "function", Table!Position(Tok), Top.i + 1, <<>>, 0)
    /\ UNCHANGED <<tableVars, unit, phase, chunk, counter, output>>

\* expand_macro_argument: an empty argument needs no activation.
ExpandArgument ==
    /\ At("args")
    /\ Len(Top.call.expanded) < Len(Top.call.raw)
    /\ LET raw == Top.call.raw[Len(Top.call.expanded) + 1]
       IN  IF raw = <<>>
           THEN /\ calls' = WithTop([Top EXCEPT !.call.expanded = Append(@, <<>>)])
                /\ UNCHANGED expandError
           ELSE /\ calls' = Append(calls, Activation(raw))
                /\ expandError' = "none"
    /\ UNCHANGED <<tableVars, unit, phase, chunk, failed, raised, cause, counter, output>>

ReturnArgument ==
    /\ phase = "expanding" /\ Finished
    /\ Len(calls) > 1 /\ Caller.stage = "args"
    /\ calls' = Returning([Caller EXCEPT !.call.expanded = Append(@, Top.out)])
    /\ UNCHANGED <<tableVars, unit, phase, chunk, failed, expandError, raised, cause, counter, output>>

ArgumentsExpanded ==
    /\ At("args")
    /\ Len(Top.call.expanded) = Len(Top.call.raw)
    /\ EnterBody(Top.call)
    /\ UNCHANGED <<unit, phase, chunk, counter, output>>

ReturnBody ==
    /\ phase = "expanding" /\ Finished
    /\ Len(calls) > 1 /\ Caller.stage = "body"
    /\ calls' = Returning([Caller EXCEPT !.stage = "nested", !.call.nested = Top.out])
    /\ UNCHANGED <<tableVars, unit, phase, chunk, failed, expandError, raised, cause, counter, output>>

-------------------------------------------------------------------------------
(* After the replacement: try_expand_function_like_alias_boundary.         *)

\* The last of the tokens is a function-like macro whose arguments begin at
\* position k of the enclosing buffer.  popped is the macro that has left
\* the expansion stack by then (0 when none has).
Crosses_never(tokens, k, popped) == FALSE

Crosses(tokens, k, popped) ==
    /\ tokens # <<>>
    /\ LET callee == LastOf(tokens)
       IN  /\ callee \in Identifier
           /\ Table!IsDefined(callee)
           /\ Table!Lookup(callee).kind = "function"
           /\ \A f \in DOMAIN expansionStack :
                 macros[expansionStack[f]].name = callee =>
                     expansionStack[f] = popped
    /\ IsCall(Top.input, k)

Callee(tokens) == Table!Position(LastOf(tokens))

FinishObject_without_pop ==
    /\ At("nested") /\ Top.call.kind = "object"
    /\ calls' = WithTop(Emit(Top, Top.call.nested, Top.i + 1))
    /\ UNCHANGED <<tableVars, unit, phase, chunk, failed, expandError, raised, cause, counter, output>>

FinishObject ==
    /\ At("nested") /\ Top.call.kind = "object"
    /\ Table!PopExpansion(Top.call.macro)
    /\ LET nested == Top.call.nested
       IN  IF Crosses(nested, Top.i + 1, Top.call.macro)
           THEN StartCall(Top, "boundary", Callee(nested), Top.i + 1, AllButLast(nested), 0)
           ELSE /\ calls' = WithTop(Emit(Top, nested, Top.i + 1))
                /\ UNCHANGED <<failed, expandError, raised, cause>>
    /\ UNCHANGED <<unit, phase, chunk, counter, output>>

\* The function-like macro is still on the expansion stack when the boundary
\* is tried, and is popped afterwards.
FinishFunction ==
    /\ At("nested") /\ Top.call.kind = "function"
    /\ LET nested == Top.call.nested
           next   == Top.call.next
       IN  IF Crosses(nested, next, 0)
           THEN /\ StartCall(Top, "boundary", Callee(nested), next,
                             AllButLast(nested), Top.call.macro)
                /\ UNCHANGED tableVars
           ELSE /\ Table!PopExpansion(Top.call.macro)
                /\ calls' = WithTop(Emit(Top, nested, next))
                /\ UNCHANGED <<failed, expandError, raised, cause>>
    /\ UNCHANGED <<unit, phase, chunk, counter, output>>

FinishBoundary ==
    /\ At("nested") /\ Top.call.kind \in {"boundary", "accumulated"}
    /\ Table!PopExpansion(Top.call.macro)
    /\ LET done == Emit(Top, Top.call.prefix \o Top.call.nested, Top.call.next)
       IN  calls' = WithTop(
               IF Top.call.host # 0
               THEN [done EXCEPT !.stage = "leave", !.call = Top.call]
               ELSE IF Top.call.kind = "accumulated"
               THEN [done EXCEPT !.stage = "accumulate"]
               ELSE done)
    /\ UNCHANGED <<unit, phase, chunk, failed, expandError, raised, cause, counter, output>>

LeaveHost ==
    /\ At("leave")
    /\ Table!PopExpansion(Top.call.host)
    /\ calls' = WithTop([Top EXCEPT !.stage = "accumulate", !.call = NoCall])
    /\ UNCHANGED <<unit, phase, chunk, failed, expandError, raised, cause, counter, output>>

\* try_expand_accumulated_function_boundary: after a call that crossed the
\* boundary, the last token of the output is tried again and again.
Accumulate ==
    /\ At("accumulate")
    /\ IF Crosses(Top.out, Top.i, 0)
       THEN StartCall([Top EXCEPT !.out = AllButLast(@)], "accumulated",
                      Callee(Top.out), Top.i, <<>>, 0)
       ELSE /\ calls' = WithTop([Top EXCEPT !.stage = "scan"])
            /\ UNCHANGED <<failed, expandError, raised, cause>>
    /\ UNCHANGED <<tableVars, unit, phase, chunk, counter, output>>

-------------------------------------------------------------------------------
(* Failure.                                                                *)

Failing(stage) == phase = "expanding" /\ failed /\ Top.stage = stage

\* return false from macro_expander_expand.
FailActivation ==
    /\ Failing("scan")
    /\ IF Len(calls) > 1
       THEN /\ calls' = AllButLast(calls)
            /\ UNCHANGED phase
       ELSE /\ calls' = <<>>
            /\ phase' = "stopped"
    /\ UNCHANGED <<tableVars, unit, chunk, failed, expandError, raised, cause, counter, output>>

\* An argument that cannot be expanded leaves the name of the macro in the
\* text and the scan goes on behind it; across a boundary it is a failure.
FailArgument_past_call ==
    /\ Failing("args")
    /\ calls' = WithTop(Emit(Top, <<Tok>>, Top.call.next))
    /\ failed' = FALSE
    /\ UNCHANGED <<tableVars, unit, phase, chunk, expandError, raised, cause, counter, output>>

FailArgument ==
    /\ Failing("args")
    /\ IF Top.call.kind = "function"
       THEN /\ calls' = WithTop(Emit(Top, <<Tok>>, Top.i + 1))
            /\ failed' = FALSE
       ELSE /\ calls' = WithTop([Top EXCEPT
                            !.stage = IF Top.call.host = 0 THEN "scan" ELSE "leave"])
            /\ failed' = TRUE
    /\ UNCHANGED <<tableVars, unit, phase, chunk, expandError, raised, cause, counter, output>>

FailBody ==
    /\ Failing("body")
    /\ Table!PopExpansion(Top.call.macro)
    /\ calls' = WithTop([Top EXCEPT
                    !.stage = IF Top.call.host = 0 THEN "scan" ELSE "leave"])
    /\ UNCHANGED <<unit, phase, chunk, failed, expandError, raised, cause, counter, output>>

FailHost ==
    /\ Failing("leave")
    /\ Table!PopExpansion(Top.call.host)
    /\ calls' = WithTop([Top EXCEPT !.stage = "scan"])
    /\ UNCHANGED <<unit, phase, chunk, failed, expandError, raised, cause, counter, output>>

-------------------------------------------------------------------------------
(* The preprocessor around the expansion.                                  *)

\* That no expansion runs meanwhile is not assumed here (see ImplementsTable).
Mutate(table) ==
    /\ phase = "idle"
    /\ mutationSerial < MaxMutations
    /\ macros' = table
    /\ mutationSerial' = mutationSerial + 1
    /\ UNCHANGED <<expansionStack, tableError, unit, phase, chunk, calls, failed,
                   expandError, raised, cause, counter, output>>

DefineMacro == \E dir \in unit.directives : Mutate(Table!Upsert(dir[1], dir[2]))

UndefMacro ==
    \E n \in Name : Table!IsDefined(n) /\ Mutate(Table!Without(Table!Position(n)))

\* pp_flush_chunk leaves out the _Pragma operators and the tokens the lexer
\* did not recognise.
Skipped(tokens, k) ==
    LET opened(j)  == IF j < Len(tokens) /\ tokens[j + 1] = "(" THEN j + 1 ELSE j
        literal(j) == IF opened(j) > j /\ opened(j) < Len(tokens)
                         /\ tokens[opened(j) + 1] = StringLiteral
                      THEN opened(j) + 1 ELSE opened(j)
        end(j)     == IF opened(j) > j /\ literal(j) < Len(tokens)
                         /\ tokens[literal(j) + 1] = ")"
                      THEN literal(j) + 1 ELSE literal(j)
    IN  \/ tokens[k] = "@"
        \/ \E j \in DOMAIN tokens : tokens[j] = "_Pragma" /\ k \in j .. end(j)

Delivered(tokens) ==
    LET kept == Where(1, Len(tokens), LAMBDA k : ~ Skipped(tokens, k))
    IN  [k \in DOMAIN kept |-> tokens[kept[k]]]

\* The error that pp_flush_chunk reports for a failed expansion.
Reported_table_first ==
    IF tableError # "none" THEN tableError
    ELSE IF expandError # "none" THEN expandError
    ELSE "failed"

Reported ==
    IF expandError # "none" THEN expandError
    ELSE IF tableError # "none" THEN tableError
    ELSE "failed"

\* pp_flush_chunk.
BeginChunk ==
    /\ phase = "idle"
    /\ counter <= MaxCounter
    /\ phase' = "expanding"
    /\ chunk' \in unit.chunks
    /\ calls' = <<Activation(chunk')>>
    /\ expandError' = "none"
    /\ raised' = {} /\ cause' = "none"
    /\ output' = <<>>
    /\ UNCHANGED <<tableVars, unit, failed, counter>>

EndChunk ==
    /\ phase = "expanding" /\ Finished
    /\ Len(calls) = 1
    /\ phase' = "done"
    /\ output' = Delivered(Top.out)
    /\ calls' = <<>>
    /\ UNCHANGED <<tableVars, unit, chunk, failed, expandError, raised, cause, counter>>

Deliver ==
    /\ phase = "done"
    /\ phase' = "idle"
    /\ chunk' = <<>>
    /\ output' = <<>>
    /\ raised' = {} /\ cause' = "none"
    /\ UNCHANGED <<tableVars, unit, calls, failed, expandError, counter>>

Init ==
    /\ macros = <<>> /\ mutationSerial = 0
    /\ expansionStack = <<>> /\ tableError = "none"
    /\ unit \in Unit
    /\ phase = "idle"
    /\ chunk = <<>>
    /\ calls = <<>>
    /\ failed = FALSE
    /\ expandError = "none"
    /\ raised = {} /\ cause = "none"
    /\ counter = 0
    /\ output = <<>>

Scan == CopyToken \/ ExpandBuiltin \/ ExpandObject \/ CallFunction

Work ==
    \/ Scan \/ ExpandArgument \/ ReturnArgument \/ ArgumentsExpanded \/ ReturnBody
    \/ FinishObject \/ FinishFunction \/ FinishBoundary \/ LeaveHost \/ Accumulate
    \/ FailActivation \/ FailArgument \/ FailBody \/ FailHost
    \/ EndChunk

Next == Work \/ DefineMacro \/ UndefMacro \/ BeginChunk \/ Deliver

Spec == Init /\ [][Next]_vars

-------------------------------------------------------------------------------
(* Properties.                                                             *)

TypeOK ==
    /\ phase \in {"idle", "expanding", "done", "stopped"}
    /\ \A k \in DOMAIN calls :
          LET a == calls[k]
          IN  /\ a.i \in 1 .. Len(a.input) + 1
              /\ a.stage \in {"scan", "args", "body", "nested", "leave", "accumulate"}
              /\ a.stage \in {"args", "body", "nested"} =>
                    /\ a.call.macro \in DOMAIN macros
                    /\ a.call.host \in 0 .. Len(macros)
                    /\ Len(a.call.expanded) <= Len(a.call.raw)
              /\ k < Len(calls) => a.stage \in {"args", "body"}
    /\ (calls # <<>>) = (phase = "expanding")
    /\ failed => phase \in {"expanding", "stopped"}
    /\ expandError \in {"none", "arg_count", "gnu_comma"}
    /\ raised \subseteq {"arg_count", "gnu_comma", "paste", "depth", "recursion"}
    /\ counter \in Nat

\* An expansion that is delivered met no wrong number of arguments, no
\* invalid ## and no refused variadic form, not even in an argument whose
\* expansion failed and was retried as plain text (the result of
\* expand_macro_arguments is dropped in macro_expander_expand).
ErrorsSurface ==
    phase = "done" => raised \cap {"arg_count", "gnu_comma", "paste"} = {}

\* What pp_flush_chunk reports is the error that stopped the expansion, not
\* one left behind by an activation that returned earlier.
ReportsTheCause ==
    phase = "stopped" => Reported = IF cause = "paste" THEN "failed" ELSE cause

\* The expander keeps the contract of the macro table: it pushes and pops
\* entries that are there, and the table changes only between expansions.
ImplementsTable == Table!Spec
===============================================================================
