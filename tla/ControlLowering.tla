---------------------------- MODULE ControlLowering ----------------------------
(***************************************************************************)
(* The lowering of statements and of the expressions that branch to basic  *)
(* blocks (src/CodeGen/codegen_control_flow.c, codegen_stmt.c and          *)
(* Expr/codegen_expr_scalar_control.c).  The function being built is a     *)
(* sequence of blocks [code, term] and the block the builder stands at,    *)
(* with the stack of break and continue targets and the blocks of labels   *)
(* and cases.  An operand is evaluated at the place it is written at; the  *)
(* branches use the value computed last.  A block without a terminator is  *)
(* refused by LLVM, and so is an instruction behind one (broken).          *)
(***************************************************************************)
EXTENDS SyntaxTree, SequencesExt, Functions, FiniteSetsExt

\* kind, the place it stands for, the blocks it leads to, and the case
\* values that choose between them.
Term(kind, at, to, values) == [kind |-> kind, at |-> at, to |-> to, values |-> values]

Open == Term("none", 0, <<>>, <<>>)

Br(b) == Term("br", 0, <<b>>, <<>>)
CondBr(yes, no) == Term("condbr", 0, <<yes, no>>, <<>>)
Ret(at) == Term("ret", at, <<>>, <<>>)

\* An evaluation, a negation, or a phi with the value it takes from each
\* block before it: a constant, the value computed there or its truth.
Instr(kind, at, from) == [kind |-> kind, at |-> at, from |-> from]

Eval(at) == Instr("eval", at, {})
Not == Instr("not", 0, {})
Phi(from) == Instr("phi", 0, from)

NoTarget == 0

\* LLVMAppendBasicBlock: the new block is the last one.
Grown(g, n) == [g EXCEPT !.blocks = @ \o [i \in 1 .. n |-> [code |-> <<>>, term |-> Open]]]

At(g, b) == [g EXCEPT !.cur = b]

cg_builder_block_terminated(g) == g.blocks[g.cur].term # Open

\* A terminator or an instruction goes to the end of the current block.
Close(g, t) ==
    IF cg_builder_block_terminated(g) THEN [g EXCEPT !.broken = TRUE]
    ELSE [g EXCEPT !.blocks[g.cur].term = t]

Emit(g, i) ==
    IF cg_builder_block_terminated(g) THEN [g EXCEPT !.broken = TRUE]
    ELSE [g EXCEPT !.blocks[g.cur].code = Append(@, i)]

\* The branch the code adds only where the block is still open.
FallTo(g, b) == IF cg_builder_block_terminated(g) THEN g ELSE Close(g, Br(b))

cg_loop_push(g, break, continue) == [g EXCEPT !.loops = Append(@, [break |-> break, continue |-> continue])]
cg_loop_pop(g) == [g EXCEPT !.loops = Front(@)]

cg_loop_peek(g) == IF g.loops = <<>> THEN NoTarget ELSE Last(g.loops).break

\* A switch pushes no continue target: continue looks below it.
cg_loop_peek_for_continue(g) ==
    LET i == SelectLastInSeq(g.loops, LAMBDA t : t.continue # NoTarget)
    IN  IF i = 0 THEN NoTarget ELSE g.loops[i].continue

\* Faulty variant: labels do not open a block again.
cg_statement_can_reopen_block_case(n) == n.type = "case"

cg_statement_can_reopen_block(n) == n.type \in {"label", "case"}

cg_should_emit_statement_in_current_block(g, n) ==
    ~cg_builder_block_terminated(g) \/ cg_statement_can_reopen_block(n)

RECURSIVE cg_collect_switch_cases(_), cg_contains_owned_switch_case(_)

cg_collect_switch_cases(n) ==
    LET inner == FoldLeft(LAMBDA s, k : s \o cg_collect_switch_cases(k), <<>>, n.kids)
    IN  CASE n.type = "case" -> <<n>> \o inner
          [] n.type \in {"block", "if", "while", "do", "for", "label"} -> inner
          [] OTHER -> <<>>

cg_contains_owned_switch_case(n) ==
    \/ n.type = "case"
    \/ /\ n.type \in {"block", "if", "while", "do", "for", "label"}
       /\ \E i \in DOMAIN n.kids : cg_contains_owned_switch_case(n.kids[i])

RECURSIVE codegenNode(_, _), EmitAll(_, _), EmitItems(_, _)

EmitAll(g, list) ==
    CASE list = <<>> -> g
      [] list # <<>> /\ cg_should_emit_statement_in_current_block(g, Head(list)) ->
             EmitAll(codegenNode(g, Head(list)), Tail(list))
      [] OTHER -> EmitAll(g, Tail(list))

-------------------------------------------------------------------------------
(* Expressions.                                                            *)

RECURSIVE codegenExpression(_, _)

\* Faulty variant: the phi names the blocks the arms begin in.
TernaryMerge_starts(true, b, n) ==
    LET false == codegenExpression(At(Close(true, Br(b + 3)), b + 2), n.kids[3])
    IN  IF true.broken THEN true
        ELSE Emit(At(Close(false, Br(b + 3)), b + 3), Phi({<<b + 1, "value">>, <<b + 2, "value">>}))

\* The second arm, and the block behind both.  The arms may add blocks:
\* the phi names the blocks they end in.
TernaryMerge(true, b, n) ==
    LET false == codegenExpression(At(Close(true, Br(b + 3)), b + 2), n.kids[3])
    IN  IF true.broken THEN true
        ELSE Emit(At(Close(false, Br(b + 3)), b + 3), Phi({<<true.cur, "value">>, <<false.cur, "value">>}))

TernaryArms(tested, n) ==
    LET b == Len(tested.blocks)
        start == Close(Grown(tested, 3), CondBr(b + 1, b + 2))
    IN  IF tested.broken THEN tested
        ELSE TernaryMerge(codegenExpression(At(start, b + 1), n.kids[2]), b, n)

codegenTernaryExpression(g, n) == TernaryArms(codegenExpression(g, n.kids[1]), n)

codegenLogicalAndOr(g, rhs, isAnd) ==
    LET b == Len(g.blocks)
        start == Close(Grown(g, 2), IF isAnd THEN CondBr(b + 1, b + 2) ELSE CondBr(b + 2, b + 1))
        right == codegenExpression(At(start, b + 1), rhs)
    IN  Emit(At(Close(right, Br(b + 2)), b + 2),
             Phi({<<g.cur, IF isAnd THEN "0" ELSE "1">>, <<right.cur, "truth">>}))

\* What LLVM refuses already stays as it is, here and below.
codegenExpression(g, n) ==
    IF g.broken THEN g ELSE
    CASE n.type = "comma" -> FoldLeft(codegenExpression, g, n.kids)
      [] n.type = "ternary" -> codegenTernaryExpression(g, n)
      [] n.type = "binary" -> codegenLogicalAndOr(codegenExpression(g, n.kids[1]), n.kids[2], n.name = "&&")
      [] n.type = "prefix" -> Emit(codegenExpression(g, n.kids[1]), Not)
      [] OTHER -> Emit(g, Eval(n.at))

-------------------------------------------------------------------------------
(* Selection and loops.                                                    *)

codegenIfStatement(g, n) ==
    LET entry == IF cg_builder_block_terminated(g) THEN At(Grown(g, 1), Len(g.blocks) + 1) ELSE g
        tested == codegenExpression(entry, n.kids[1])
        then == Len(tested.blocks) + 1
        hasElse == n.kids[3] # Null
        merge == IF hasElse THEN then + 2 ELSE then + 1
        start == Close(Grown(tested, merge - then + 1), CondBr(then, then + 1))
        afterThen == FallTo(codegenNode(At(start, then), n.kids[2]), merge)
        afterElse == IF hasElse THEN FallTo(codegenNode(At(afterThen, then + 1), n.kids[3]), merge)
                     ELSE afterThen
    IN  IF n.kids[1] = Null THEN g ELSE At(afterElse, merge)

codegenWhileLoop(g, n) ==
    LET cond == Len(g.blocks) + 1
        body == cond + 1
        after == cond + 2
        enter == FallTo(Grown(g, 3), IF n.type = "do" THEN body ELSE cond)
        Tested(h) == Close(codegenExpression(At(h, cond), n.kids[1]), CondBr(body, after))
        Looped(h) == FallTo(cg_loop_pop(codegenNode(cg_loop_push(At(h, body), after, cond), n.kids[2])), cond)
    IN  At(IF n.type = "do" THEN Tested(Looped(enter)) ELSE Looped(Tested(enter)), after)

\* Without a condition the constant 1 is tested.
codegenForLoop(g, n) ==
    LET cond == Len(g.blocks) + 1
        body == cond + 1
        inc == cond + 2
        after == cond + 3
        grown == Grown(g, 4)
        placed == IF cg_builder_block_terminated(g) THEN At(Grown(grown, 1), after + 1) ELSE grown
        begun == CASE n.kids[1] = Null -> grown
                   [] n.kids[1].type = "vla" -> placed
                   [] OTHER -> codegenExpression(placed, n.kids[1])
        checked == At(FallTo(begun, cond), cond)
        tested == IF n.kids[2] = Null THEN Close(checked, Br(body))
                  ELSE Close(codegenExpression(checked, n.kids[2]), CondBr(body, after))
        looped == FallTo(cg_loop_pop(codegenNode(cg_loop_push(At(tested, body), after, inc), n.kids[4])), inc)
        stepped == IF n.kids[3] = Null THEN At(looped, inc) ELSE codegenExpression(At(looped, inc), n.kids[3])
    IN  At(FallTo(stepped, cond), after)

\* break and continue; without a target an error is printed and nothing
\* is emitted.
Jump(g, target) == IF target = NoTarget THEN g ELSE Close(g, Br(target))

-------------------------------------------------------------------------------
(* switch.  The blocks of the cases are made first, then the dispatch on    *)
(* the value of the condition, then the statements in order.               *)

Number(v) == CASE v = "1" -> 1 [] v = "2" -> 2 [] v = "9" -> 9

\* A switch instruction is used where the values are dense: the span is at
\* most twice their number.  Otherwise they are compared one by one.
Dense(real) ==
    LET ns == {Number(real[i].name) : i \in DOMAIN real}
    IN  real # <<>> /\ Max(ns) - Min(ns) + 1 <= 2 * Len(real)

Dispatch(g, real, blockOf, other) ==
    LET first == Len(g.blocks)
        Compare(h, i) ==
            At(Close(h, Term("cmp", 0, <<blockOf[i], first + i>>, <<real[i].name>>)), first + i)
    IN  IF Dense(real)
        THEN Close(g, Term("switch", 0, <<other>> \o blockOf, [i \in DOMAIN real |-> real[i].name]))
        ELSE Close(FoldLeft(Compare, Grown(g, Len(real)), [i \in DOMAIN real |-> i]), Br(other))

\* The items of the body; one that holds a case is entered behind a jump too.
EmitItems(g, list) ==
    CASE list = <<>> -> g
      [] list # <<>> /\ (\/ cg_should_emit_statement_in_current_block(g, Head(list))
                         \/ cg_contains_owned_switch_case(Head(list))) ->
             EmitItems(codegenNode(g, Head(list)), Tail(list))
      [] OTHER -> EmitItems(g, Tail(list))

codegenSwitch(g, n) ==
    LET cases == FoldLeft(LAMBDA s, k : s \o cg_collect_switch_cases(k), <<>>, Tail(n.kids))
        real == SelectSeq(cases, LAMBDA c : c.name # "default")
        default == SelectInSeq(cases, LAMBDA c : c.name = "default")
        selected == codegenExpression(g, n.kids[1])
        end == Len(selected.blocks) + 1
        blockOf == [i \in DOMAIN real |-> end + i]
        defaultBB == end + Len(real) + 1
        bound == [Grown(selected, 1 + Len(real) + (IF default = 0 THEN 0 ELSE 1)) EXCEPT
                     !.cases = [i \in {real[j].at : j \in DOMAIN real} |->
                                    blockOf[SelectInSeq(real, LAMBDA c : c.at = i)]]
                               @@ (IF default = 0 THEN <<>> ELSE [i \in {cases[default].at} |-> defaultBB])
                               @@ @]
        dispatched == Dispatch(cg_loop_push(bound, end, NoTarget), real, blockOf,
                               IF default = 0 THEN end ELSE defaultBB)
        done == FallTo(EmitItems(dispatched, Tail(n.kids)), end)
    IN  At([cg_loop_pop(done) EXCEPT !.cases = g.cases], end)

\* A case that has no block (a second default) is skipped.
codegenCase(g, n) ==
    IF n.at \notin DOMAIN g.cases THEN g
    ELSE EmitAll(At(IF g.cur = g.cases[n.at] THEN g ELSE FallTo(g, g.cases[n.at]), g.cases[n.at]), n.kids)

-------------------------------------------------------------------------------
(* Labels and the rest.                                                    *)

cg_label_ensure_block(g, name) ==
    IF name \in DOMAIN g.labels THEN g
    ELSE [Grown(g, 1) EXCEPT !.labels = [i \in {name} |-> Len(g.blocks) + 1] @@ @]

codegenLabel(g, n) ==
    LET h == cg_label_ensure_block(g, n.name)
        b == h.labels[n.name]
        placed == At(IF h.cur = b THEN h ELSE FallTo(h, b), b)
    IN  IF n.kids[1] = Null THEN placed ELSE codegenNode(placed, n.kids[1])

\* Behind a goto the builder goes on in a block of its own.
codegenGoto(g, n) ==
    LET h == cg_label_ensure_block(g, n.name)
        b == Len(h.blocks)
        sunk == Close(At(Grown(Close(h, Br(h.labels[n.name])), 2), b + 1), Term("unreachable", 0, <<>>, <<>>))
    IN  At(sunk, b + 2)

codegenReturn(g, n) == Close(codegenExpression(g, n.kids[1]), Ret(n.at))

codegenNode(g, n) ==
    IF g.broken THEN g ELSE
    CASE n.type = "block" -> EmitAll(g, n.kids)
      [] n.type = "if" -> codegenIfStatement(g, n)
      [] n.type \in {"while", "do"} -> codegenWhileLoop(g, n)
      [] n.type = "for" -> codegenForLoop(g, n)
      [] n.type = "switch" -> codegenSwitch(g, n)
      [] n.type = "case" -> codegenCase(g, n)
      [] n.type = "label" -> codegenLabel(g, n)
      [] n.type = "goto" -> codegenGoto(g, n)
      [] n.type = "break" -> Jump(g, cg_loop_peek(g))
      [] n.type = "continue" -> Jump(g, cg_loop_peek_for_continue(g))
      [] n.type = "return" -> codegenReturn(g, n)
      [] n.type = "vla" -> g
      [] OTHER -> codegenExpression(g, n)

\* The return of zero where the last block of the function is open.
Finished(g) == IF cg_builder_block_terminated(g) THEN g ELSE Close(g, Ret(0))

codegenFunctionDefinition(f) ==
    Finished(codegenNode([blocks |-> <<[code |-> <<>>, term |-> Open]>>, cur |-> 1, loops |-> <<>>,
                          labels |-> [i \in {} |-> 0], cases |-> [i \in {} |-> 0], broken |-> FALSE], f))
===============================================================================
