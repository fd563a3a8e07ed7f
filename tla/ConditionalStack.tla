--------------------------- MODULE ConditionalStack ---------------------------
(***************************************************************************)
(* The token loop of preprocess_tokens over one buffer, seen through the   *)
(* conditional stack: which lines reach the output and how the buffer ends.*)
(* The buffer is any sequence of lines, one action per kind of line.       *)
(***************************************************************************)
EXTENDS Conditionals

CONSTANTS Lenient,      \* pp->lenientMissingIncludes
          MaxNesting    \* bound on open conditionals

ASSUME ConditionalStackAssumption ==
    Lenient \in BOOLEAN /\ MaxNesting \in Nat

VARIABLES stack,        \* condStack[0 .. condDepth)
          status,       \* "running", "ok" or "failed": the value returned
          text          \* the last line was "kept", "dropped", or "none" if it
                        \* was a directive

condVars == <<stack, status, text>>

CondTypeOK == /\ stack \in Seq(Frame)
          /\ status \in {"running", "ok", "failed"}
          /\ text \in {"none", "kept", "dropped"}

CondInit == stack = <<>> /\ status = "running" /\ text = "none"

\* What the loop does with the result of a conditional directive.
Apply(result) == /\ stack' = result.stack
                 /\ status' = IF result.ok THEN "running" ELSE "failed"

Running == status = "running"

DoIf(cond) == /\ Running
              /\ Len(stack) < MaxNesting
              /\ Apply(process_if(stack, cond))
              /\ text' = "none"

DoIfdef(wellFormed, isDefined, negate) ==
    /\ Running
    /\ Len(stack) < MaxNesting
    /\ Apply(process_ifdeflike(stack, wellFormed, isDefined, negate))
    /\ text' = "none"

\* A rejected #elif that leniency lets pass leaves the cursor on the
\* directive: the tokens of its expression are read as text.
StrayElif == Len(stack) = 0 \/ Top(stack).sawElse

DoElif(cond) ==
    /\ Running
    /\ Apply(process_elif(stack, cond, Lenient))
    /\ text' \in {"none"} \cup
          (IF StrayElif /\ Lenient /\ conditional_stack_is_active(stack)
           THEN {"kept"} ELSE {})

DoElse(trailing) ==
    /\ Running
    /\ Apply(IF trailing THEN Reject(stack) ELSE process_else(stack, Lenient))
    /\ text' = "none"

DoEndif(trailing) ==
    /\ Running
    /\ Apply(IF trailing THEN Reject(stack) ELSE process_endif(stack, Lenient))
    /\ text' = "none"

\* #define, #undef, #include, #pragma, #line and unknown directives are handled,
\* and can fail, only in an active region.
DoDirective(succeeds) ==
    /\ Running
    /\ status' = IF conditional_stack_is_active(stack) /\ ~succeeds
                 THEN "failed" ELSE "running"
    /\ text' = "none"
    /\ UNCHANGED stack

DoText == /\ Running
          /\ text' = IF conditional_stack_is_active(stack)
                     THEN "kept" ELSE "dropped"
          /\ UNCHANGED <<stack, status>>

\* After the last token: an open conditional is an error.
DoEnd == /\ Running
         /\ status' = IF Len(stack) = 0 THEN "ok" ELSE "failed"
         /\ text' = "none"
         /\ UNCHANGED stack

CondNext == \/ \E cond \in CondValue : DoIf(cond) \/ DoElif(cond)
        \/ \E wf, def, neg \in BOOLEAN : DoIfdef(wf, def, neg)
        \/ \E trailing \in BOOLEAN : DoElse(trailing) \/ DoEndif(trailing)
        \/ \E succeeds \in BOOLEAN : DoDirective(succeeds)
        \/ DoText
        \/ DoEnd

CondSpec == CondInit /\ [][CondNext]_condVars

-------------------------------------------------------------------------------

\* The flag a frame keeps of its surroundings is the state of the frame below
\* it, although process_if took it when the frame was pushed; and a branch is
\* only ever active inside an active one and once recorded as taken.
ChainOK ==
    \A i \in 1..Len(stack) :
       /\ stack[i].parentActive <=> (i = 1 \/ stack[i - 1].selfActive)
       /\ stack[i].selfActive => stack[i].parentActive /\ stack[i].branchTaken
       /\ stack[i].branchTaken => stack[i].parentActive

\* No branch is active inside one that is not.  With ChainOK, the inductive
\* invariant behind ActiveIffAllSelected.
NestedActive ==
    \A i, j \in 1..Len(stack) :
       i <= j /\ stack[j].selfActive => stack[i].selfActive

\* conditional_stack_is_active looks at the innermost frame only; that is enough:
\* a line is active exactly when every enclosing branch is.
ActiveIffAllSelected ==
    conditional_stack_is_active(stack) <=>
        \A i \in 1..Len(stack) : stack[i].selfActive

\* Of the branches of one conditional at most one is processed: once a branch
\* has been taken and left, no #elif or #else of that conditional is active.
OneBranchPerGroup ==
    [][\A i \in 1..Len(stack) :
          /\ i <= Len(stack')
          /\ stack[i].branchTaken /\ stack'[i] # stack[i]
          => ~stack'[i].selfActive]_condVars

\* The frames seen as the phases of ConditionalGroups.
PhaseOf(frame) == CASE ~frame.parentActive -> "skipped"
                    [] frame.selfActive -> "in"
                    [] frame.parentActive /\ ~frame.selfActive /\ frame.branchTaken
                         -> "after"
                    [] OTHER -> "before"

Groups == INSTANCE ConditionalGroups WITH
            groups <- [i \in 1..Len(stack) |-> PhaseOf(stack[i])],
            closed <- [i \in 1..Len(stack) |-> stack[i].sawElse]

\* The token loop implements ConditionalGroups: exactly the text whose enclosing
\* groups are all in their first true branch reaches the output.
ImplementsGroups == Groups!Spec
===============================================================================
