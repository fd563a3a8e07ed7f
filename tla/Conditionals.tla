---------------------------- MODULE Conditionals ----------------------------
(***************************************************************************)
(* The conditional stack of one token buffer: the frames of                *)
(* pp_internal.h and the operations of preprocessor_conditionals.c, as     *)
(* operators from a stack to [ok, stack].  ok is the value the C function  *)
(* returns: FALSE makes preprocess_tokens give up on the buffer.           *)
(*                                                                         *)
(* An #if expression is abstracted to the outcome of evaluating it:        *)
(* "true", "false", or "invalid" when pp_prepare_expr_tokens or            *)
(* preprocessor_eval_tokens fails.                                         *)
(***************************************************************************)
EXTENDS Naturals, Sequences

CondValue == {"true", "false", "invalid"}

\* PPConditionalFrame
Frame == [parentActive : BOOLEAN, selfActive : BOOLEAN,
          branchTaken : BOOLEAN, sawElse : BOOLEAN]

Top(stack) == stack[Len(stack)]

\* Only the innermost frame is consulted.
conditional_stack_is_active(stack) ==
    Len(stack) = 0 \/ Top(stack).selfActive

NewFrame(parent, self) ==
    [parentActive |-> parent, selfActive |-> parent /\ self,
     branchTaken |-> parent /\ self, sawElse |-> FALSE]

\* The frame once a later branch of its conditional begins.
BranchFrame(frame, taken, isElse) ==
    [frame EXCEPT !.selfActive = taken,
                  !.branchTaken = @ \/ taken,
                  !.sawElse = isElse]

ReplaceTop(stack, frame) == [stack EXCEPT ![Len(stack)] = frame]

Accept(stack) == [ok |-> TRUE, stack |-> stack]

Reject(stack) == [ok |-> FALSE, stack |-> stack]

\* The expression is evaluated, and can be invalid, only in an active region.
process_if(stack, cond) ==
    LET parent == conditional_stack_is_active(stack) IN
    IF parent /\ cond = "invalid"
    THEN Reject(stack)
    ELSE Accept(Append(stack, NewFrame(parent, cond = "true")))

\* #ifdef and #ifndef; a missing name or trailing tokens are an error even in
\* a skipped region.
process_ifdeflike(stack, wellFormed, isDefined, negate) ==
    LET parent == conditional_stack_is_active(stack) IN
    IF ~wellFormed
    THEN Reject(stack)
    ELSE Accept(Append(stack,
                  NewFrame(parent, IF negate THEN ~isDefined ELSE isDefined)))

\* Faulty variant: evaluates and takes the branch whatever was taken before.
process_elif_ignoring_taken(stack, cond, lenient) ==
    IF Len(stack) = 0 \/ Top(stack).sawElse
    THEN [ok |-> lenient, stack |-> stack]
    ELSE LET frame == Top(stack)
             taken == frame.parentActive /\ cond = "true"
         IN Accept(ReplaceTop(stack, BranchFrame(frame, taken, FALSE)))

\* A stray #elif, or one after #else, is diagnosed; lenientMissingIncludes
\* decides whether the buffer goes on, with the frame as it was.
process_elif(stack, cond, lenient) ==
    IF Len(stack) = 0 \/ Top(stack).sawElse
    THEN [ok |-> lenient, stack |-> stack]
    ELSE LET frame == Top(stack)
             evaluated == frame.parentActive /\ ~frame.branchTaken
             taken == evaluated /\ cond = "true"
         IN IF evaluated /\ cond = "invalid"
            THEN Reject(stack)
            ELSE Accept(ReplaceTop(stack,
                          BranchFrame(frame, taken, frame.sawElse)))

\* Faulty variant: an #else that follows a taken branch in a skipped region.
process_else_ignoring_parent(stack, lenient) ==
    IF Len(stack) = 0 \/ Top(stack).sawElse
    THEN [ok |-> lenient, stack |-> stack]
    ELSE Accept(ReplaceTop(stack,
           [Top(stack) EXCEPT !.selfActive = ~Top(stack).branchTaken,
                              !.branchTaken = TRUE,
                              !.sawElse = TRUE]))

process_else(stack, lenient) ==
    IF Len(stack) = 0 \/ Top(stack).sawElse
    THEN [ok |-> lenient, stack |-> stack]
    ELSE LET frame == Top(stack)
             taken == frame.parentActive /\ ~frame.branchTaken
         IN Accept(ReplaceTop(stack, BranchFrame(frame, taken, TRUE)))

process_endif(stack, lenient) ==
    IF Len(stack) = 0
    THEN [ok |-> lenient, stack |-> stack]
    ELSE Accept(SubSeq(stack, 1, Len(stack) - 1))
=============================================================================
