-------------------------- MODULE ConditionalGroups --------------------------
(***************************************************************************)
(* What conditional inclusion promises, without frames or flags: the open  *)
(* #if groups of a buffer, each in one of four phases,                     *)
(*                                                                         *)
(*   "before"  no branch of the group has been selected yet                *)
(*   "in"      the current branch is the selected one                      *)
(*   "after"   the selected branch is over                                 *)
(*   "skipped" the whole group lies in text that is not selected           *)
(*                                                                         *)
(* and a line of text is kept exactly when every open group is "in".       *)
(***************************************************************************)
EXTENDS Naturals, Sequences

CONSTANT Lenient        \* errors in the #else/#elif/#endif structure go on

VARIABLES groups,       \* the phase of each open group, outermost first
          closed,       \* per open group: has its #else been seen
          status,       \* "running", "ok" or "failed"
          text          \* what happened to the last line: "kept", "dropped",
                        \* or "none" when it was a directive

vars == <<groups, closed, status, text>>

Phase == {"before", "in", "after", "skipped"}

Selected == \A i \in 1..Len(groups) : groups[i] = "in"

Init == groups = <<>> /\ closed = <<>> /\ status = "running" /\ text = "none"

Fail == status' = "failed" /\ text' = "none" /\ UNCHANGED <<groups, closed>>

\* #if, #ifdef, #ifndef
Open == /\ status = "running"
        /\ \E phase \in Phase :
              /\ Selected => phase \in {"before", "in"}
              /\ ~Selected => phase = "skipped"
              /\ groups' = Append(groups, phase)
              /\ closed' = Append(closed, FALSE)
        /\ text' = "none"
        /\ UNCHANGED status

\* #elif, #else: the phases a group may move to
Follow(phase) == CASE phase = "before"  -> {"before", "in"}
                   [] phase = "in"      -> {"after"}
                   [] phase = "after"   -> {"after"}
                   [] phase = "skipped" -> {"skipped"}

Branch == /\ status = "running"
          /\ Len(groups) > 0
          /\ ~closed[Len(groups)]
          /\ \E phase \in Follow(groups[Len(groups)]), isElse \in BOOLEAN :
                /\ isElse => phase # "before"
                /\ groups' = [groups EXCEPT ![Len(groups)] = phase]
                /\ closed' = [closed EXCEPT ![Len(groups)] = isElse]
          /\ text' = "none"
          /\ UNCHANGED status

\* #endif
Close == /\ status = "running"
         /\ Len(groups) > 0
         /\ groups' = SubSeq(groups, 1, Len(groups) - 1)
         /\ closed' = SubSeq(closed, 1, Len(groups) - 1)
         /\ text' = "none"
         /\ UNCHANGED status

\* #elif or #else where there is none to take, or #endif with no group open.
\* Leniency ignores the directive; what follows it on the line is text.
Stray == /\ status = "running"
         /\ Len(groups) = 0 \/ closed[Len(groups)]
         /\ \/ /\ Lenient
               /\ text' \in {"none"} \cup (IF Selected THEN {"kept"} ELSE {})
               /\ UNCHANGED <<groups, closed, status>>
            \/ ~Lenient /\ Fail

Malformed == status = "running" /\ Fail

\* A directive that is not about groups.
Other == status = "running" /\ text' = "none" /\ UNCHANGED <<groups, closed, status>>

Line == /\ status = "running"
        /\ text' = IF Selected THEN "kept" ELSE "dropped"
        /\ UNCHANGED <<groups, closed, status>>

Finish == /\ status = "running"
          /\ status' = IF groups = <<>> THEN "ok" ELSE "failed"
          /\ text' = "none"
          /\ UNCHANGED <<groups, closed>>

Next == Open \/ Branch \/ Close \/ Stray \/ Malformed \/ Other \/ Line \/ Finish

Spec == Init /\ [][Next]_vars
=============================================================================
