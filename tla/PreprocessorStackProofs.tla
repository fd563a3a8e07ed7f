------------------------ MODULE PreprocessorStackProofs ------------------------
(***************************************************************************)
(* Proofs about the two stacks of the preprocessor.  The conditional stack,*)
(* for any nesting and either leniency: exactly the text whose enclosing   *)
(* branches are all selected is kept.  The include stack, for any paths,   *)
(* any hash function and any depth: find_slot always halts and contains is *)
(* exact.                                                                  *)
(***************************************************************************)
EXTENDS ConditionalStack, IncludeStack, WellFoundedInduction, FiniteSetTheorems,
        FunctionTheorems, TLAPS

-------------------------------------------------------------------------------
(* The conditional stack.                                                  *)

LEMMA ActiveType == \A s \in Seq(Frame) : conditional_stack_is_active(s) \in BOOLEAN
  BY DEF conditional_stack_is_active, Top, Frame

LEMMA NewFrameType ==
    ASSUME NEW parent \in BOOLEAN, NEW self \in BOOLEAN
    PROVE  NewFrame(parent, self) \in Frame
  BY DEF NewFrame, Frame

\* The result of an operation on a stack: the flag returned and a stack.
Result == [ok : BOOLEAN, stack : Seq(Frame)]

LEMMA ReplaceTopType ==
    ASSUME NEW s \in Seq(Frame), Len(s) > 0, NEW f \in Frame
    PROVE  /\ ReplaceTop(s, f) \in Seq(Frame)
           /\ Len(ReplaceTop(s, f)) = Len(s)
           /\ ReplaceTop(s, f)[Len(s)] = f
           /\ \A i \in 1..Len(s) : i # Len(s) => ReplaceTop(s, f)[i] = s[i]
  BY DEF ReplaceTop

LEMMA process_if_type ==
    ASSUME NEW s \in Seq(Frame), NEW cond \in CondValue
    PROVE  process_if(s, cond) \in Result
<1> DEFINE parent == conditional_stack_is_active(s)
<1>1. parent \in BOOLEAN
  BY ActiveType
<1>2. NewFrame(parent, cond = "true") \in Frame
  BY <1>1, NewFrameType
<1> HIDE DEF parent
<1> QED
  BY <1>1, <1>2 DEF process_if, parent, Accept, Reject, Result

LEMMA process_ifdeflike_type ==
    ASSUME NEW s \in Seq(Frame), NEW wf \in BOOLEAN, NEW isDef \in BOOLEAN,
           NEW negate \in BOOLEAN
    PROVE  process_ifdeflike(s, wf, isDef, negate) \in Result
<1> DEFINE parent == conditional_stack_is_active(s)
           self == IF negate THEN ~isDef ELSE isDef
<1>1. parent \in BOOLEAN /\ self \in BOOLEAN
  BY ActiveType
<1>2. NewFrame(parent, self) \in Frame
  BY <1>1, NewFrameType
<1> HIDE DEF parent
<1> QED
  BY <1>1, <1>2 DEF process_ifdeflike, parent, Accept, Reject, Result

LEMMA BranchFrameType ==
    ASSUME NEW f \in Frame, NEW taken \in BOOLEAN, NEW isElse \in BOOLEAN
    PROVE  /\ BranchFrame(f, taken, isElse) \in Frame
           /\ BranchFrame(f, taken, isElse).parentActive = f.parentActive
           /\ BranchFrame(f, taken, isElse).selfActive = taken
           /\ BranchFrame(f, taken, isElse).branchTaken = (f.branchTaken \/ taken)
           /\ BranchFrame(f, taken, isElse).sawElse = isElse
  BY DEF BranchFrame, Frame

LEMMA process_elif_type ==
    ASSUME NEW s \in Seq(Frame), NEW cond \in CondValue, NEW lenient \in BOOLEAN
    PROVE  process_elif(s, cond, lenient) \in Result
<1>1. CASE Len(s) = 0 \/ Top(s).sawElse
  BY <1>1 DEF process_elif, Result
<1>2. CASE ~(Len(s) = 0 \/ Top(s).sawElse)
  <2> DEFINE f == Top(s)
             evaluated == f.parentActive /\ ~f.branchTaken
             taken == evaluated /\ cond = "true"
             g == BranchFrame(f, taken, f.sawElse)
  <2>1. f \in Frame /\ Len(s) > 0
    BY <1>2 DEF Top
  <2>2. g \in Frame
    BY <2>1, BranchFrameType DEF Frame
  <2>3. ReplaceTop(s, g) \in Seq(Frame)
    BY <2>1, <2>2, ReplaceTopType
  <2>4. process_elif(s, cond, lenient) =
          IF evaluated /\ cond = "invalid" THEN Reject(s)
                                           ELSE Accept(ReplaceTop(s, g))
    BY <1>2 DEF process_elif
  <2> QED
    BY <2>3, <2>4 DEF Accept, Reject, Result
<1> QED
  BY <1>1, <1>2

LEMMA process_else_type ==
    ASSUME NEW s \in Seq(Frame), NEW lenient \in BOOLEAN
    PROVE  process_else(s, lenient) \in Result
<1>1. CASE Len(s) = 0 \/ Top(s).sawElse
  BY <1>1 DEF process_else, Result
<1>2. CASE ~(Len(s) = 0 \/ Top(s).sawElse)
  <2> DEFINE f == Top(s)
             taken == f.parentActive /\ ~f.branchTaken
             g == BranchFrame(f, taken, TRUE)
  <2>1. f \in Frame /\ Len(s) > 0
    BY <1>2 DEF Top
  <2>2. g \in Frame
    BY <2>1, BranchFrameType DEF Frame
  <2>3. ReplaceTop(s, g) \in Seq(Frame)
    BY <2>1, <2>2, ReplaceTopType
  <2>4. process_else(s, lenient) = Accept(ReplaceTop(s, g))
    BY <1>2 DEF process_else
  <2> HIDE DEF f, taken, g
  <2> QED
    BY <2>3, <2>4 DEF Accept, Result
<1> QED
  BY <1>1, <1>2

LEMMA process_endif_type ==
    ASSUME NEW s \in Seq(Frame), NEW lenient \in BOOLEAN
    PROVE  process_endif(s, lenient) \in Result
  BY DEF process_endif, Accept, Result

------------------------------------------------------------------------------
\* Every frame keeps its four flags, and the loop's verdicts stay in their
\* types, whatever lines the buffer holds.
THEOREM CondTypeCorrect == CondSpec => []CondTypeOK
<1>1. CondInit => CondTypeOK
  BY DEF CondInit, CondTypeOK
<1>2. CondTypeOK /\ [CondNext]_condVars => CondTypeOK'
  <2> SUFFICES ASSUME CondTypeOK, [CondNext]_condVars PROVE CondTypeOK'
    OBVIOUS
  <2> USE ConditionalStackAssumption DEF CondTypeOK
  <2>1. ASSUME NEW r \in Result, Apply(r), text' \in {"none", "kept", "dropped"}
        PROVE  CondTypeOK'
    BY <2>1 DEF Apply, Result
  <2>2. ASSUME NEW cond \in CondValue, DoIf(cond) PROVE CondTypeOK'
    BY <2>1, <2>2, process_if_type DEF DoIf
  <2>3. ASSUME NEW cond \in CondValue, DoElif(cond) PROVE CondTypeOK'
    <3>1. text' \in {"none", "kept", "dropped"}
      BY <2>3 DEF DoElif
    <3> QED
      BY <2>1, <2>3, <3>1, process_elif_type DEF DoElif
  <2>4. ASSUME NEW wf \in BOOLEAN, NEW def \in BOOLEAN, NEW neg \in BOOLEAN,
               DoIfdef(wf, def, neg)
        PROVE  CondTypeOK'
    BY <2>1, <2>4, process_ifdeflike_type DEF DoIfdef
  <2>5. ASSUME NEW trailing \in BOOLEAN, DoElse(trailing) PROVE CondTypeOK'
    <3>1. (IF trailing THEN Reject(stack) ELSE process_else(stack, Lenient)) \in Result
      BY process_else_type DEF Reject, Result
    <3> QED
      BY <2>1, <2>5, <3>1 DEF DoElse
  <2>6. ASSUME NEW trailing \in BOOLEAN, DoEndif(trailing) PROVE CondTypeOK'
    <3>1. (IF trailing THEN Reject(stack) ELSE process_endif(stack, Lenient)) \in Result
      BY process_endif_type DEF Reject, Result
    <3> QED
      BY <2>1, <2>6, <3>1 DEF DoEndif
  <2>7. ASSUME NEW succeeds \in BOOLEAN, DoDirective(succeeds) PROVE CondTypeOK'
    BY <2>7 DEF DoDirective
  <2>8. CASE DoText
    BY <2>8 DEF DoText
  <2>9. CASE DoEnd
    BY <2>9 DEF DoEnd
  <2>10. CASE UNCHANGED condVars
    BY <2>10 DEF condVars
  <2> QED
    BY <2>2, <2>3, <2>4, <2>5, <2>6, <2>7, <2>8, <2>9, <2>10 DEF CondNext
<1> QED
  BY <1>1, <1>2, PTL DEF CondSpec

------------------------------------------------------------------------------
(***************************************************************************)
(* The inductive invariant.  ChainOK alone does not give                   *)
(* ActiveIffAllSelected without an induction along the stack; NestedActive *)
(* says the same for any two frames, so one step of the machine preserves  *)
(* it with the frames next to the top.                                     *)
(***************************************************************************)
Good(s) ==
    /\ \A i \in 1..Len(s) :
         /\ s[i].parentActive <=> (i = 1 \/ s[i - 1].selfActive)
         /\ s[i].selfActive => s[i].parentActive /\ s[i].branchTaken
         /\ s[i].branchTaken => s[i].parentActive
    /\ \A i, j \in 1..Len(s) : i <= j /\ s[j].selfActive => s[i].selfActive

\* A frame that records its surroundings keeps a good stack good.
LEMMA PushGood ==
    ASSUME NEW s \in Seq(Frame), Good(s), NEW self \in BOOLEAN
    PROVE  Good(Append(s, NewFrame(conditional_stack_is_active(s), self)))
<1> DEFINE parent == conditional_stack_is_active(s)
           f == NewFrame(parent, self)
           t == Append(s, f)
<1>1. parent \in BOOLEAN
  BY ActiveType
<1>2. f \in Frame /\ f.parentActive = parent /\ f.selfActive = (parent /\ self)
                  /\ f.branchTaken = (parent /\ self)
  BY <1>1 DEF NewFrame, Frame
<1>3. parent <=> (Len(s) = 0 \/ s[Len(s)].selfActive)
  BY DEF conditional_stack_is_active, Top
<1> HIDE DEF f, parent
<1>4. /\ Len(t) = Len(s) + 1
      /\ t[Len(s) + 1] = f
      /\ \A i \in 1..Len(s) : t[i] = s[i]
  BY <1>2
<1> HIDE DEF t
<1>5. ASSUME NEW i \in 1..Len(t)
      PROVE  /\ t[i].parentActive <=> (i = 1 \/ t[i - 1].selfActive)
             /\ t[i].selfActive => t[i].parentActive /\ t[i].branchTaken
             /\ t[i].branchTaken => t[i].parentActive
  <2>1. CASE i = Len(s) + 1
    <3>1. t[i] = f /\ (i = 1 <=> Len(s) = 0)
                  /\ (i # 1 => t[i - 1] = s[Len(s)])
      BY <1>4, <2>1
    <3>2. parent <=> (i = 1 \/ t[i - 1].selfActive)
      BY <1>3, <3>1
    <3> QED
      BY <1>1, <1>2, <3>1, <3>2
  <2>2. CASE i \in 1..Len(s)
    <3>1. t[i] = s[i] /\ (i # 1 => t[i - 1] = s[i - 1])
      BY <1>4, <2>2
    <3> QED
      BY <2>2, <3>1 DEF Good
  <2> QED
    BY <1>4, <2>1, <2>2
<1>6. ASSUME NEW i \in 1..Len(t), NEW j \in 1..Len(t), i <= j, t[j].selfActive
      PROVE  t[i].selfActive
  <2>1. CASE j = Len(s) + 1 /\ i # j
    <3>1. i \in 1..Len(s) /\ Len(s) \in 1..Len(s) /\ i <= Len(s)
      BY <1>4, <1>6, <2>1
    <3>2. parent
      BY <1>2, <1>4, <1>6, <2>1
    <3>3. s[Len(s)].selfActive
      BY <1>3, <3>1, <3>2
    <3> QED
      BY <1>4, <3>1, <3>3 DEF Good
  <2>2. CASE j \in 1..Len(s)
    BY <1>4, <1>6, <2>2 DEF Good
  <2>3. CASE i = j
    BY <1>6, <2>3
  <2> QED
    BY <1>4, <2>1, <2>2, <2>3
<1>7. Good(t)
  BY <1>5, <1>6 DEF Good
<1> QED
  BY <1>7 DEF t, f, parent

\* So does a later branch of the innermost conditional, when it is taken only
\* inside active text.
LEMMA BranchGood ==
    ASSUME NEW s \in Seq(Frame), Len(s) > 0, Good(s),
           NEW taken \in BOOLEAN, NEW isElse \in BOOLEAN,
           taken => Top(s).parentActive
    PROVE  Good(ReplaceTop(s, BranchFrame(Top(s), taken, isElse)))
<1> DEFINE n == Len(s)
           f == BranchFrame(Top(s), taken, isElse)
           t == ReplaceTop(s, f)
<1>1. n \in 1..n /\ s[n] \in Frame /\ Top(s) = s[n]
  BY DEF Top
<1>2. /\ f \in Frame
      /\ f.parentActive = s[n].parentActive
      /\ f.selfActive = taken
      /\ f.branchTaken = (s[n].branchTaken \/ taken)
  BY <1>1, BranchFrameType
<1>3. /\ Len(t) = n
      /\ t[n] = f
      /\ \A i \in 1..n : i # n => t[i] = s[i]
  BY <1>2, ReplaceTopType
<1> HIDE DEF f, t
<1>4. ASSUME NEW i \in 1..n
      PROVE  /\ t[i].parentActive <=> (i = 1 \/ t[i - 1].selfActive)
             /\ t[i].selfActive => t[i].parentActive /\ t[i].branchTaken
             /\ t[i].branchTaken => t[i].parentActive
  <2>0. /\ s[i].parentActive <=> (i = 1 \/ s[i - 1].selfActive)
        /\ s[i].selfActive => s[i].parentActive /\ s[i].branchTaken
        /\ s[i].branchTaken => s[i].parentActive
    BY DEF Good
  <2>1. CASE i = n
    <3>1. i # 1 => t[i - 1] = s[i - 1]
      <4>1. i # 1 => i - 1 \in 1..n /\ i - 1 # n
        BY <1>1, <2>1
      <4> QED
        BY <4>1, <1>3
    <3>2. t[i].parentActive = s[i].parentActive
      BY <1>2, <1>3, <2>1
    <3>3. t[i].selfActive = taken /\ t[i].branchTaken = (s[i].branchTaken \/ taken)
      BY <1>2, <1>3, <2>1
    <3>4. taken => s[i].parentActive
      BY <1>1, <2>1
    <3> QED
      BY <2>0, <3>1, <3>2, <3>3, <3>4
  <2>2. CASE i # n
    <3>1. t[i] = s[i] /\ (i # 1 => t[i - 1] = s[i - 1])
      <4>1. i # 1 => i - 1 \in 1..n /\ i - 1 # n
        BY <1>1
      <4> QED
        BY <4>1, <1>3, <2>2
    <3> QED
      BY <2>0, <3>1
  <2> QED
    BY <2>1, <2>2
<1>5. ASSUME NEW i \in 1..n, NEW j \in 1..n, i <= j, t[j].selfActive
      PROVE  t[i].selfActive
  <2>1. CASE j = n /\ i # j
    <3>1. s[n].parentActive /\ n - 1 \in 1..n /\ n # 1 /\ i <= n - 1
      BY <1>1, <1>2, <1>3, <1>5, <2>1
    <3>2. s[n - 1].selfActive
      BY <1>1, <3>1 DEF Good
    <3> QED
      BY <1>1, <1>3, <2>1, <3>1, <3>2 DEF Good
  <2>2. CASE j # n
    BY <1>1, <1>3, <1>5, <2>2 DEF Good
  <2>3. CASE i = j
    BY <1>5, <2>3
  <2> QED
    BY <2>1, <2>2, <2>3
<1>6. Good(t)
  BY <1>3, <1>4, <1>5 DEF Good
<1> QED
  BY <1>6 DEF t, f

LEMMA PopGood ==
    ASSUME NEW s \in Seq(Frame), Len(s) > 0, Good(s)
    PROVE  Good(SubSeq(s, 1, Len(s) - 1))
  BY DEF Good

\* The stack of a result is the old one, or one of the three good updates.
LEMMA process_good ==
    ASSUME NEW s \in Seq(Frame), Good(s), NEW lenient \in BOOLEAN
    PROVE  /\ \A cond \in CondValue : Good(process_if(s, cond).stack)
           /\ \A wf, isDef, negate \in BOOLEAN :
                 Good(process_ifdeflike(s, wf, isDef, negate).stack)
           /\ \A cond \in CondValue : Good(process_elif(s, cond, lenient).stack)
           /\ Good(process_else(s, lenient).stack)
           /\ Good(process_endif(s, lenient).stack)
<1>1. ASSUME NEW cond \in CondValue PROVE Good(process_if(s, cond).stack)
  <2>1. Good(Append(s, NewFrame(conditional_stack_is_active(s), cond = "true")))
    BY PushGood
  <2> QED
    BY <2>1 DEF process_if, Accept, Reject
<1>2. ASSUME NEW wf \in BOOLEAN, NEW isDef \in BOOLEAN, NEW negate \in BOOLEAN
      PROVE  Good(process_ifdeflike(s, wf, isDef, negate).stack)
  <2> DEFINE self == IF negate THEN ~isDef ELSE isDef
  <2>1. self \in BOOLEAN
    OBVIOUS
  <2>2. Good(Append(s, NewFrame(conditional_stack_is_active(s), self)))
    BY <2>1, PushGood
  <2> QED
    BY <2>2 DEF process_ifdeflike, Accept, Reject
<1>3. ASSUME NEW cond \in CondValue PROVE Good(process_elif(s, cond, lenient).stack)
  <2>1. CASE Len(s) = 0 \/ Top(s).sawElse
    BY <2>1 DEF process_elif
  <2>2. CASE ~(Len(s) = 0 \/ Top(s).sawElse)
    <3> DEFINE f == Top(s)
               evaluated == f.parentActive /\ ~f.branchTaken
               taken == evaluated /\ cond = "true"
    <3>1. /\ Len(s) > 0
          /\ taken \in BOOLEAN
          /\ taken => Top(s).parentActive
      BY <2>2
    <3>2. f.sawElse \in BOOLEAN
      <4>1. f \in Frame
        BY <3>1 DEF Top
      <4> HIDE DEF f
      <4> QED
        BY <4>1 DEF Frame
    <3>3. Good(ReplaceTop(s, BranchFrame(f, taken, f.sawElse)))
      BY <3>1, <3>2, BranchGood
    <3>4. process_elif(s, cond, lenient) =
            IF evaluated /\ cond = "invalid" THEN Reject(s)
            ELSE Accept(ReplaceTop(s, BranchFrame(f, taken, f.sawElse)))
      BY <2>2 DEF process_elif
    <3> HIDE DEF f, taken, evaluated
    <3> QED
      BY <3>3, <3>4 DEF Accept, Reject
  <2> QED
    BY <2>1, <2>2
<1>4. Good(process_else(s, lenient).stack)
  <2>1. CASE Len(s) = 0 \/ Top(s).sawElse
    BY <2>1 DEF process_else
  <2>2. CASE ~(Len(s) = 0 \/ Top(s).sawElse)
    <3> DEFINE f == Top(s)
               taken == f.parentActive /\ ~f.branchTaken
    <3>1. /\ Len(s) > 0
          /\ taken \in BOOLEAN
          /\ taken => Top(s).parentActive
      BY <2>2
    <3>2. Good(ReplaceTop(s, BranchFrame(f, taken, TRUE)))
      BY <3>1, BranchGood
    <3>3. process_else(s, lenient) = Accept(ReplaceTop(s, BranchFrame(f, taken, TRUE)))
      BY <2>2 DEF process_else
    <3> HIDE DEF f, taken
    <3>4. process_else(s, lenient).stack = ReplaceTop(s, BranchFrame(f, taken, TRUE))
      BY <3>3 DEF Accept
    <3> QED
      BY <3>2, <3>4
  <2> QED
    BY <2>1, <2>2
<1>5. Good(process_endif(s, lenient).stack)
  BY PopGood DEF process_endif, Accept
<1> QED
  BY <1>1, <1>2, <1>3, <1>4, <1>5

CondIInv == CondTypeOK /\ Good(stack)

LEMMA Inductive == CondIInv /\ [CondNext]_condVars => Good(stack)'
<1> SUFFICES ASSUME CondIInv, [CondNext]_condVars PROVE Good(stack')
  OBVIOUS
<1> USE ConditionalStackAssumption DEF CondIInv, CondTypeOK
<1>1. ASSUME NEW cond \in CondValue, DoIf(cond) PROVE Good(stack')
  BY <1>1, process_good DEF DoIf, Apply
<1>2. ASSUME NEW cond \in CondValue, DoElif(cond) PROVE Good(stack')
  BY <1>2, process_good DEF DoElif, Apply
<1>3. ASSUME NEW wf \in BOOLEAN, NEW def \in BOOLEAN, NEW neg \in BOOLEAN,
             DoIfdef(wf, def, neg)
      PROVE  Good(stack')
  BY <1>3, process_good DEF DoIfdef, Apply
<1>4. ASSUME NEW trailing \in BOOLEAN, DoElse(trailing) PROVE Good(stack')
  BY <1>4, process_good DEF DoElse, Apply, Reject
<1>5. ASSUME NEW trailing \in BOOLEAN, DoEndif(trailing) PROVE Good(stack')
  BY <1>5, process_good DEF DoEndif, Apply, Reject
<1>6. CASE UNCHANGED stack
  BY <1>6
<1> QED
  BY <1>1, <1>2, <1>3, <1>4, <1>5, <1>6 DEF CondNext, DoDirective, DoText, DoEnd, condVars

LEMMA CondInvariance == CondSpec => []CondIInv
<1>1. CondInit => Good(stack)
  BY DEF CondInit, Good
<1>2. CondIInv /\ CondTypeOK' /\ [CondNext]_condVars => CondIInv'
  BY Inductive DEF CondIInv
<1> QED
  BY <1>1, <1>2, CondTypeCorrect, PTL DEF CondSpec, CondIInv

\* The flags of a frame agree with the frame below it at every line, although
\* #elif and #else rewrite the innermost frame only.
THEOREM ChainCorrect == CondSpec => []ChainOK
<1>1. CondIInv => ChainOK
  BY DEF CondIInv, Good, ChainOK
<1> QED
  BY <1>1, CondInvariance, PTL

LEMMA GoodActive ==
    ASSUME NEW s \in Seq(Frame), Good(s)
    PROVE  conditional_stack_is_active(s) <=> \A i \in 1..Len(s) : s[i].selfActive
<1>1. CASE Len(s) = 0
  BY <1>1 DEF conditional_stack_is_active
<1>2. CASE Len(s) # 0
  <2>1. Len(s) \in 1..Len(s)
    BY <1>2
  <2> QED
    BY <1>2, <2>1 DEF conditional_stack_is_active, Top, Good
<1> QED
  BY <1>1, <1>2

\* Reading the innermost frame decides whether a line is active, at any depth.
THEOREM ActiveCorrect == CondSpec => []ActiveIffAllSelected
<1>1. CondIInv => ActiveIffAllSelected
  BY GoodActive DEF CondIInv, CondTypeOK, ActiveIffAllSelected
<1> QED
  BY <1>1, CondInvariance, PTL

\* No conditional has two active branches: a branch that follows a taken one is
\* never active.
THEOREM OneBranch == CondSpec => OneBranchPerGroup
<1> DEFINE Once(s, t) == \A i \in 1..Len(s) :
                           /\ i <= Len(t)
                           /\ s[i].branchTaken /\ t[i] # s[i]
                           => ~t[i].selfActive
<1> USE ConditionalStackAssumption
<1>1. ASSUME NEW s \in Seq(Frame), NEW f \in Frame PROVE Once(s, Append(s, f))
  OBVIOUS
<1>2. ASSUME NEW s \in Seq(Frame), Len(s) > 0,
             NEW taken \in BOOLEAN, NEW isElse \in BOOLEAN,
             taken => ~Top(s).branchTaken
      PROVE  Once(s, ReplaceTop(s, BranchFrame(Top(s), taken, isElse)))
  <2> DEFINE f == BranchFrame(Top(s), taken, isElse)
             t == ReplaceTop(s, f)
  <2>1. Top(s) = s[Len(s)] /\ Top(s) \in Frame
    BY <1>2 DEF Top
  <2>2. f \in Frame /\ f.selfActive = taken
    <3> HIDE DEF Once
    <3> DEFINE g == Top(s)
    <3>1. g \in Frame
      BY <2>1
    <3> HIDE DEF g
    <3>2. /\ BranchFrame(g, taken, isElse) \in Frame
          /\ BranchFrame(g, taken, isElse).selfActive = taken
      BY <3>1, BranchFrameType
    <3> QED
      BY <3>2 DEF g
  <2>3. /\ Len(t) = Len(s)
        /\ t[Len(s)] = f
        /\ \A i \in 1..Len(s) : i # Len(s) => t[i] = s[i]
    BY <1>2, <2>2, ReplaceTopType
  <2> HIDE DEF t, f
  <2>4. Once(s, t)
    BY <1>2, <2>1, <2>2, <2>3
  <2> QED
    BY <2>4 DEF t, f
<1>3. ASSUME NEW s \in Seq(Frame) PROVE Once(s, s)
  OBVIOUS
<1>4. ASSUME CondTypeOK, [CondNext]_condVars PROVE Once(stack, stack')
  <2> USE <1>4 DEF CondTypeOK
  <2> HIDE DEF Once
  <2>1. ASSUME NEW cond \in CondValue, DoIf(cond) PROVE Once(stack, stack')
    <3>1. NewFrame(conditional_stack_is_active(stack), cond = "true") \in Frame
      BY ActiveType, NewFrameType
    <3> QED
      BY <1>1, <1>3, <2>1, <3>1 DEF DoIf, Apply, process_if, Accept, Reject
  <2>2. ASSUME NEW wf \in BOOLEAN, NEW def \in BOOLEAN, NEW neg \in BOOLEAN,
               DoIfdef(wf, def, neg)
        PROVE  Once(stack, stack')
    <3> DEFINE self == IF neg THEN ~def ELSE def
    <3>1. self \in BOOLEAN
      OBVIOUS
    <3>2. NewFrame(conditional_stack_is_active(stack), self) \in Frame
      BY <3>1, ActiveType, NewFrameType
    <3> QED
      BY <1>1, <1>3, <2>2, <3>2 DEF DoIfdef, Apply, process_ifdeflike, Accept, Reject
  <2>3. ASSUME NEW cond \in CondValue, DoElif(cond) PROVE Once(stack, stack')
    <3> DEFINE f == Top(stack)
               evaluated == f.parentActive /\ ~f.branchTaken
               taken == evaluated /\ cond = "true"
               t == ReplaceTop(stack, BranchFrame(f, taken, f.sawElse))
    <3>1. CASE Len(stack) = 0 \/ f.sawElse
      BY <1>3, <2>3, <3>1 DEF DoElif, Apply, process_elif
    <3>2. CASE ~(Len(stack) = 0 \/ f.sawElse)
      <4>1. Len(stack) > 0 /\ taken \in BOOLEAN /\ (taken => ~f.branchTaken)
        BY <3>2
      <4>2. f.sawElse = FALSE
        <5>1. f \in Frame
          BY <4>1 DEF Top
        <5> HIDE DEF f
        <5> QED
          BY <3>2, <5>1 DEF Frame
      <4>3. Once(stack, t)
        BY <1>2, <4>1, <4>2
      <4>4. stack' = stack \/ stack' = t
        BY <2>3, <3>2 DEF DoElif, Apply, process_elif, Accept, Reject
      <4> HIDE DEF t
      <4> QED
        BY <1>3, <4>3, <4>4
    <3> QED
      BY <3>1, <3>2
  <2>4. ASSUME NEW trailing \in BOOLEAN, DoElse(trailing) PROVE Once(stack, stack')
    <3> DEFINE f == Top(stack)
               taken == f.parentActive /\ ~f.branchTaken
               t == ReplaceTop(stack, BranchFrame(f, taken, TRUE))
    <3>1. CASE trailing \/ Len(stack) = 0 \/ f.sawElse
      BY <1>3, <2>4, <3>1 DEF DoElse, Apply, process_else, Reject
    <3>2. CASE ~(trailing \/ Len(stack) = 0 \/ f.sawElse)
      <4>1. Len(stack) > 0 /\ taken \in BOOLEAN /\ (taken => ~f.branchTaken)
        BY <3>2
      <4>2. Once(stack, t)
        BY <1>2, <4>1
      <4>3. stack' = t
        BY <2>4, <3>2 DEF DoElse, Apply, process_else, Accept
      <4> HIDE DEF t
      <4> QED
        BY <4>2, <4>3
    <3> QED
      BY <3>1, <3>2
  <2>5. ASSUME NEW trailing \in BOOLEAN, DoEndif(trailing) PROVE Once(stack, stack')
    BY <2>5 DEF DoEndif, Apply, process_endif, Accept, Reject, Once
  <2>6. CASE UNCHANGED stack
    BY <1>3, <2>6
  <2> QED
    BY <2>1, <2>2, <2>3, <2>4, <2>5, <2>6 DEF CondNext, DoDirective, DoText, DoEnd, condVars
<1> QED
  BY <1>4, CondTypeCorrect, PTL DEF CondSpec, OneBranchPerGroup

------------------------------------------------------------------------------
(***************************************************************************)
(* Refinement: the frames, seen through PhaseOf, are the groups of         *)
(* ConditionalGroups, and every step of the token loop is one of its steps.*)
(***************************************************************************)
Phases(s) == [i \in 1..Len(s) |-> PhaseOf(s[i])]
Closed(s) == [i \in 1..Len(s) |-> s[i].sawElse]

LEMMA MapAppend ==
    ASSUME NEW s \in Seq(Frame), NEW f \in Frame
    PROVE  /\ Phases(Append(s, f)) = Append(Phases(s), PhaseOf(f))
           /\ Closed(Append(s, f)) = Append(Closed(s), f.sawElse)
  BY DEF Phases, Closed

LEMMA MapReplace ==
    ASSUME NEW s \in Seq(Frame), Len(s) > 0, NEW f \in Frame
    PROVE  /\ Phases(ReplaceTop(s, f)) = [Phases(s) EXCEPT ![Len(s)] = PhaseOf(f)]
           /\ Closed(ReplaceTop(s, f)) = [Closed(s) EXCEPT ![Len(s)] = f.sawElse]
  BY ReplaceTopType DEF Phases, Closed

LEMMA MapPop ==
    ASSUME NEW s \in Seq(Frame), Len(s) > 0
    PROVE  /\ Phases(SubSeq(s, 1, Len(s) - 1)) = SubSeq(Phases(s), 1, Len(s) - 1)
           /\ Closed(SubSeq(s, 1, Len(s) - 1)) = SubSeq(Closed(s), 1, Len(s) - 1)
  BY DEF Phases, Closed

LEMMA MapLen ==
    ASSUME NEW s \in Seq(Frame)
    PROVE  /\ Len(Phases(s)) = Len(s)
           /\ Len(s) > 0 => /\ Phases(s)[Len(s)] = PhaseOf(Top(s))
                            /\ Closed(s)[Len(s)] = Top(s).sawElse
           /\ Phases(s) = <<>> <=> Len(s) = 0
  BY DEF Phases, Closed, Top

\* A frame as the operations of the stack leave it.
Sound(f) == /\ f.selfActive => f.parentActive /\ f.branchTaken
            /\ f.branchTaken => f.parentActive

LEMMA PhaseFacts ==
    ASSUME NEW f \in Frame, Sound(f)
    PROVE  /\ PhaseOf(f) = "in" <=> f.selfActive
           /\ PhaseOf(f) = "skipped" <=> ~f.parentActive
           /\ PhaseOf(f) = "before" <=> f.parentActive /\ ~f.branchTaken
           /\ PhaseOf(f) = "after" <=> f.branchTaken /\ ~f.selfActive
           /\ PhaseOf(f) \in {"in", "skipped", "before", "after"}
  BY DEF PhaseOf, Sound, Frame

LEMMA NewPhase ==
    ASSUME NEW parent \in BOOLEAN, NEW self \in BOOLEAN
    PROVE  /\ parent => PhaseOf(NewFrame(parent, self)) \in {"before", "in"}
           /\ ~parent => PhaseOf(NewFrame(parent, self)) = "skipped"
           /\ NewFrame(parent, self).sawElse = FALSE
  BY DEF PhaseOf, NewFrame

LEMMA BranchPhase ==
    ASSUME NEW f \in Frame, Sound(f), NEW taken \in BOOLEAN, NEW isElse \in BOOLEAN,
           taken => f.parentActive /\ ~f.branchTaken,
           isElse => taken \/ ~f.parentActive \/ f.branchTaken
    PROVE  /\ PhaseOf(BranchFrame(f, taken, isElse)) \in Groups!Follow(PhaseOf(f))
           /\ isElse => PhaseOf(BranchFrame(f, taken, isElse)) # "before"
<1> DEFINE g == BranchFrame(f, taken, isElse)
<1>1. /\ g \in Frame
      /\ g.parentActive = f.parentActive
      /\ g.selfActive = taken
      /\ g.branchTaken = (f.branchTaken \/ taken)
  BY BranchFrameType
<1> HIDE DEF g
<1>2. Sound(g)
  BY <1>1 DEF Sound, Frame
<1>3. CASE PhaseOf(f) = "before"
  BY <1>1, <1>2, <1>3, PhaseFacts DEF Groups!Follow, g, Frame
<1>4. CASE PhaseOf(f) = "in"
  BY <1>1, <1>2, <1>4, PhaseFacts DEF Groups!Follow, g, Sound, Frame
<1>5. CASE PhaseOf(f) = "after"
  BY <1>1, <1>2, <1>5, PhaseFacts DEF Groups!Follow, g, Sound, Frame
<1>6. CASE PhaseOf(f) = "skipped"
  BY <1>1, <1>2, <1>6, PhaseFacts DEF Groups!Follow, g, Sound, Frame
<1> QED
  BY <1>3, <1>4, <1>5, <1>6, PhaseFacts

LEMMA SelectedIffActive ==
    ASSUME CondIInv
    PROVE  Groups!Selected <=> conditional_stack_is_active(stack)
<1>1. \A i \in 1..Len(stack) : PhaseOf(stack[i]) = "in" <=> stack[i].selfActive
  BY PhaseFacts DEF CondIInv, CondTypeOK, Good, Sound
<1>2. Groups!Selected <=>
        \A i \in 1..Len(Phases(stack)) : Phases(stack)[i] = "in"
  BY DEF Groups!Selected, Phases
<1>3. Groups!Selected <=> \A i \in 1..Len(stack) : PhaseOf(stack[i]) = "in"
  BY <1>2, MapLen DEF CondIInv, CondTypeOK, Phases
<1> QED
  BY <1>1, <1>3, GoodActive DEF CondIInv, CondTypeOK

\* What an opened conditional is to ConditionalGroups.
LEMMA OpenStep ==
    ASSUME CondIInv, Running, NEW self \in BOOLEAN,
           stack' = Append(stack, NewFrame(conditional_stack_is_active(stack), self)),
           status' = "running", text' = "none"
    PROVE  Groups!Open
<1> DEFINE parent == conditional_stack_is_active(stack)
           f == NewFrame(parent, self)
<1>1. parent \in BOOLEAN /\ stack \in Seq(Frame) /\ (Groups!Selected <=> parent)
  BY ActiveType, SelectedIffActive DEF CondIInv, CondTypeOK
<1>2. f \in Frame /\ f.sawElse = FALSE
  BY <1>1, NewFrameType, NewPhase
<1>3. /\ parent => PhaseOf(f) \in {"before", "in"}
      /\ ~parent => PhaseOf(f) = "skipped"
  BY <1>1, NewPhase
<1> HIDE DEF f, parent
<1>4. stack' = Append(stack, f)
  BY DEF f, parent
<1>5. /\ Phases(stack') = Append(Phases(stack), PhaseOf(f))
      /\ Closed(stack') = Append(Closed(stack), FALSE)
  BY <1>1, <1>2, <1>4, MapAppend
<1>6. PhaseOf(f) \in Groups!Phase
  BY <1>3 DEF Groups!Phase
<1> QED
  BY <1>1, <1>3, <1>5, <1>6 DEF Groups!Open, Phases, Closed, Running

\* What a later branch of the innermost conditional is.
LEMMA BranchStep ==
    ASSUME CondIInv, Running, Len(stack) > 0, ~Top(stack).sawElse,
           NEW taken \in BOOLEAN, NEW isElse \in BOOLEAN,
           taken => Top(stack).parentActive /\ ~Top(stack).branchTaken,
           isElse => taken \/ ~Top(stack).parentActive \/ Top(stack).branchTaken,
           stack' = ReplaceTop(stack, BranchFrame(Top(stack), taken, isElse)),
           status' = "running", text' = "none"
    PROVE  Groups!Branch
<1> DEFINE f == Top(stack)
           g == BranchFrame(f, taken, isElse)
<1>1. f \in Frame /\ stack \in Seq(Frame)
  BY DEF CondIInv, CondTypeOK, Top
<1>2. Sound(f)
  BY DEF CondIInv, CondTypeOK, Good, Sound, Top
<1>3. g \in Frame /\ g.sawElse = isElse
  BY <1>1, BranchFrameType
<1>4. /\ PhaseOf(g) \in Groups!Follow(PhaseOf(f))
      /\ isElse => PhaseOf(g) # "before"
  BY <1>1, <1>2, BranchPhase
<1>5. /\ Phases(stack') = [Phases(stack) EXCEPT ![Len(stack)] = PhaseOf(g)]
      /\ Closed(stack') = [Closed(stack) EXCEPT ![Len(stack)] = isElse]
  BY <1>1, <1>3, MapReplace
<1>6. /\ Len(Phases(stack)) = Len(stack)
      /\ Phases(stack)[Len(stack)] = PhaseOf(f)
      /\ ~Closed(stack)[Len(stack)]
  BY <1>1, MapLen
<1> HIDE DEF f, g
<1>7. Groups!Branch <=>
        /\ status = "running"
        /\ Len(Phases(stack)) > 0
        /\ ~Closed(stack)[Len(Phases(stack))]
        /\ \E ph \in Groups!Follow(Phases(stack)[Len(Phases(stack))]),
               e \in BOOLEAN :
              /\ e => ph # "before"
              /\ Phases(stack') = [Phases(stack) EXCEPT ![Len(Phases(stack))] = ph]
              /\ Closed(stack') = [Closed(stack) EXCEPT ![Len(Phases(stack))] = e]
        /\ text' = "none"
        /\ status' = status
  BY DEF Groups!Branch, Phases, Closed
<1> QED
  BY <1>4, <1>5, <1>6, <1>7 DEF Running

\* A directive that is rejected.
LEMMA RejectStep ==
    ASSUME Running, stack' = stack, status' = "failed", text' = "none"
    PROVE  Groups!Malformed
  BY DEF Groups!Malformed, Groups!Fail, Running

\* A directive that leniency ignores.
LEMMA StrayStep ==
    ASSUME CondIInv, Running, Lenient, Len(stack) = 0 \/ Top(stack).sawElse,
           stack' = stack, status' = "running",
           text' \in {"none"} \cup
             (IF conditional_stack_is_active(stack) THEN {"kept"} ELSE {})
    PROVE  Groups!Stray
<1>1. /\ stack \in Seq(Frame)
      /\ Len(Phases(stack)) = Len(stack)
      /\ Len(stack) > 0 => Closed(stack)[Len(stack)] = Top(stack).sawElse
  BY MapLen DEF CondIInv, CondTypeOK
<1>2. Len(Phases(stack)) = 0 \/ Closed(stack)[Len(Phases(stack))]
  BY <1>1
<1>3. text' \in {"none"} \cup (IF Groups!Selected THEN {"kept"} ELSE {})
  BY SelectedIffActive
<1> QED
  BY <1>2, <1>3 DEF Groups!Stray, Running, Phases, Closed

\* What the end of a group is.
LEMMA CloseStep ==
    ASSUME CondIInv, Running, Len(stack) > 0,
           stack' = SubSeq(stack, 1, Len(stack) - 1),
           status' = "running", text' = "none"
    PROVE  Groups!Close
<1>1. /\ Len(Phases(stack)) = Len(stack)
      /\ Phases(stack') = SubSeq(Phases(stack), 1, Len(stack) - 1)
      /\ Closed(stack') = SubSeq(Closed(stack), 1, Len(stack) - 1)
  BY MapLen, MapPop DEF CondIInv, CondTypeOK
<1>2. Groups!Close <=>
        /\ status = "running"
        /\ Len(Phases(stack)) > 0
        /\ Phases(stack') = SubSeq(Phases(stack), 1, Len(Phases(stack)) - 1)
        /\ Closed(stack') = SubSeq(Closed(stack), 1, Len(Phases(stack)) - 1)
        /\ text' = "none"
        /\ status' = status
  BY DEF Groups!Close, Phases, Closed
<1> QED
  BY <1>1, <1>2 DEF Running

LEMMA StepSimulation == CondIInv /\ [CondNext]_condVars => [Groups!Next]_(Groups!vars)
<1> SUFFICES ASSUME CondIInv, [CondNext]_condVars PROVE Groups!Next \/ UNCHANGED Groups!vars
  OBVIOUS
<1> USE ConditionalStackAssumption
<1>1. ASSUME NEW cond \in CondValue, DoIf(cond) PROVE Groups!Next
  <2>1. CASE conditional_stack_is_active(stack) /\ cond = "invalid"
    BY <1>1, <2>1, RejectStep DEF DoIf, process_if, Apply, Reject, Groups!Next
  <2>2. CASE ~(conditional_stack_is_active(stack) /\ cond = "invalid")
    BY <1>1, <2>2, OpenStep DEF DoIf, process_if, Apply, Accept, Groups!Next
  <2> QED
    BY <2>1, <2>2
<1>2. ASSUME NEW wf \in BOOLEAN, NEW def \in BOOLEAN, NEW neg \in BOOLEAN,
             DoIfdef(wf, def, neg)
      PROVE  Groups!Next
  <2>1. CASE ~wf
    BY <1>2, <2>1, RejectStep DEF DoIfdef, process_ifdeflike, Apply, Reject, Groups!Next
  <2>2. CASE wf
    <3> DEFINE self == IF neg THEN ~def ELSE def
    <3>1. self \in BOOLEAN
      OBVIOUS
    <3> QED
      BY <1>2, <2>2, <3>1, OpenStep
         DEF DoIfdef, process_ifdeflike, Apply, Accept, Groups!Next
  <2> QED
    BY <2>1, <2>2
<1>3. ASSUME NEW cond \in CondValue, DoElif(cond) PROVE Groups!Next
  <2>1. CASE StrayElif /\ Lenient
    BY <1>3, <2>1, StrayStep
       DEF DoElif, StrayElif, process_elif, Apply, Groups!Next
  <2>2. CASE StrayElif /\ ~Lenient
    BY <1>3, <2>2, RejectStep
       DEF DoElif, StrayElif, process_elif, Apply, Groups!Next
  <2>3. CASE ~StrayElif
    <3> DEFINE f == Top(stack)
               evaluated == f.parentActive /\ ~f.branchTaken
               taken == evaluated /\ cond = "true"
    <3>1. Len(stack) > 0 /\ ~f.sawElse /\ f \in Frame
      BY <2>3 DEF StrayElif, CondIInv, CondTypeOK, Top
    <3>2. f.sawElse = FALSE /\ taken \in BOOLEAN
      <4> HIDE DEF f
      <4> QED
        BY <3>1 DEF Frame
    <3>3. CASE evaluated /\ cond = "invalid"
      BY <1>3, <2>3, <3>3, RejectStep
         DEF DoElif, StrayElif, process_elif, Apply, Reject, Groups!Next
    <3>4. CASE ~(evaluated /\ cond = "invalid")
      <4>1. /\ stack' = ReplaceTop(stack, BranchFrame(f, taken, FALSE))
            /\ status' = "running" /\ text' = "none" /\ Running
        BY <1>3, <2>3, <3>2, <3>4 DEF DoElif, StrayElif, process_elif, Apply, Accept
      <4> QED
        BY <3>1, <3>2, <4>1, BranchStep DEF Groups!Next
    <3> QED
      BY <3>3, <3>4
  <2> QED
    BY <2>1, <2>2, <2>3
<1>4. ASSUME NEW trailing \in BOOLEAN, DoElse(trailing) PROVE Groups!Next
  <2>1. CASE trailing \/ (StrayElif /\ ~Lenient)
    BY <1>4, <2>1, RejectStep
       DEF DoElse, StrayElif, process_else, Apply, Reject, Groups!Next
  <2>2. CASE ~trailing /\ StrayElif /\ Lenient
    BY <1>4, <2>2, StrayStep
       DEF DoElse, StrayElif, process_else, Apply, Groups!Next
  <2>3. CASE ~trailing /\ ~StrayElif
    <3> DEFINE f == Top(stack)
               taken == f.parentActive /\ ~f.branchTaken
    <3>1. /\ Len(stack) > 0
          /\ ~f.sawElse
          /\ taken \in BOOLEAN
          /\ taken => f.parentActive /\ ~f.branchTaken
          /\ taken \/ ~f.parentActive \/ f.branchTaken
      BY <2>3 DEF StrayElif, CondIInv, CondTypeOK
    <3>2. /\ stack' = ReplaceTop(stack, BranchFrame(f, taken, TRUE))
          /\ status' = "running" /\ text' = "none" /\ Running
      BY <1>4, <2>3 DEF DoElse, StrayElif, process_else, Apply, Accept
    <3> QED
      BY <3>1, <3>2, BranchStep DEF Groups!Next
  <2> QED
    BY <2>1, <2>2, <2>3
<1>5. ASSUME NEW trailing \in BOOLEAN, DoEndif(trailing) PROVE Groups!Next
  <2>1. CASE trailing \/ (Len(stack) = 0 /\ ~Lenient)
    BY <1>5, <2>1, RejectStep DEF DoEndif, process_endif, Apply, Reject, Groups!Next
  <2>2. CASE ~trailing /\ Len(stack) = 0 /\ Lenient
    BY <1>5, <2>2, StrayStep DEF DoEndif, process_endif, Apply, Groups!Next
  <2>3. CASE ~trailing /\ Len(stack) # 0
    <3>1. Len(stack) > 0
      BY <2>3 DEF CondIInv, CondTypeOK
    <3> QED
      BY <1>5, <2>3, <3>1, CloseStep DEF DoEndif, process_endif, Apply, Accept, Groups!Next
  <2> QED
    BY <2>1, <2>2, <2>3
<1>6. ASSUME NEW succeeds \in BOOLEAN, DoDirective(succeeds) PROVE Groups!Next
  BY <1>6 DEF DoDirective, Running, Groups!Next, Groups!Other, Groups!Malformed, Groups!Fail
<1>7. CASE DoText
  BY <1>7, SelectedIffActive DEF DoText, Running, Groups!Next, Groups!Line
<1>8. CASE DoEnd
  <2>1. Len(stack) = 0 <=> Phases(stack) = <<>>
    BY MapLen DEF CondIInv, CondTypeOK
  <2> QED
    BY <1>8, <2>1 DEF DoEnd, Running, Groups!Next, Groups!Finish, Phases
<1>9. CASE UNCHANGED condVars
  BY <1>9 DEF condVars, Groups!vars
<1> QED
  BY <1>1, <1>2, <1>3, <1>4, <1>5, <1>6, <1>7, <1>8, <1>9 DEF CondNext

\* The token loop over one buffer keeps exactly the text that ConditionalGroups
\* keeps, and goes through the same phases, for any nesting.
THEOREM Refinement == CondSpec => ImplementsGroups
<1>1. CondInit => Groups!Init
  BY DEF CondInit, Groups!Init
<1> QED
  BY <1>1, StepSimulation, CondInvariance, PTL DEF CondSpec, ImplementsGroups, Groups!Spec

-------------------------------------------------------------------------------
(* The include stack.                                                      *)

Less == {ss \in Nat \X Nat : ss[1] < ss[2]}

\* A non-empty set of naturals has a least element.
LEMMA LeastNatural ==
    ASSUME NEW T, T \subseteq Nat, T # {}
    PROVE  \E m \in T : \A k \in T : m <= k
<1>1. IsWellFoundedOn(Less, Nat)
  BY NatLessThanWellFounded DEF OpToRel, Less
<1>2. PICK m \in T : \A k \in T : ~(<<k, m>> \in Less)
  BY <1>1, WFMin
<1>3. ASSUME NEW k \in T PROVE m <= k
  <2>1. k \in Nat /\ m \in Nat /\ <<k, m>> \in Nat \X Nat
    BY <1>2
  <2>2. ~(k < m)
    BY <1>2, <2>1 DEF Less
  <2> QED
    BY <2>1, <2>2
<1> QED
  BY <1>2, <1>3

\* What is above a multiple of c is the remainder.
LEMMA ModUnique ==
    ASSUME NEW q \in Int, NEW c \in Nat, c > 0, NEW s \in 0..(c - 1)
    PROVE  (c * q + s) % c = s
  BY Z3T(30)

\* From any hash the probe reaches every slot within one round.
LEMMA ProbeOnto ==
    ASSUME NEW h \in Nat, NEW c \in Nat, c > 0, NEW s \in 0..(c - 1)
    PROVE  \E k \in 0..(c - 1) : (h + k) % c = s
<1> DEFINE r == h % c
           q == h \div c
<1>1. r \in 0..(c - 1) /\ h = c * q + r /\ q \in Int
  OBVIOUS
<1> HIDE DEF r, q
<1>2. CASE r <= s
  <2>1. h + (s - r) = c * q + s /\ s - r \in 0..(c - 1)
    BY <1>1, <1>2
  <2> QED
    BY <1>1, <2>1, ModUnique
<1>3. CASE r > s
  <2>1. h + (s - r + c) = c * (q + 1) + s
    BY <1>1, <1>3
  <2>2. s - r + c \in 0..(c - 1) /\ q + 1 \in Int
    BY <1>1, <1>3
  <2> QED
    BY <2>1, <2>2, ModUnique
<1> QED
  BY <1>1, <1>2, <1>3

LEMMA ProbeType ==
    ASSUME NEW p \in Path, capacity \in Nat, capacity > 0, NEW k \in Nat
    PROVE  Probe(p, k) \in 0..(capacity - 1)
<1>1. Hash[p] + k \in Nat
  BY IncludeStackAssumption
<1> HIDE DEF Probe
<1> QED
  BY <1>1 DEF Probe

-------------------------------------------------------------------------------
(***************************************************************************)
(* The shape of a table t of capacity c: every active slot can be reached  *)
(* by its own probe without meeting an empty slot, and no path has two.    *)
(***************************************************************************)
Reached(c, t, s) ==
    \E k \in 0..(c - 1) :
       /\ (Hash[t[s].path] + k) % c = s
       /\ \A j \in 0..(k - 1) : t[(Hash[t[s].path] + j) % c].state # "EMPTY"

WellPlaced(c, t) ==
    /\ \A s \in 0..(c - 1) :
         /\ t[s].state = "ACTIVE" => /\ t[s].path \in Path
                                     /\ t[s].count > 0
                                     /\ Reached(c, t, s)
         /\ t[s].state # "ACTIVE" => t[s].count = 0
    /\ \A s, u \in 0..(c - 1) :
         /\ t[s].state = "ACTIVE" /\ t[u].state = "ACTIVE"
         /\ t[s].path = t[u].path
         => s = u

\* An empty slot anywhere ends the probe for every path.
LEMMA EmptySlotStops ==
    ASSUME capacity \in Nat, capacity > 0, NEW p \in Path,
           \E s \in 0..(capacity - 1) : table[s].state = "EMPTY"
    PROVE  Stops(p) # {}
<1>1. PICK s \in 0..(capacity - 1) : table[s].state = "EMPTY"
  OBVIOUS
<1>2. Hash[p] \in Nat
  BY IncludeStackAssumption
<1>3. PICK k \in 0..(capacity - 1) : (Hash[p] + k) % capacity = s
  BY <1>2, ProbeOnto
<1> QED
  BY <1>1, <1>3 DEF Stops, StopsAt, Probe

\* What find_slot returns on a well placed table.
LEMMA FindSlotFacts ==
    ASSUME capacity \in Nat, capacity > 0, table \in [0..(capacity - 1) -> Slot],
           WellPlaced(capacity, table), NEW p \in Path, Stops(p) # {}
    PROVE  /\ FindSlot(p) \in 0..(capacity - 1)
           /\ Found(p) <=> \E s \in 0..(capacity - 1) : IsHit(p, s)
           /\ Found(p) => IsHit(p, FindSlot(p))
           /\ ~Found(p) => table[FindSlot(p)].state # "ACTIVE"
           /\ \E k \in 0..(capacity - 1) :
                 /\ Probe(p, k) = FindSlot(p)
                 /\ \A j \in 0..(k - 1) : table[Probe(p, j)].state # "EMPTY"
<1> DEFINE first == FirstStop(p)
<1>1. /\ first \in Stops(p)
      /\ \A j \in Stops(p) : first <= j
  <2>1. Stops(p) \subseteq Nat
    BY DEF Stops
  <2>2. \E m \in Stops(p) : \A k \in Stops(p) : m <= k
    BY <2>1, LeastNatural
  <2> QED
    BY <2>2 DEF FirstStop
<1>2. first \in 0..(capacity - 1) /\ StopsAt(p, first)
  BY <1>1 DEF Stops
<1>3. \A j \in 0..(first - 1) : ~StopsAt(p, j)
  BY <1>1, <1>2 DEF Stops
<1>4. \A j \in 0..(capacity - 1) : Probe(p, j) \in 0..(capacity - 1)
  BY ProbeType
<1> HIDE DEF first
<1>5. \A j \in 0..(first - 1) : table[Probe(p, j)].state # "EMPTY"
  BY <1>3 DEF StopsAt
<1>6. Found(p) = IsHit(p, Probe(p, first))
  BY DEF Found, first
<1>7. ASSUME NEW s \in 0..(capacity - 1), IsHit(p, s) PROVE Found(p)
  <2>1. table[s].state = "ACTIVE" /\ table[s].path = p
    BY <1>7 DEF IsHit
  <2>2. PICK k \in 0..(capacity - 1) :
           /\ Probe(p, k) = s
           /\ \A j \in 0..(k - 1) : table[Probe(p, j)].state # "EMPTY"
    BY <2>1 DEF WellPlaced, Reached, Probe
  <2>3. k \in Stops(p)
    BY <1>7, <2>2 DEF Stops, StopsAt
  <2>4. first <= k
    BY <1>1, <2>3
  <2>5. table[Probe(p, first)].state # "EMPTY"
    BY <1>2, <2>1, <2>2, <2>4
  <2> QED
    BY <1>2, <1>6, <2>5 DEF StopsAt
<1>8. CASE ~Found(p) /\ PassedTombstones(p) # {}
  <2> DEFINE P == PassedTombstones(p)
             d == CHOOSE k \in P : \A j \in P : k <= j
  <2>1. P \subseteq 0..(first - 1) /\ P \subseteq Nat
    BY <1>2 DEF PassedTombstones, first
  <2>2. \E m \in P : \A k \in P : m <= k
    BY <1>8, <2>1, LeastNatural
  <2>3. d \in P
    BY <2>2
  <2>4. FindSlot(p) = Probe(p, d)
    BY <1>8 DEF FindSlot
  <2>5. d \in 0..(first - 1) /\ table[Probe(p, d)].state = "TOMBSTONE"
    BY <2>3, <2>1 DEF PassedTombstones
  <2> HIDE DEF P, d
  <2>6. d \in 0..(capacity - 1) /\ \A j \in 0..(d - 1) : j \in 0..(first - 1)
    BY <1>2, <2>5
  <2> QED
    BY <1>4, <1>5, <1>7, <1>8, <2>4, <2>5, <2>6
<1>9. CASE ~(~Found(p) /\ PassedTombstones(p) # {})
  <2>1. FindSlot(p) = Probe(p, first)
    BY <1>9 DEF FindSlot, first
  <2>2. ~Found(p) => table[Probe(p, first)].state = "EMPTY"
    BY <1>2, <1>6 DEF StopsAt
  <2>3. Found(p) => IsHit(p, Probe(p, first))
    BY <1>6
  <2> QED
    BY <1>2, <1>4, <1>5, <1>7, <2>1, <2>2, <2>3
<1> QED
  BY <1>8, <1>9

\* Writing an active slot for p where find_slot says keeps the table well placed.
LEMMA InsertPlaced ==
    ASSUME capacity \in Nat, capacity > 0, table \in [0..(capacity - 1) -> Slot],
           WellPlaced(capacity, table), NEW p \in Path, Stops(p) # {},
           NEW v \in Slot, v.state = "ACTIVE", v.path = p, v.count > 0
    PROVE  WellPlaced(capacity, [table EXCEPT ![FindSlot(p)] = v])
<1> DEFINE f == FindSlot(p)
           t == [table EXCEPT ![f] = v]
           D == 0..(capacity - 1)
<1>1. /\ f \in D
      /\ Found(p) <=> \E s \in D : IsHit(p, s)
      /\ Found(p) => IsHit(p, f)
      /\ \E k \in D : /\ Probe(p, k) = f
                      /\ \A j \in 0..(k - 1) : table[Probe(p, j)].state # "EMPTY"
  BY FindSlotFacts
<1> HIDE DEF f
<1>2. t[f] = v /\ \A s \in D : s # f => t[s] = table[s]
  BY <1>1
<1> HIDE DEF t
<1>3. \A s \in D : table[s].state # "EMPTY" => t[s].state # "EMPTY"
  BY <1>2
<1>4. ASSUME NEW q \in Path, NEW j \in Nat PROVE Probe(q, j) \in D
  BY <1>4, ProbeType
<1>5. ASSUME NEW s \in D, t[s].state = "ACTIVE" PROVE Reached(capacity, t, s)
  <2>1. CASE s = f
    <3>1. PICK k \in D : /\ Probe(p, k) = f
                         /\ \A j \in 0..(k - 1) : table[Probe(p, j)].state # "EMPTY"
      BY <1>1
    <3>2. ASSUME NEW j \in 0..(k - 1) PROVE t[Probe(p, j)].state # "EMPTY"
      <4>1. Probe(p, j) \in D
        BY <1>4
      <4> QED
        BY <1>3, <3>1, <4>1
    <3>3. t[s].path = p
      BY <1>2, <2>1
    <3> QED
      BY <2>1, <3>1, <3>2, <3>3 DEF Reached, Probe
  <2>2. CASE s # f
    <3>1. t[s] = table[s]
      BY <1>2, <2>2
    <3> DEFINE q == table[s].path
    <3>2. q \in Path /\ Reached(capacity, table, s)
      BY <1>5, <3>1 DEF WellPlaced
    <3>3. PICK k \in D : /\ Probe(q, k) = s
                         /\ \A j \in 0..(k - 1) : table[Probe(q, j)].state # "EMPTY"
      BY <3>2 DEF Reached, Probe
    <3>4. ASSUME NEW j \in 0..(k - 1) PROVE t[Probe(q, j)].state # "EMPTY"
      <4>1. Probe(q, j) \in D
        <5>1. q \in Path /\ j \in Nat
          BY <3>2
        <5> HIDE DEF q
        <5> QED
          BY <1>4, <5>1
      <4> QED
        BY <1>3, <3>3, <4>1
    <3> QED
      BY <3>1, <3>3, <3>4 DEF Reached, Probe
  <2> QED
    BY <2>1, <2>2
<1>6. ASSUME NEW s \in D
      PROVE  /\ t[s].state = "ACTIVE" => /\ t[s].path \in Path
                                         /\ t[s].count > 0
             /\ t[s].state # "ACTIVE" => t[s].count = 0
  BY <1>2 DEF WellPlaced
<1>7. ASSUME NEW s \in D, NEW u \in D,
             t[s].state = "ACTIVE", t[u].state = "ACTIVE", t[s].path = t[u].path
      PROVE  s = u
  <2>1. ASSUME NEW w \in D, w # f, t[w].state = "ACTIVE", t[w].path = p PROVE FALSE
    <3>1. IsHit(p, w)
      BY <1>2, <2>1 DEF IsHit
    <3>2. IsHit(p, f)
      BY <1>1, <3>1
    <3> QED
      BY <1>1, <2>1, <3>1, <3>2 DEF IsHit, WellPlaced
  <2>2. CASE s # f /\ u # f
    BY <1>2, <1>7, <2>2 DEF WellPlaced
  <2> QED
    BY <1>1, <1>2, <1>7, <2>1, <2>2
<1>8. WellPlaced(capacity, t)
  BY <1>5, <1>6, <1>7 DEF WellPlaced
<1> QED
  BY <1>8 DEF t, f

\* So does counting one occurrence less, or leaving a tombstone.
LEMMA ReleasePlaced ==
    ASSUME capacity \in Nat, table \in [0..(capacity - 1) -> Slot],
           WellPlaced(capacity, table),
           NEW f \in 0..(capacity - 1), table[f].state = "ACTIVE"
    PROVE  WellPlaced(capacity, [table EXCEPT ![f] = Released(@)])
<1> DEFINE v == Released(table[f])
           t == [table EXCEPT ![f] = v]
           D == 0..(capacity - 1)
<1>1. table[f] \in Slot /\ table[f].count > 0 /\ table[f].count \in Nat
  BY DEF WellPlaced, Slot
<1>2. /\ v.state \in {"ACTIVE", "TOMBSTONE"}
      /\ v.state = "ACTIVE" => v.path = table[f].path /\ v.count > 0
      /\ v.state # "ACTIVE" => v.count = 0
  BY <1>1 DEF Released, Slot
<1> HIDE DEF v
<1>3. t[f] = v /\ \A s \in D : s # f => t[s] = table[s]
  OBVIOUS
<1> HIDE DEF t
<1>4. \A s \in D : table[s].state # "EMPTY" => t[s].state # "EMPTY"
  BY <1>2, <1>3
<1>5. \A s \in D : t[s].state = "ACTIVE" =>
                     table[s].state = "ACTIVE" /\ t[s].path = table[s].path
  BY <1>2, <1>3
<1>6. ASSUME NEW s \in D, t[s].state = "ACTIVE" PROVE Reached(capacity, t, s)
  <2> DEFINE q == table[s].path
  <2>1. q \in Path /\ Reached(capacity, table, s) /\ t[s].path = q
    BY <1>5, <1>6 DEF WellPlaced
  <2>2. PICK k \in D : /\ Probe(q, k) = s
                       /\ \A j \in 0..(k - 1) : table[Probe(q, j)].state # "EMPTY"
    BY <2>1 DEF Reached, Probe
  <2>3. ASSUME NEW j \in 0..(k - 1) PROVE Probe(q, j) \in D
    <3>1. capacity > 0 /\ j \in Nat
      OBVIOUS
    <3> HIDE DEF q
    <3> QED
      BY <2>1, <3>1, ProbeType
  <2>4. \A j \in 0..(k - 1) : t[Probe(q, j)].state # "EMPTY"
    BY <1>4, <2>2, <2>3
  <2> QED
    BY <2>1, <2>2, <2>4 DEF Reached, Probe
<1>7. \A s \in D : /\ t[s].state = "ACTIVE" => t[s].path \in Path /\ t[s].count > 0
                   /\ t[s].state # "ACTIVE" => t[s].count = 0
  BY <1>2, <1>3, <1>5 DEF WellPlaced
<1>8. \A s, u \in D : /\ t[s].state = "ACTIVE" /\ t[u].state = "ACTIVE"
                      /\ t[s].path = t[u].path
                      => s = u
  BY <1>5 DEF WellPlaced
<1>9. WellPlaced(capacity, t)
  BY <1>6, <1>7, <1>8 DEF WellPlaced
<1> QED
  BY <1>9 DEF t, v

-------------------------------------------------------------------------------
(***************************************************************************)
(* Counting: the active slots name distinct paths of the frames, so there  *)
(* are at most Depth of them, and with the tombstones they cannot fill the *)
(* table.                                                                  *)
(***************************************************************************)
Occ(f, p) == {i \in 1..Len(f) : f[i] = p}

LEMMA OccFinite ==
    ASSUME NEW f \in Seq(Path), NEW p
    PROVE  IsFiniteSet(Occ(f, p)) /\ Cardinality(Occ(f, p)) \in Nat
<1>1. IsFiniteSet(1..Len(f)) /\ Occ(f, p) \in SUBSET (1..Len(f))
  BY FS_Interval DEF Occ
<1> QED
  BY <1>1, FS_Subset, FS_CardinalityType

LEMMA OccPush ==
    ASSUME NEW f \in Seq(Path), NEW p \in Path, NEW q \in Path
    PROVE  Cardinality(Occ(Append(f, q), p)) =
             IF p = q THEN Cardinality(Occ(f, p)) + 1 ELSE Cardinality(Occ(f, p))
<1>1. p = q => /\ Occ(Append(f, q), p) = Occ(f, p) \cup {Len(f) + 1}
               /\ Len(f) + 1 \notin Occ(f, p)
  BY DEF Occ
<1>2. p # q => Occ(Append(f, q), p) = Occ(f, p)
  BY DEF Occ
<1> QED
  BY <1>1, <1>2, OccFinite, FS_AddElement

LEMMA PopSeq ==
    ASSUME NEW f \in Seq(Path), Len(f) > 0, NEW g, g = SubSeq(f, 1, Len(f) - 1)
    PROVE  g \in Seq(Path) /\ Len(g) = Len(f) - 1 /\ \A i \in 1..Len(g) : g[i] = f[i]
<1>1. Len(f) \in Nat /\ Len(f) - 1 \in 0..Len(f)
  OBVIOUS
<1>2. g = [i \in 1..(Len(f) - 1) |-> f[i]]
  BY <1>1
<1>3. g \in Seq(Path)
  BY <1>1
<1>4. PICK n \in Nat : n = Len(f) - 1
  BY <1>1
<1>5. DOMAIN g = 1..n
  BY <1>2, <1>4
<1>6. Len(g) = n
  BY <1>3, <1>5
<1> QED
  BY <1>2, <1>3, <1>4, <1>6

LEMMA OccPop ==
    ASSUME NEW f \in Seq(Path), Len(f) > 0, NEW p \in Path
    PROVE  Cardinality(Occ(SubSeq(f, 1, Len(f) - 1), p)) =
             IF p = f[Len(f)] THEN Cardinality(Occ(f, p)) - 1
                              ELSE Cardinality(Occ(f, p))
<1> DEFINE g == SubSeq(f, 1, Len(f) - 1)
<1>1. g \in Seq(Path) /\ Len(g) = Len(f) - 1 /\ \A i \in 1..Len(g) : g[i] = f[i]
  BY PopSeq
<1> HIDE DEF g
<1>2. p = f[Len(f)] => Occ(g, p) = Occ(f, p) \ {Len(f)} /\ Len(f) \in Occ(f, p)
  BY <1>1 DEF Occ
<1>3. p # f[Len(f)] => Occ(g, p) = Occ(f, p)
  BY <1>1 DEF Occ
<1>4. IsFiniteSet(Occ(f, p))
  BY OccFinite
<1> QED
  BY <1>2, <1>3, <1>4, FS_RemoveElement DEF g

LEMMA OccZero ==
    ASSUME NEW f \in Seq(Path), NEW p
    PROVE  Cardinality(Occ(f, p)) = 0 <=> Occ(f, p) = {}
  BY OccFinite, FS_EmptySet

Tombs(t) == {s \in DOMAIN t : t[s].state = "TOMBSTONE"}

LEMMA TombsFinite ==
    ASSUME NEW c \in Nat, NEW t \in [0..(c - 1) -> Slot]
    PROVE  IsFiniteSet(Tombs(t)) /\ Cardinality(Tombs(t)) \in Nat
<1>1. IsFiniteSet(0..(c - 1)) /\ Tombs(t) \in SUBSET (0..(c - 1))
  BY FS_Interval DEF Tombs
<1> QED
  BY <1>1, FS_Subset, FS_CardinalityType

LEMMA EmptySlotExists ==
    ASSUME NEW c \in Nat, NEW t \in [0..(c - 1) -> Slot], WellPlaced(c, t),
           NEW f \in Seq(Path),
           \A s \in 0..(c - 1) : t[s].state = "ACTIVE" => Occ(f, t[s].path) # {},
           Len(f) + Cardinality(Tombs(t)) < c
    PROVE  \E s \in 0..(c - 1) : t[s].state = "EMPTY"
<1> DEFINE D == 0..(c - 1)
           A == {s \in D : t[s].state = "ACTIVE"}
           first(s) == CHOOSE i \in 1..Len(f) : f[i] = t[s].path
           g == [s \in A |-> first(s)]
<1>1. SUFFICES ASSUME \A s \in D : t[s].state # "EMPTY" PROVE FALSE
  OBVIOUS
<1>2. \A s \in A : first(s) \in 1..Len(f) /\ f[first(s)] = t[s].path
  BY DEF Occ
<1>3. g \in [A -> 1..Len(f)]
  BY <1>2
<1>4. ASSUME NEW s \in A, NEW u \in A, g[s] = g[u] PROVE s = u
  <2>1. g[s] = first(s) /\ g[u] = first(u)
    OBVIOUS
  <2> HIDE DEF g
  <2>2. t[s].path = t[u].path
    BY <1>2, <1>4, <2>1
  <2> QED
    BY <2>2 DEF WellPlaced
<1> HIDE DEF g
<1>5. g \in Injection(A, 1..Len(f))
  BY <1>3, <1>4 DEF Injection, IsInjective
<1>6. IsFiniteSet(1..Len(f)) /\ Cardinality(1..Len(f)) = Len(f)
  <2>1. Len(f) \in Nat
    OBVIOUS
  <2>2. 1 \in Int /\ Len(f) \in Int
    BY <2>1
  <2>3. Cardinality(1..Len(f)) = IF 1 > Len(f) THEN 0 ELSE Len(f) - 1 + 1
    BY <2>2, FS_Interval
  <2>4. Cardinality(1..Len(f)) = Len(f)
    BY <2>1, <2>3
  <2>5. IsFiniteSet(1..Len(f))
    BY <2>2, FS_Interval
  <2> QED
    BY <2>4, <2>5
<1>7. IsFiniteSet(A) /\ Cardinality(A) <= Len(f) /\ Cardinality(A) \in Nat
  BY <1>5, <1>6, FS_Injection, FS_CardinalityType
<1>8. D = A \cup Tombs(t) /\ A \cap Tombs(t) = {}
  BY <1>1 DEF Tombs, Slot, State
<1>9. IsFiniteSet(Tombs(t)) /\ Cardinality(Tombs(t)) \in Nat
  BY TombsFinite
<1>10. Cardinality(D) = Cardinality(A) + Cardinality(Tombs(t)) - Cardinality({})
  BY <1>7, <1>8, <1>9, FS_Union
<1>11. Cardinality(D) = c /\ Cardinality({}) = 0
  BY FS_Interval, FS_EmptySet
<1> QED
  BY <1>7, <1>9, <1>10, <1>11

-------------------------------------------------------------------------------
(***************************************************************************)
(* The inductive invariant.  ContainsExact needs the placement of every    *)
(* active slot, which needs find_slot to halt while the table changes,     *)
(* which needs the load bound; during a rehash all of it holds of the part *)
(* moved so far, and the rest is still in the old table.                   *)
(***************************************************************************)
HasActive(t, p) == \E s \in DOMAIN t : t[s].state = "ACTIVE" /\ t[s].path = p

Counted(t, f) ==
    \A s \in DOMAIN t :
       t[s].state = "ACTIVE" => /\ t[s].path \in Path
                                /\ Occ(f, t[s].path) # {}
                                /\ t[s].count = Cardinality(Occ(f, t[s].path))

Complete(t, f) == \A p \in Path : Occ(f, p) # {} => HasActive(t, p)

Shape == /\ WellPlaced(capacity, table)
         /\ Counted(table, frames)
         /\ tombstones = Cardinality(Tombs(table))
         /\ (Depth + tombstones) * 2 <= capacity

Moving == /\ tombstones = 0
          /\ (Depth + 1) * 2 <= capacity
          /\ Counted(old, frames)
          /\ Complete(old, frames)
          /\ \E n \in Nat : DOMAIN old = 0..(n - 1) /\ cursor <= n
          /\ \A s \in DOMAIN old : s < cursor /\ old[s].state = "ACTIVE" =>
                HasActive(table, old[s].path)

PhaseInv == /\ phase # "rehashing" => Complete(table, frames)
            /\ phase = "rehashing" => Moving
            /\ phase # "idle" => pending \in Path
            /\ phase = "sizing" /\ capacity = 0 => newCapacity >= 4
            /\ phase = "ready" => (Depth + tombstones + 1) * 2 <= capacity

IInv == TypeOK /\ Shape /\ PhaseInv

LEMMA Halts ==
    ASSUME IInv, capacity # 0, NEW p \in Path
    PROVE  Stops(p) # {}
<1>1. /\ capacity \in Nat /\ capacity > 0 /\ table \in [0..(capacity - 1) -> Slot]
      /\ frames \in Seq(Path) /\ WellPlaced(capacity, table)
      /\ tombstones \in Nat /\ Depth \in Nat
  BY DEF IInv, TypeOK, Shape, Depth
<1>2. \A s \in 0..(capacity - 1) :
         table[s].state = "ACTIVE" => Occ(frames, table[s].path) # {}
  BY <1>1 DEF IInv, Shape, Counted
<1>3. Len(frames) + Cardinality(Tombs(table)) < capacity
  BY <1>1 DEF IInv, Shape, Depth
<1>4. \E s \in 0..(capacity - 1) : table[s].state = "EMPTY"
  BY <1>1, <1>2, <1>3, EmptySlotExists
<1> QED
  BY <1>1, <1>4, EmptySlotStops

\* The table after an active slot for p has been written at FindSlot(p).
LEMMA InsertFacts ==
    ASSUME IInv, capacity # 0, NEW p \in Path,
           NEW v \in Slot, v.state = "ACTIVE", v.path = p, v.count > 0,
           NEW t \in [0..(capacity - 1) -> Slot], t[FindSlot(p)] = v,
           \A s \in 0..(capacity - 1) : s # FindSlot(p) => t[s] = table[s]
    PROVE  /\ WellPlaced(capacity, t)
           /\ HasActive(t, p)
           /\ \A q \in Path : HasActive(table, q) => HasActive(t, q)
           /\ \A s \in 0..(capacity - 1) :
                 t[s].state = "ACTIVE" /\ s # FindSlot(p) => t[s].path # p
           /\ Tombs(t) = Tombs(table) \ {FindSlot(p)}
<1> DEFINE f == FindSlot(p)
           D == 0..(capacity - 1)
<1>1. capacity \in Nat /\ capacity > 0 /\ table \in [D -> Slot] /\ WellPlaced(capacity, table)
  BY DEF IInv, TypeOK, Shape
<1>2. Stops(p) # {}
  BY Halts
<1>3. /\ f \in D
      /\ Found(p) <=> \E s \in D : IsHit(p, s)
      /\ Found(p) => IsHit(p, f)
      /\ ~Found(p) => table[f].state # "ACTIVE"
  BY <1>1, <1>2, FindSlotFacts
<1>4. t = [table EXCEPT ![FindSlot(p)] = v]
  BY <1>1, <1>3
<1>5. WellPlaced(capacity, t)
  BY <1>1, <1>2, <1>4, InsertPlaced
<1> HIDE DEF f
<1>6. t \in [D -> Slot] /\ t[f] = v /\ \A s \in D : s # f => t[s] = table[s]
  BY DEF f
<1>7. HasActive(t, p)
  BY <1>3, <1>6 DEF HasActive
<1>8. ASSUME NEW q \in Path, HasActive(table, q) PROVE HasActive(t, q)
  <2>1. PICK s \in D : table[s].state = "ACTIVE" /\ table[s].path = q
    BY <1>1, <1>8 DEF HasActive
  <2>2. CASE s # f
    BY <1>6, <2>1, <2>2 DEF HasActive
  <2>3. CASE s = f
    BY <1>3, <1>7, <2>1, <2>3 DEF IsHit
  <2> QED
    BY <2>2, <2>3
<1>9. ASSUME NEW s \in D, t[s].state = "ACTIVE", s # f PROVE t[s].path # p
  <2>1. SUFFICES ASSUME t[s].path = p PROVE FALSE
    OBVIOUS
  <2>2. IsHit(p, s)
    BY <1>6, <1>9, <2>1 DEF IsHit
  <2>3. IsHit(p, f)
    BY <1>3, <2>2
  <2> QED
    BY <1>1, <1>3, <1>9, <2>2, <2>3 DEF IsHit, WellPlaced
<1>10. Tombs(t) = Tombs(table) \ {f}
  BY <1>1, <1>3, <1>6 DEF Tombs
<1> QED
  BY <1>1, <1>5, <1>6, <1>7, <1>8, <1>9, <1>10 DEF f

LEMMA InitInv == Init => IInv
<1> SUFFICES ASSUME Init PROVE IInv
  OBVIOUS
<1> USE IncludeStackAssumption DEF Init
<1>1. DOMAIN table = {} /\ DOMAIN old = {} /\ 0..(capacity - 1) = {}
  BY DEF EmptyTable
<1>2. TypeOK
  BY <1>1 DEF TypeOK, EmptyTable
<1>3. Tombs(table) = {} /\ Cardinality(Tombs(table)) = 0
  BY <1>1, FS_EmptySet DEF Tombs
<1>4. Shape
  BY <1>1, <1>3 DEF Shape, WellPlaced, Counted, Depth
<1>5. \A p \in Path : Occ(frames, p) = {}
  BY DEF Occ
<1>6. PhaseInv
  BY <1>5 DEF PhaseInv, Complete
<1> QED
  BY <1>2, <1>4, <1>6 DEF IInv

LEMMA PushBeginsInv ==
    ASSUME IInv, NEW path \in Path, PushBegins(path)
    PROVE  IInv'
<1> USE IncludeStackAssumption DEF PushBegins
<1>1. TypeOK'
  BY DEF IInv, TypeOK
<1>2. Shape'
  BY DEF IInv, Shape, Depth
<1>3. (Depth' = Depth) /\ Depth \in Nat /\ capacity \in Nat /\ tombstones \in Nat
  BY DEF IInv, TypeOK, Depth
<1>4. PhaseInv'
  BY <1>3 DEF IInv, PhaseInv, RoomForOne
<1> QED
  BY <1>1, <1>2, <1>4 DEF IInv

LEMMA CapacityDoublesInv ==
    ASSUME IInv, CapacityDoubles
    PROVE  IInv'
<1> USE DEF CapacityDoubles, Growing
<1>1. TypeOK'
  BY DEF IInv, TypeOK
<1>2. Shape'
  BY DEF IInv, Shape, Depth
<1>3. PhaseInv'
  BY DEF IInv, PhaseInv, Depth
<1> QED
  BY <1>1, <1>2, <1>3 DEF IInv

LEMMA PushFailsInv ==
    ASSUME IInv, PushFails
    PROVE  IInv'
<1> USE DEF PushFails
<1>1. TypeOK'
  BY DEF IInv, TypeOK
<1>2. Shape'
  BY DEF IInv, Shape, Depth
<1>3. PhaseInv'
  BY DEF IInv, PhaseInv, Depth
<1> QED
  BY <1>1, <1>2, <1>3 DEF IInv

LEMMA RehashBeginsInv ==
    ASSUME IInv, RehashBegins
    PROVE  IInv'
<1> DEFINE size == IF capacity # 0 /\ (Depth + tombstones + 1) * 2 > newCapacity
                   THEN 2 * newCapacity ELSE newCapacity
<1>1. /\ phase = "sizing" /\ ~Growing
      /\ old' = table /\ table' = EmptyTable(size) /\ capacity' = size
      /\ newCapacity' = size /\ tombstones' = 0 /\ cursor' = 0
      /\ phase' = "rehashing" /\ frames' = frames /\ pending' = pending
  BY DEF RehashBegins
<1>2. /\ capacity \in Nat /\ newCapacity \in Nat /\ tombstones \in Nat /\ Depth \in Nat
      /\ table \in [0..(capacity - 1) -> Slot] /\ frames \in Seq(Path)
  BY DEF IInv, TypeOK, Depth
<1>3. size \in Nat /\ (Depth + 1) * 2 <= size
  <2>1. CASE capacity = 0
    BY <1>1, <1>2, <2>1 DEF IInv, Shape, PhaseInv
  <2>2. CASE capacity # 0
    BY <1>1, <1>2, <2>2 DEF Growing
  <2> QED
    BY <2>1, <2>2
<1> HIDE DEF size
<1>4. DOMAIN table' = 0..(size - 1) /\ \A s \in 0..(size - 1) : table'[s] = EmptySlot
  BY <1>1 DEF EmptyTable
<1>5. EmptySlot \in Slot /\ EmptySlot.state = "EMPTY" /\ EmptySlot.count = 0
  BY DEF EmptySlot, Slot, State
<1>6. TypeOK'
  <2>1. table' \in [0..(capacity' - 1) -> Slot]
    BY <1>1, <1>5 DEF EmptyTable
  <2>2. \A s \in DOMAIN old' : old'[s] \in Slot
    BY <1>1, <1>2
  <2> QED
    BY <1>1, <1>3, <2>1, <2>2 DEF IInv, TypeOK
<1>7. WellPlaced(capacity', table') /\ Counted(table', frames')
  <2>1. \A s \in 0..(size - 1) : table'[s].state # "ACTIVE" /\ table'[s].count = 0
    BY <1>4, <1>5
  <2>2. WellPlaced(size, table')
    BY <2>1 DEF WellPlaced
  <2>3. Counted(table', frames')
    BY <1>4, <2>1 DEF Counted
  <2> QED
    BY <1>1, <2>2, <2>3
<1>8. Tombs(table') = {} /\ Cardinality(Tombs(table')) = 0
  <2>1. Tombs(table') = {}
    BY <1>4, <1>5 DEF Tombs
  <2> QED
    BY <2>1, FS_EmptySet
<1>9. Shape'
  BY <1>1, <1>2, <1>3, <1>7, <1>8 DEF Shape, Depth
<1>10. Moving'
  <2>1. Counted(old', frames') /\ Complete(old', frames')
    BY <1>1 DEF IInv, Shape, PhaseInv
  <2>2. DOMAIN old' = 0..(capacity - 1) /\ cursor' <= capacity
    BY <1>1, <1>2
  <2>3. \A s \in DOMAIN old' : ~(s < cursor')
    BY <1>1, <1>2
  <2> QED
    BY <1>1, <1>2, <1>3, <2>1, <2>2, <2>3 DEF Moving, Depth
<1>11. PhaseInv'
  BY <1>1, <1>10 DEF IInv, PhaseInv
<1> QED
  BY <1>6, <1>9, <1>11 DEF IInv

LEMMA RehashMovesInv ==
    ASSUME IInv, RehashMoves
    PROVE  IInv'
<1> DEFINE v == old[cursor]
           D == 0..(capacity - 1)
<1>1. /\ phase = "rehashing" /\ cursor \in DOMAIN old
      /\ cursor' = cursor + 1
      /\ UNCHANGED <<frames, capacity, tombstones, phase, pending, newCapacity, old>>
  BY DEF RehashMoves, OldSlots
<1>2. /\ capacity \in Nat /\ table \in [D -> Slot] /\ frames \in Seq(Path)
      /\ cursor \in Nat /\ v \in Slot /\ Depth \in Nat /\ tombstones = 0
      /\ Moving
  <2>1. TypeOK /\ PhaseInv
    BY DEF IInv
  <2>2. Moving /\ tombstones = 0
    BY <1>1, <2>1 DEF PhaseInv, Moving
  <2>3. /\ capacity \in Nat /\ table \in [D -> Slot] /\ frames \in Seq(Path)
        /\ cursor \in Nat /\ v \in Slot
    BY <1>1, <2>1 DEF TypeOK
  <2>4. Depth \in Nat
    BY <2>3 DEF Depth
  <2> QED
    BY <2>2, <2>3, <2>4
<1>3. capacity # 0
  BY <1>2 DEF Moving
<1>4. Tombs(table) = {}
  BY <1>2, TombsFinite, FS_EmptySet DEF IInv, Shape
<1>5. PICK n \in Nat : DOMAIN old = 0..(n - 1) /\ cursor <= n
  BY <1>2 DEF Moving
<1>6. cursor' \in Nat /\ cursor' <= n
  BY <1>1, <1>2, <1>5
<1>7. SUFFICES /\ table' \in [D -> Slot]
               /\ WellPlaced(capacity, table')
               /\ Counted(table', frames)
               /\ Tombs(table') = {}
               /\ v.state = "ACTIVE" => HasActive(table', v.path)
               /\ \A q \in Path : HasActive(table, q) => HasActive(table', q)
  <2>1. TypeOK'
    BY <1>1, <1>6, <1>7 DEF IInv, TypeOK
  <2>2. Shape'
    BY <1>1, <1>2, <1>4, <1>7 DEF IInv, Shape, Depth
  <2>3. \A s \in DOMAIN old : s < cursor' /\ old[s].state = "ACTIVE" =>
            HasActive(table', old[s].path)
    <3> SUFFICES ASSUME NEW s \in DOMAIN old, s < cursor + 1, old[s].state = "ACTIVE"
                 PROVE  HasActive(table', old[s].path)
      BY <1>1
    <3>1. CASE s = cursor
      BY <1>7, <3>1
    <3>2. CASE s # cursor
      <4>1. s < cursor
        BY <1>2, <1>5, <3>2
      <4> QED
        BY <1>2, <1>7, <4>1 DEF Moving, Counted
    <3> QED
      BY <3>1, <3>2
  <2>4. Moving'
    BY <1>1, <1>2, <1>5, <1>6, <2>3 DEF Moving, Depth
  <2>5. PhaseInv'
    BY <1>1, <2>4 DEF IInv, PhaseInv
  <2> QED
    BY <2>1, <2>2, <2>5 DEF IInv
<1>8. CASE v.state = "ACTIVE"
  <2>1. PICK w \in Slot : w = v
    BY <1>2
  <2>2. PICK p \in Path : p = w.path
    BY <1>1, <1>2, <1>8, <2>1 DEF Moving, Counted
  <2>3. Occ(frames, p) # {} /\ w.count = Cardinality(Occ(frames, p))
    BY <1>1, <1>2, <1>8, <2>1, <2>2 DEF Moving, Counted
  <2>4. w.count > 0 /\ w.count # 0
    BY <1>2, <2>3, OccFinite, OccZero
  <2>5. table' = [table EXCEPT ![FindSlot(p)] = w]
    BY <1>8, <2>1, <2>2, <2>4 DEF RehashMoves
  <2>6. PICK t : t = table'
    OBVIOUS
  <2>7. /\ w.state = "ACTIVE" /\ w.path = p
        /\ t \in [D -> Slot] /\ t[FindSlot(p)] = w
        /\ \A s \in D : s # FindSlot(p) => t[s] = table[s]
    <3>1. FindSlot(p) \in D
      <4>1. Stops(p) # {}
        BY <1>3, Halts
      <4>2. WellPlaced(capacity, table)
        BY DEF IInv, Shape
      <4> QED
        BY <1>2, <1>3, <4>1, <4>2, FindSlotFacts
    <3> QED
      BY <1>2, <1>8, <2>1, <2>2, <2>5, <2>6, <3>1
  <2>8. /\ WellPlaced(capacity, t)
        /\ HasActive(t, p)
        /\ \A q \in Path : HasActive(table, q) => HasActive(t, q)
        /\ Tombs(t) = Tombs(table) \ {FindSlot(p)}
    BY <1>3, <2>4, <2>7, InsertFacts
  <2>9. Counted(t, frames)
    BY <1>2, <2>3, <2>7 DEF IInv, Shape, Counted
  <2> QED
    BY <1>4, <2>1, <2>6, <2>7, <2>8, <2>9
<1>9. CASE v.state # "ACTIVE"
  <2>1. table' = table
    BY <1>9 DEF RehashMoves
  <2> QED
    BY <1>2, <1>4, <1>9, <2>1 DEF IInv, Shape
<1> QED
  BY <1>8, <1>9

LEMMA RehashEndsInv ==
    ASSUME IInv, RehashEnds
    PROVE  IInv'
<1>1. /\ phase = "rehashing" /\ cursor \notin DOMAIN old
      /\ phase' = "ready" /\ old' = EmptyTable(0) /\ cursor' = 0
      /\ UNCHANGED <<frames, capacity, table, tombstones, pending, newCapacity>>
  BY DEF RehashEnds, OldSlots
<1>2. Moving /\ cursor \in Nat /\ Depth \in Nat
  BY <1>1 DEF IInv, PhaseInv, TypeOK, Depth
<1>3. TypeOK'
  BY <1>1 DEF IInv, TypeOK, EmptyTable
<1>4. Shape'
  BY <1>1 DEF IInv, Shape, Depth
<1>5. \A s \in DOMAIN old : s < cursor
  BY <1>1, <1>2 DEF Moving
<1>6. ASSUME NEW p \in Path, Occ(frames, p) # {} PROVE HasActive(table, p)
  <2>1. PICK s \in DOMAIN old : old[s].state = "ACTIVE" /\ old[s].path = p
    BY <1>2, <1>6 DEF Moving, Complete, HasActive
  <2> QED
    BY <1>2, <1>5, <2>1 DEF Moving
<1>7. Complete(table', frames')
  BY <1>1, <1>6 DEF Complete
<1>8. PhaseInv'
  <2>1. pending' \in Path
    BY <1>1 DEF IInv, PhaseInv
  <2>2. tombstones = 0 /\ (Depth + 1) * 2 <= capacity
    BY <1>2 DEF Moving
  <2>3. ((Depth + tombstones + 1) * 2 <= capacity)'
    BY <1>1, <1>2, <2>2 DEF Depth
  <2> QED
    BY <1>1, <1>7, <2>1, <2>3 DEF PhaseInv
<1> QED
  BY <1>3, <1>4, <1>8 DEF IInv

LEMMA PushEndsInv ==
    ASSUME IInv, PushEnds
    PROVE  IInv'
<1> DEFINE D == 0..(capacity - 1)
<1>1. /\ phase = "ready" /\ phase' = "idle" /\ pending' = NoPath
      /\ frames' = Append(frames, pending)
      /\ UNCHANGED <<capacity, newCapacity, old, cursor>>
  BY DEF PushEnds
<1>2. /\ capacity \in Nat /\ table \in [D -> Slot] /\ frames \in Seq(Path)
      /\ tombstones \in Nat /\ Depth \in Nat /\ Depth = Len(frames)
      /\ (Depth + tombstones + 1) * 2 <= capacity
      /\ WellPlaced(capacity, table) /\ Counted(table, frames)
      /\ Complete(table, frames) /\ tombstones = Cardinality(Tombs(table))
  BY <1>1 DEF IInv, TypeOK, Depth, PhaseInv, Shape
<1>3. capacity # 0 /\ capacity > 0
  BY <1>2
<1>4. PICK p \in Path : p = pending
  BY <1>1 DEF IInv, PhaseInv
<1>5. /\ FindSlot(p) \in D
      /\ Found(p) <=> \E s \in D : IsHit(p, s)
      /\ Found(p) => IsHit(p, FindSlot(p))
      /\ ~Found(p) => table[FindSlot(p)].state # "ACTIVE"
  BY <1>2, <1>3, Halts, FindSlotFacts
<1>6. PICK f \in D : f = FindSlot(p)
  BY <1>5
<1>7. table[f].count = Cardinality(Occ(frames, p)) /\ table[f].count \in Nat
  <2>1. CASE Found(p)
    BY <1>2, <1>5, <1>6, <2>1 DEF IsHit, Counted, Slot
  <2>2. CASE ~Found(p)
    <3>1. table[f].count = 0
      BY <1>2, <1>5, <1>6, <2>2 DEF WellPlaced
    <3>2. ~HasActive(table, p)
      BY <1>2, <1>5, <2>2 DEF HasActive, IsHit
    <3>3. Occ(frames, p) = {}
      BY <1>2, <3>2 DEF Complete
    <3>4. Cardinality(Occ(frames, p)) = 0
      BY <3>3, FS_EmptySet
    <3> QED
      BY <3>1, <3>4
  <2> QED
    BY <2>1, <2>2
<1>8. PICK w \in Slot : w = [state |-> "ACTIVE", path |-> p, count |-> table[f].count + 1]
  <2>1. \A n \in Nat : [state |-> "ACTIVE", path |-> p, count |-> n] \in Slot
    BY DEF Slot, State
  <2>2. table[f].count + 1 \in Nat
    BY <1>7
  <2> QED
    BY <2>1, <2>2
<1>9. w.state = "ACTIVE" /\ w.path = p /\ w.count > 0
      /\ w.count = Cardinality(Occ(frames, p)) + 1
  <2>1. \A n \in Nat : n + 1 > 0
    OBVIOUS
  <2>2. w.state = "ACTIVE" /\ w.path = p /\ w.count = table[f].count + 1
    BY <1>8
  <2> QED
    BY Zenon, <1>7, <2>1, <2>2
<1>10. PICK t : t = table'
  OBVIOUS
<1>11. /\ t \in [D -> Slot] /\ t[f] = w
       /\ \A s \in D : s # f => t[s] = table[s]
  BY <1>2, <1>4, <1>6, <1>8, <1>10 DEF PushEnds
<1>12. /\ WellPlaced(capacity, t)
       /\ HasActive(t, p)
       /\ \A q \in Path : HasActive(table, q) => HasActive(t, q)
       /\ \A s \in D : t[s].state = "ACTIVE" /\ s # f => t[s].path # p
       /\ Tombs(t) = Tombs(table) \ {f}
  <2>1. /\ t[FindSlot(p)] = w
        /\ \A s \in 0..(capacity - 1) : s # FindSlot(p) => t[s] = table[s]
    BY <1>6, <1>11
  <2>2. /\ WellPlaced(capacity, t)
        /\ HasActive(t, p)
        /\ \A q \in Path : HasActive(table, q) => HasActive(t, q)
        /\ Tombs(t) = Tombs(table) \ {FindSlot(p)}
    BY <1>3, <1>9, <1>11, <2>1, InsertFacts
  <2>3. \A s \in D : t[s].state = "ACTIVE" /\ s # FindSlot(p) => t[s].path # p
    BY <1>3, <1>9, <1>11, <2>1, InsertFacts
  <2> QED
    BY <1>6, <2>2, <2>3
<1>13. PICK g \in Seq(Path) : g = Append(frames, p) /\ g = frames'
  <2>1. Append(frames, p) \in Seq(Path)
    BY <1>2
  <2>2. frames' = Append(frames, p)
    BY <1>1, <1>4
  <2> QED
    BY <2>1, <2>2
<1>14. \A q \in Path : Cardinality(Occ(g, q)) =
          IF q = p THEN Cardinality(Occ(frames, q)) + 1 ELSE Cardinality(Occ(frames, q))
  <2>1. ASSUME NEW q \in Path
        PROVE  Cardinality(Occ(Append(frames, p), q)) =
                 IF q = p THEN Cardinality(Occ(frames, q)) + 1
                          ELSE Cardinality(Occ(frames, q))
    BY <1>2, OccPush
  <2> QED
    BY <1>13, <2>1
<1>15. Counted(t, g)
  <2> SUFFICES ASSUME NEW s \in D, t[s].state = "ACTIVE"
               PROVE  /\ t[s].path \in Path
                      /\ Occ(g, t[s].path) # {}
                      /\ t[s].count = Cardinality(Occ(g, t[s].path))
    BY <1>11 DEF Counted
  <2>1. CASE s = f
    <3>1. t[s].path = p /\ t[s].count = Cardinality(Occ(g, p))
      BY <1>9, <1>11, <1>14, <2>1
    <3>2. Cardinality(Occ(g, p)) # 0
      BY <1>9, <1>11, <2>1, <3>1
    <3> QED
      BY <3>1, <3>2, OccZero
  <2>2. CASE s # f
    <3>1. t[s] = table[s] /\ t[s].path # p
      BY <1>11, <1>12, <2>2
    <3>2. /\ t[s].path \in Path
          /\ Occ(frames, t[s].path) # {}
          /\ t[s].count = Cardinality(Occ(frames, t[s].path))
      BY <1>2, <3>1 DEF Counted
    <3>3. Cardinality(Occ(g, t[s].path)) = Cardinality(Occ(frames, t[s].path))
      BY <1>14, <3>1, <3>2
    <3> QED
      BY <1>2, <3>2, <3>3, OccZero
  <2> QED
    BY <2>1, <2>2
<1>16. Complete(t, g)
  <2> SUFFICES ASSUME NEW q \in Path, Occ(g, q) # {} PROVE HasActive(t, q)
    BY DEF Complete
  <2>1. CASE q = p
    BY <1>12, <2>1
  <2>2. CASE q # p
    <3>1. Occ(frames, q) # {}
      BY <1>2, <1>14, <2>2, OccZero
    <3> QED
      BY <1>2, <1>12, <3>1 DEF Complete
  <2> QED
    BY <2>1, <2>2
<1>17. tombstones' = Cardinality(Tombs(t)) /\ tombstones' \in Nat
       /\ tombstones' <= tombstones
  <2>1. IsFiniteSet(Tombs(table))
    BY <1>2, TombsFinite
  <2>2. f \in Tombs(table) <=> table[f].state = "TOMBSTONE"
    BY <1>2 DEF Tombs
  <2>3. table[f].state = "TOMBSTONE" => ~Found(p)
    BY <1>5, <1>6 DEF IsHit
  <2>4. Cardinality(Tombs(t)) =
          IF f \in Tombs(table) THEN tombstones - 1 ELSE tombstones
    BY <1>2, <1>12, <2>1, FS_RemoveElement
  <2>5. f \in Tombs(table) => tombstones > 0
    BY <1>2, <2>1, FS_EmptySet
  <2>6. tombstones' = IF ~Found(p) /\ table[f].state = "TOMBSTONE" /\ tombstones > 0
                      THEN tombstones - 1 ELSE tombstones
    BY <1>4, <1>6 DEF PushEnds
  <2>7. tombstones' = IF f \in Tombs(table) THEN tombstones - 1 ELSE tombstones
    BY <2>2, <2>3, <2>5, <2>6
  <2>8. tombstones \in Nat
    BY <1>2
  <2>9. CASE f \in Tombs(table)
    BY <2>4, <2>5, <2>7, <2>8, <2>9
  <2>10. CASE f \notin Tombs(table)
    BY <2>4, <2>7, <2>8, <2>10
  <2> QED
    BY <2>9, <2>10
<1>18. Depth' = Depth + 1
  BY <1>1, <1>2, <1>4 DEF Depth
<1>19. TypeOK'
  BY <1>1, <1>2, <1>10, <1>11, <1>13, <1>17 DEF IInv, TypeOK
<1>20. Shape'
  <2>1. WellPlaced(capacity', table') /\ Counted(table', frames')
    BY <1>1, <1>10, <1>12, <1>13, <1>15
  <2>2. (Depth' + tombstones') * 2 <= capacity'
    <3>1. \A d, b, e, c \in Nat :
             (d + b + 1) * 2 <= c /\ e <= b => ((d + 1) + e) * 2 <= c
      OBVIOUS
    <3>2. capacity' = capacity
      BY <1>1
    <3>3. ((Depth + 1) + tombstones') * 2 <= capacity
      BY <1>2, <1>17, <3>1
    <3> QED
      BY <1>18, <3>2, <3>3
  <2> QED
    BY <1>10, <1>17, <2>1, <2>2 DEF Shape
<1>21. PhaseInv'
  BY <1>1, <1>10, <1>13, <1>16 DEF PhaseInv
<1> QED
  BY <1>19, <1>20, <1>21 DEF IInv

LEMMA PopInv ==
    ASSUME IInv, Pop
    PROVE  IInv'
<1> DEFINE D == 0..(capacity - 1)
<1>1. /\ phase = "idle" /\ Depth > 0
      /\ frames' = SubSeq(frames, 1, Depth - 1)
      /\ UNCHANGED <<capacity, phase, pending, newCapacity, old, cursor>>
  BY DEF Pop
<1>2. /\ capacity \in Nat /\ table \in [D -> Slot] /\ frames \in Seq(Path)
      /\ tombstones \in Nat /\ Depth \in Nat /\ Depth = Len(frames)
      /\ (Depth + tombstones) * 2 <= capacity
      /\ WellPlaced(capacity, table) /\ Counted(table, frames)
      /\ Complete(table, frames) /\ tombstones = Cardinality(Tombs(table))
  BY <1>1 DEF IInv, TypeOK, Depth, PhaseInv, Shape
<1>3. capacity # 0 /\ capacity > 0
  BY <1>1, <1>2
<1>4. PICK p \in Path : p = frames[Depth]
  BY <1>1, <1>2
<1>5. Occ(frames, p) # {} /\ HasActive(table, p)
  <2>1. Depth \in 1..Len(frames)
    BY <1>1, <1>2
  <2>2. Depth \in Occ(frames, p)
    BY <1>4, <2>1 DEF Occ
  <2> QED
    BY <1>2, <2>2 DEF Complete
<1>6. /\ FindSlot(p) \in D
      /\ Found(p)
      /\ IsHit(p, FindSlot(p))
  <2>1. \E s \in D : IsHit(p, s)
    BY <1>2, <1>5 DEF HasActive, IsHit
  <2> QED
    BY <1>2, <1>3, <2>1, Halts, FindSlotFacts
<1>7. PICK f \in D : f = FindSlot(p)
  BY <1>6
<1>8. /\ table[f].state = "ACTIVE" /\ table[f].path = p
      /\ table[f].count = Cardinality(Occ(frames, p))
      /\ table[f].count > 0 /\ table[f].count \in Nat
      /\ table[f] \in Slot
  BY <1>2, <1>6, <1>7 DEF IsHit, Counted, WellPlaced, Slot
<1>9. PICK t : t = table'
  OBVIOUS
<1>10. t = [table EXCEPT ![f] = Released(@)]
  BY <1>3, <1>4, <1>6, <1>7, <1>8, <1>9 DEF Pop
<1>11. WellPlaced(capacity, t)
  BY <1>2, <1>8, <1>10, ReleasePlaced
<1>12. PICK w \in Slot : w = Released(table[f])
  <2>0. \A n \in Nat : n > 0 => n - 1 \in Nat
    OBVIOUS
  <2>1. table[f].count # 1 => table[f].count - 1 \in Nat
    BY Zenon, <1>8, <2>0
  <2> QED
    BY <1>8, <2>1 DEF Released, Slot, State
<1>13. t \in [D -> Slot] /\ t[f] = w /\ \A s \in D : s # f => t[s] = table[s]
  BY <1>2, <1>10, <1>12
<1>14. /\ table[f].count = 1 => w.state = "TOMBSTONE"
       /\ table[f].count # 1 => /\ w.state = "ACTIVE" /\ w.path = p
                                /\ w.count = table[f].count - 1
  BY <1>8, <1>12 DEF Released, Slot
<1>15. PICK g \in Seq(Path) : g = SubSeq(frames, 1, Len(frames) - 1) /\ g = frames'
  <2>1. SubSeq(frames, 1, Len(frames) - 1) \in Seq(Path)
    BY <1>1, <1>2
  <2> QED
    BY <1>1, <1>2, <2>1
<1>16. \A q \in Path : Cardinality(Occ(g, q)) =
          IF q = p THEN Cardinality(Occ(frames, q)) - 1 ELSE Cardinality(Occ(frames, q))
  <2>1. ASSUME NEW q \in Path
        PROVE  Cardinality(Occ(SubSeq(frames, 1, Len(frames) - 1), q)) =
                 IF q = frames[Len(frames)] THEN Cardinality(Occ(frames, q)) - 1
                                            ELSE Cardinality(Occ(frames, q))
    BY <1>1, <1>2, OccPop
  <2> QED
    BY <1>2, <1>4, <1>15, <2>1
<1>17. Counted(t, g)
  <2> SUFFICES ASSUME NEW s \in D, t[s].state = "ACTIVE"
               PROVE  /\ t[s].path \in Path
                      /\ Occ(g, t[s].path) # {}
                      /\ t[s].count = Cardinality(Occ(g, t[s].path))
    BY <1>13 DEF Counted
  <2>1. CASE s = f
    <3>1. /\ t[s].path = p /\ table[f].count # 1
          /\ t[s].count = table[f].count - 1
      BY <1>13, <1>14, <2>1
    <3>2. Cardinality(Occ(g, p)) = table[f].count - 1
      BY <1>8, <1>16
    <3>3. Cardinality(Occ(g, p)) # 0
      BY <1>8, <3>1, <3>2
    <3> QED
      BY <3>1, <3>2, <3>3, OccZero
  <2>2. CASE s # f
    <3>1. t[s] = table[s] /\ table[s].state = "ACTIVE"
      BY <1>13, <2>2
    <3>2. /\ t[s].path \in Path
          /\ Occ(frames, t[s].path) # {}
          /\ t[s].count = Cardinality(Occ(frames, t[s].path))
      BY <1>2, <3>1 DEF Counted
    <3>3. t[s].path # p
      BY <1>2, <1>8, <2>2, <3>1 DEF WellPlaced
    <3>4. Cardinality(Occ(g, t[s].path)) = Cardinality(Occ(frames, t[s].path))
      BY <1>16, <3>2, <3>3
    <3> QED
      BY <1>2, <3>2, <3>4, OccZero
  <2> QED
    BY <2>1, <2>2
<1>18. Complete(t, g)
  <2> SUFFICES ASSUME NEW q \in Path, Occ(g, q) # {} PROVE HasActive(t, q)
    BY DEF Complete
  <2>1. CASE q = p
    <3>1. Cardinality(Occ(g, p)) # 0
      BY <2>1, OccZero
    <3>2. table[f].count # 1
      <4>1. Cardinality(Occ(g, p)) = table[f].count - 1
        BY Zenon, <1>8, <1>16
      <4>2. table[f].count = 1 => table[f].count - 1 = 0
        OBVIOUS
      <4> QED
        BY Zenon, <3>1, <4>1, <4>2
    <3> QED
      BY <1>13, <1>14, <2>1, <3>2 DEF HasActive
  <2>2. CASE q # p
    <3>1. Occ(frames, q) # {}
      BY <1>2, <1>16, <2>2, OccZero
    <3>2. PICK s \in D : table[s].state = "ACTIVE" /\ table[s].path = q
      BY <1>2, <3>1 DEF Complete, HasActive
    <3>3. s # f
      BY <1>8, <2>2, <3>2
    <3> QED
      BY <1>13, <3>2, <3>3 DEF HasActive
  <2> QED
    BY <2>1, <2>2
<1>19. /\ tombstones' = Cardinality(Tombs(t)) /\ tombstones' \in Nat
       /\ tombstones' <= tombstones + 1
  <2>1. IsFiniteSet(Tombs(table)) /\ f \notin Tombs(table)
    BY <1>2, <1>8, TombsFinite DEF Tombs
  <2>2. tombstones' = IF table[f].count = 1 THEN tombstones + 1 ELSE tombstones
    BY <1>3, <1>4, <1>6, <1>7, <1>8 DEF Pop
  <2>3. Tombs(t) = IF table[f].count = 1 THEN Tombs(table) \cup {f} ELSE Tombs(table)
    BY <1>2, <1>8, <1>13, <1>14 DEF Tombs
  <2>4. Cardinality(Tombs(table) \cup {f}) = tombstones + 1
    BY <1>2, <2>1, FS_AddElement
  <2>5. tombstones \in Nat /\ tombstones = Cardinality(Tombs(table))
    BY <1>2
  <2>6. CASE table[f].count = 1
    BY <2>2, <2>3, <2>4, <2>5, <2>6
  <2>7. CASE table[f].count # 1
    BY <2>2, <2>3, <2>5, <2>7
  <2> QED
    BY <2>6, <2>7
<1>20. Depth' = Depth - 1
  <2>1. Len(g) = Len(frames) - 1
    BY <1>1, <1>2, <1>15, PopSeq
  <2> QED
    BY <1>15, <2>1 DEF Depth
<1>21. TypeOK'
  BY <1>1, <1>2, <1>9, <1>13, <1>15, <1>19 DEF IInv, TypeOK
<1>22. Shape'
  <2>1. WellPlaced(capacity', table') /\ Counted(table', frames')
    BY <1>1, <1>9, <1>11, <1>15, <1>17
  <2>2. (Depth' + tombstones') * 2 <= capacity'
    <3>1. \A d, b, e, c \in Nat :
             (d + b) * 2 <= c /\ e <= b + 1 => ((d - 1) + e) * 2 <= c
      OBVIOUS
    <3>2. capacity' = capacity
      BY <1>1
    <3>3. ((Depth - 1) + tombstones') * 2 <= capacity
      BY <1>2, <1>19, <3>1
    <3> QED
      BY <1>20, <3>2, <3>3
  <2> QED
    BY <1>9, <1>19, <2>1, <2>2 DEF Shape
<1>23. PhaseInv'
  BY <1>1, <1>9, <1>15, <1>18 DEF PhaseInv
<1> QED
  BY <1>21, <1>22, <1>23 DEF IInv

LEMMA Invariance == Spec => []IInv
<1>1. IInv /\ [Next]_vars => IInv'
  <2> SUFFICES ASSUME IInv, [Next]_vars PROVE IInv'
    OBVIOUS
  <2>1. CASE UNCHANGED vars
    <3>1. TypeOK'
      BY <2>1 DEF IInv, TypeOK, vars
    <3>2. Shape'
      BY <2>1 DEF IInv, Shape, Depth, vars
    <3>3. PhaseInv'
      BY <2>1 DEF IInv, PhaseInv, Moving, Depth, vars
    <3> QED
      BY <3>1, <3>2, <3>3 DEF IInv
  <2> QED
    BY <2>1, PushBeginsInv, CapacityDoublesInv, RehashBeginsInv, RehashMovesInv,
       RehashEndsInv, PushEndsInv, PushFailsInv, PopInv DEF Next, Work
<1> QED
  BY <1>1, InitInv, PTL DEF Spec

-------------------------------------------------------------------------------
\* The table keeps its shape, its counters and its phase in their types through
\* every push, rehash and pop.
THEOREM TypeCorrect == Spec => []TypeOK
<1>1. IInv => TypeOK
  BY DEF IInv
<1> QED
  BY <1>1, Invariance, PTL

\* The while (true) of pp_include_stack_find_slot ends in every call, for any
\* hash function: "the probe loop is logically total".
THEOREM ProbeAlwaysEnds == Spec => []ProbeTerminates
<1>1. IInv => ProbeTerminates
  BY Halts DEF ProbeTerminates
<1> QED
  BY <1>1, Invariance, PTL

\* The counter of tombstones is exact and the table stays half empty.
THEOREM LoadBounded == Spec => []HalfEmpty
<1>1. IInv => HalfEmpty
  BY DEF IInv, Shape, HalfEmpty, SlotsIn, Tombs
<1> QED
  BY <1>1, Invariance, PTL

\* The count of a path is the number of its frames.
THEOREM CountsCorrect == Spec => []CountsExact
<1>1. IInv => CountsExact
  BY DEF IInv, TypeOK, Shape, Counted, CountsExact, SlotsIn, Occurrences, Occ, Depth
<1> QED
  BY <1>1, Invariance, PTL

\* The include stack reports a file as being read exactly when it is: the
\* recursion check of process_include neither misses a cycle nor invents one.
THEOREM ContainsCorrect == Spec => []ContainsExact
<1>1. IInv => ContainsExact
  <2> SUFFICES ASSUME IInv, phase = "idle", NEW p \in Path
               PROVE  Contains(p) <=> Occurrences(p) # {}
    BY DEF ContainsExact
  <2>1. /\ capacity \in Nat /\ table \in [0..(capacity - 1) -> Slot]
        /\ frames \in Seq(Path) /\ WellPlaced(capacity, table)
        /\ Counted(table, frames) /\ Complete(table, frames)
    BY DEF IInv, TypeOK, Shape, PhaseInv
  <2>2. Occurrences(p) = Occ(frames, p)
    BY DEF Occurrences, Occ, Depth
  <2>3. CASE capacity = 0
    <3>1. ~HasActive(table, p)
      BY <2>1, <2>3 DEF HasActive
    <3> QED
      BY <2>1, <2>2, <2>3, <3>1 DEF Complete, Contains
  <2>4. CASE capacity # 0
    <3>1. /\ FindSlot(p) \in 0..(capacity - 1)
          /\ Found(p) <=> \E s \in 0..(capacity - 1) : IsHit(p, s)
          /\ Found(p) => IsHit(p, FindSlot(p))
      BY <2>1, <2>4, Halts, FindSlotFacts
    <3>2. ASSUME Contains(p) PROVE Occ(frames, p) # {}
      BY <2>1, <3>1, <3>2 DEF Contains, IsHit, Counted
    <3>3. ASSUME Occ(frames, p) # {} PROVE Contains(p)
      <4>1. HasActive(table, p)
        BY <2>1, <3>3 DEF Complete
      <4>2. Found(p) /\ IsHit(p, FindSlot(p))
        BY <2>1, <3>1, <4>1 DEF HasActive, IsHit
      <4> QED
        BY <2>1, <2>4, <3>1, <4>2 DEF Contains, IsHit, WellPlaced
    <3> QED
      BY <2>2, <3>2, <3>3
  <2> QED
    BY <2>3, <2>4
<1> QED
  BY <1>1, Invariance, PTL
================================================================================
