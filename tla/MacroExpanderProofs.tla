------------------------ MODULE MacroExpanderProofs ------------------------
(***************************************************************************)
(* The expander keeps the contract of the macro table, for any table,      *)
(* limit and text.  The expansion stack is at every moment what the        *)
(* activations of macro_expander_expand hold of it, in their order: each   *)
(* holds the macro whose replacement is being rescanned and, while a call  *)
(* that crosses the end of a replacement is in progress, the function-like *)
(* macro it came from.  So every pop takes off the frame that was meant,   *)
(* on every error path, and the stack is empty between two expansions,     *)
(* when directives change the table.                                       *)
(***************************************************************************)
EXTENDS MacroExpander, SequenceTheorems, WellFoundedInduction, TLAPS

Less == {ss \in Nat \X Nat : ss[1] < ss[2]}

\* A non-empty set of naturals has a least element.
LEMMA LeastNatural ==
    ASSUME NEW T, T \subseteq Nat, T # {}
    PROVE  \E m \in T : \A k \in T : m <= k
<1>1. IsWellFoundedOn(Less, Nat)
  BY NatLessThanWellFounded DEF OpToRel, Less
<1>2. PICK m \in T : \A k \in T : ~(<<k, m>> \in Less)
  BY <1>1, WFMin
<1>3. ASSUME NEW k \in T PROVE m <= k
  <2>1. k \in Nat /\ m \in Nat /\ <<k, m>> \in Nat \X Nat
    BY <1>2
  <2>2. ~(k < m)
    BY <1>2, <2>1 DEF Less
  <2> QED
    BY <2>1, <2>2
<1> QED
  BY <1>2, <1>3

\* The frames of the expansion stack that an activation holds.
Frames(a) ==
    LET host  == a.stage \in {"args", "body", "nested", "leave"} /\ a.call.host # 0
        macro == a.stage \in {"body", "nested"}
    IN  CASE host /\ macro   -> <<a.call.host, a.call.macro>>
          [] host /\ ~macro  -> <<a.call.host>>
          [] ~host /\ macro  -> <<a.call.macro>>
          [] ~host /\ ~macro -> <<>>

\* The stack is what the activations hold, one above the other: base[k] is
\* the height of the stack below activation k.
Held(cs, stack) ==
    \E base \in [1 .. Len(cs) + 1 -> 0 .. Len(stack)] :
        /\ base[1] = 0
        /\ base[Len(cs) + 1] = Len(stack)
        /\ \A k \in 1 .. Len(cs) :
              /\ base[k + 1] = base[k] + Len(Frames(cs[k]))
              /\ \A j \in 1 .. Len(Frames(cs[k])) : stack[base[k] + j] = Frames(cs[k])[j]

-----------------------------------------------------------------------------
(* The heights of the stack below the activations.                         *)

LEMMA FramesLength == ASSUME NEW a PROVE Len(Frames(a)) \in Nat
  BY DEF Frames

\* Heights that never fall have their greatest value at the end.
LEMMA Rising ==
    ASSUME NEW n \in Nat, NEW base \in [1 .. n + 1 -> Nat],
           \A k \in 1 .. n : base[k] <= base[k + 1],
           NEW m \in 1 .. n + 1
    PROVE  base[m] <= base[n + 1]
<1> DEFINE above == {j \in 0 .. n : base[n + 1 - j] > base[n + 1]}
<1>1. n + 1 - m \in 0 .. n /\ n + 1 - (n + 1 - m) = m /\ base[m] \in Nat /\ base[n + 1] \in Nat
  OBVIOUS
<1>a. ASSUME above = {} PROVE base[m] <= base[n + 1]
  <2>1. n + 1 - m \notin above
    BY <1>a
  <2> QED
    BY <1>1, <2>1
<1> SUFFICES ASSUME above # {} PROVE FALSE
  BY <1>a
<1>2. PICK j \in above : \A l \in above : j <= l
  <2>1. above \subseteq Nat
    OBVIOUS
  <2> HIDE DEF above
  <2> QED
    BY <2>1, LeastNatural
<1>3. j \in 0 .. n /\ base[n + 1 - j] > base[n + 1]
  BY <1>2
<1>4. j # 0
  BY <1>1, <1>3
<1>5. j - 1 \in 0 .. n /\ n + 1 - j \in 1 .. n /\ n + 1 - j + 1 = n + 1 - (j - 1)
  BY <1>3, <1>4
<1>6. base[n + 1 - j] <= base[n + 1 - (j - 1)]
  BY <1>5
<1>7. base[n + 1 - j] \in Nat /\ base[n + 1 - (j - 1)] \in Nat
  BY <1>5
<1>8. j - 1 \in above
  BY <1>1, <1>3, <1>5, <1>6, <1>7
<1>9. ~(j <= j - 1)
  BY <1>3
<1> HIDE DEF above
<1> QED
  BY <1>2, <1>8, <1>9

\* The frames of the innermost activation are on top of the others.
LEMMA HeldSplit ==
    ASSUME NEW A, NEW n \in Nat, NEW cs \in Seq(A), Len(cs) = n + 1,
           NEW st \in Seq(Nat), Held(cs, st),
           NEW f \in Seq(Nat), f = Frames(cs[n + 1])
    PROVE  \E low \in Seq(Nat) :
              /\ st = low \o f
              /\ Held(SubSeq(cs, 1, n), low)
<1>1. PICK base \in [1 .. Len(cs) + 1 -> 0 .. Len(st)] :
         /\ base[1] = 0
         /\ base[Len(cs) + 1] = Len(st)
         /\ \A k \in 1 .. Len(cs) :
               /\ base[k + 1] = base[k] + Len(Frames(cs[k]))
               /\ \A j \in 1 .. Len(Frames(cs[k])) : st[base[k] + j] = Frames(cs[k])[j]
  BY DEF Held
<1> DEFINE front == SubSeq(cs, 1, n)
           h == base[n + 1]
           low == SubSeq(st, 1, h)
<1>2. \A k \in 1 .. n + 1 + 1 : base[k] \in 0 .. Len(st)
  BY <1>1
<1>3. h \in 0 .. Len(st) /\ Len(st) = h + Len(f) /\ Len(st) \in Nat /\ Len(f) \in Nat
  <2>1. base[n + 1 + 1] = base[n + 1] + Len(Frames(cs[n + 1])) /\ n + 1 \in 1 .. n + 1 + 1
    BY <1>1
  <2> QED
    BY <1>1, <1>2, <2>1
<1>4. \A j \in 1 .. Len(f) : st[h + j] = f[j]
  <2>1. n + 1 \in 1 .. n + 1
    OBVIOUS
  <2> QED
    BY <1>1, <2>1
<1>5. front \in Seq(A) /\ Len(front) = n /\ \A k \in 1 .. n : front[k] = cs[k]
  OBVIOUS
<1> HIDE DEF h, front
<1>6. low \in Seq(Nat) /\ Len(low) = h /\ \A j \in 1 .. h : low[j] = st[j]
  BY <1>3
<1> HIDE DEF low
<1>7. st = low \o f
  <2>1. /\ low \o f \in Seq(Nat)
        /\ Len(low \o f) = Len(low) + Len(f)
        /\ \A j \in 1 .. Len(low) + Len(f) :
              (low \o f)[j] = IF j <= Len(low) THEN low[j] ELSE f[j - Len(low)]
    BY <1>6, ConcatProperties
  <2> DEFINE both == low \o f
  <2> HIDE DEF both
  <2>2. ASSUME NEW j \in 1 .. Len(st) PROVE both[j] = st[j]
    <3>1. both[j] = IF j <= h THEN low[j] ELSE f[j - h]
      BY <1>3, <1>6, <2>1 DEF both
    <3>2. CASE j <= h
      BY <1>3, <1>6, <3>1, <3>2
    <3>3. CASE ~(j <= h)
      <4>1. j - h \in 1 .. Len(f) /\ h + (j - h) = j
        BY <1>3, <3>3
      <4> QED
        BY <1>4, <3>1, <3>3, <4>1
    <3> QED
      BY <3>2, <3>3
  <2>3. both \in Seq(Nat) /\ Len(both) = Len(st)
    BY <1>3, <1>6, <2>1 DEF both
  <2> QED
    BY <2>2, <2>3, SeqEqual DEF both
<1>8. ASSUME NEW k \in 1 .. n + 1 PROVE base[k] <= h
  <2> DEFINE lower == [j \in 1 .. n + 1 |-> base[j]]
  <2>1. lower \in [1 .. n + 1 -> Nat]
    BY <1>2
  <2>2. ASSUME NEW j \in 1 .. n PROVE lower[j] <= lower[j + 1]
    <3>1. j \in 1 .. n + 1 /\ j + 1 \in 1 .. n + 1 /\ j + 1 \in 1 .. n + 1 + 1 /\ j \in 1 .. n + 1 + 1
      OBVIOUS
    <3>2. base[j + 1] = base[j] + Len(Frames(cs[j]))
      BY <1>1, <3>1
    <3> QED
      BY <1>2, <3>1, <3>2
  <2>3. lower[k] <= lower[n + 1]
    <3> HIDE DEF lower
    <3> QED
      BY <2>1, <2>2, Rising
  <2> QED
    BY <2>3 DEF h
<1>9. Held(front, low)
  <2> DEFINE lower == [j \in 1 .. n + 1 |-> base[j]]
  <2>1. lower \in [1 .. Len(front) + 1 -> 0 .. Len(low)]
    <3>1. ASSUME NEW k \in 1 .. n + 1 PROVE base[k] \in 0 .. h
      <4>1. k \in 1 .. n + 1 + 1
        OBVIOUS
      <4> QED
        BY <1>2, <1>3, <1>8, <4>1
    <3> QED
      BY <1>5, <1>6, <3>1
  <2>2. lower[1] = 0 /\ lower[Len(front) + 1] = Len(low)
    BY <1>1, <1>5, <1>6 DEF h
  <2>3. ASSUME NEW k \in 1 .. Len(front)
        PROVE  /\ lower[k + 1] = lower[k] + Len(Frames(front[k]))
               /\ \A j \in 1 .. Len(Frames(front[k])) : low[lower[k] + j] = Frames(front[k])[j]
    <3>1. k \in 1 .. n + 1 /\ k + 1 \in 1 .. n + 1 /\ front[k] = cs[k] /\ k \in 1 .. Len(cs)
          /\ k \in 1 .. n + 1 + 1
      BY <1>5
    <3>2. base[k + 1] = base[k] + Len(Frames(cs[k])) /\ base[k + 1] <= h /\ base[k] \in 0 .. Len(st)
      BY <1>1, <1>2, <1>8, <3>1
    <3>3. ASSUME NEW j \in 1 .. Len(Frames(cs[k])) PROVE low[base[k] + j] = Frames(cs[k])[j]
      <4>1. st[base[k] + j] = Frames(cs[k])[j]
        BY <1>1, <3>1
      <4>2. base[k] + j \in 1 .. h
        <5> DEFINE b == base[k]
                   w == Len(Frames(cs[k]))
        <5>1. w \in Nat /\ b \in Nat /\ h \in Nat /\ b + w <= h /\ j \in 1 .. w
          BY <1>3, <3>2, FramesLength
        <5> HIDE DEF b, w
        <5>2. b + j \in 1 .. h
          BY <5>1
        <5> QED
          BY <5>2 DEF b
      <4> QED
        BY <1>6, <4>1, <4>2
    <3> QED
      BY <3>1, <3>2, <3>3
  <2> HIDE DEF lower
  <2> QED
    BY <2>1, <2>2, <2>3 DEF Held
<1> QED
  BY <1>6, <1>7, <1>9 DEF front

\* An activation on top of the others holds the frames on top of theirs.
LEMMA HeldJoin ==
    ASSUME NEW A, NEW cs \in Seq(A), NEW low \in Seq(Nat), Held(cs, low),
           NEW B, NEW ds \in Seq(B), Len(ds) = Len(cs) + 1,
           \A k \in 1 .. Len(cs) : ds[k] = cs[k],
           NEW f \in Seq(Nat), f = Frames(ds[Len(ds)])
    PROVE  Held(ds, low \o f)
<1> DEFINE n == Len(cs)
           st == low \o f
<1>1. PICK base \in [1 .. n + 1 -> 0 .. Len(low)] :
         /\ base[1] = 0
         /\ base[n + 1] = Len(low)
         /\ \A k \in 1 .. n :
               /\ base[k + 1] = base[k] + Len(Frames(cs[k]))
               /\ \A j \in 1 .. Len(Frames(cs[k])) : low[base[k] + j] = Frames(cs[k])[j]
  BY DEF Held
<1>2. n \in Nat /\ Len(ds) = n + 1 /\ Len(low) \in Nat /\ Len(f) \in Nat
  OBVIOUS
<1>3. /\ st \in Seq(Nat)
      /\ Len(st) = Len(low) + Len(f)
      /\ \A j \in 1 .. Len(low) + Len(f) : st[j] = IF j <= Len(low) THEN low[j] ELSE f[j - Len(low)]
  BY ConcatProperties
<1> DEFINE upper == [k \in 1 .. n + 1 + 1 |-> IF k = n + 1 + 1 THEN Len(st) ELSE base[k]]
<1> HIDE DEF n, st
<1>4. upper \in [1 .. Len(ds) + 1 -> 0 .. Len(st)]
  <2>1. ASSUME NEW k \in 1 .. n + 1 + 1 PROVE (IF k = n + 1 + 1 THEN Len(st) ELSE base[k]) \in 0 .. Len(st)
    <3>1. k = n + 1 + 1 \/ k \in 1 .. n + 1
      BY <1>2
    <3>2. ASSUME k \in 1 .. n + 1 PROVE base[k] \in 0 .. Len(st)
      BY <1>2, <1>3, <3>2
    <3> QED
      BY <1>2, <1>3, <3>1, <3>2
  <2> QED
    BY <1>2, <2>1
<1>5. upper[1] = 0 /\ upper[Len(ds) + 1] = Len(st)
  BY <1>1, <1>2
<1>6. ASSUME NEW k \in 1 .. Len(ds)
      PROVE  /\ upper[k + 1] = upper[k] + Len(Frames(ds[k]))
             /\ \A j \in 1 .. Len(Frames(ds[k])) : st[upper[k] + j] = Frames(ds[k])[j]
  <2>1. CASE k = n + 1
    <3>a. upper[n + 1 + 1] = Len(st)
      BY <1>2
    <3>b. upper[n + 1] = base[n + 1]
      BY <1>2
    <3>1. upper[k + 1] = Len(low) + Len(f) /\ upper[k] = Len(low) /\ f = Frames(ds[k])
      <4> HIDE DEF upper
      <4> QED
        BY <1>1, <1>2, <1>3, <2>1, <3>a, <3>b
    <3>2. ASSUME NEW j \in 1 .. Len(f) PROVE st[Len(low) + j] = f[j]
      <4> DEFINE x == Len(low) + j
      <4>1. x \in 1 .. Len(low) + Len(f) /\ ~(x <= Len(low)) /\ x - Len(low) = j
        BY <1>2
      <4> HIDE DEF x
      <4>2. st[x] = f[x - Len(low)]
        BY <1>3, <4>1
      <4> QED
        BY <4>1, <4>2 DEF x
    <3> HIDE DEF upper
    <3> QED
      BY <3>1, <3>2
  <2>2. CASE k # n + 1
    <3>1. k \in 1 .. n /\ k \in 1 .. n + 1 /\ k + 1 \in 1 .. n + 1 /\ ds[k] = cs[k]
      BY <1>2, <2>2 DEF n
    <3>2. upper[k] = base[k] /\ upper[k + 1] = base[k + 1]
      BY <1>2, <3>1
    <3>3. base[k + 1] = base[k] + Len(Frames(cs[k])) /\ base[k] \in 0 .. Len(low) /\ base[k + 1] \in 0 .. Len(low)
      BY <1>1, <3>1
    <3>4. ASSUME NEW j \in 1 .. Len(Frames(cs[k])) PROVE st[base[k] + j] = Frames(cs[k])[j]
      <4>1. low[base[k] + j] = Frames(cs[k])[j]
        BY <1>1, <3>1
      <4>2. base[k] + j \in 1 .. Len(low) + Len(f) /\ base[k] + j <= Len(low)
        <5> DEFINE b == base[k]
                   w == Len(Frames(cs[k]))
        <5>1. w \in Nat /\ b \in Nat /\ b + w <= Len(low) /\ j \in 1 .. w
          BY <1>2, <3>3, FramesLength
        <5> HIDE DEF b, w
        <5>a. Len(low) \in Nat /\ Len(f) \in Nat
          BY <1>2
        <5>b. \A m, e, p, q \in Nat : \A r \in 1 .. q :
                p + q <= m => p + r \in 1 .. m + e /\ p + r <= m
          OBVIOUS
        <5>2. b + j \in 1 .. Len(low) + Len(f) /\ b + j <= Len(low)
          BY Zenon, <5>1, <5>a, <5>b
        <5> QED
          BY <5>2 DEF b
      <4> QED
        BY Zenon, <1>3, <4>1, <4>2
    <3> HIDE DEF upper
    <3> QED
      BY Zenon, <3>1, <3>2, <3>3, <3>4
  <2> QED
    BY Zenon, <2>1, <2>2
<1> HIDE DEF upper
<1> QED
  BY <1>4, <1>5, <1>6 DEF Held, st

\* What changes when the innermost activation becomes a.
LEMMA TopReplaced ==
    ASSUME NEW A, NEW cs \in Seq(A), Len(cs) > 0, NEW st \in Seq(Nat), Held(cs, st),
           Frames(cs[Len(cs)]) \in Seq(Nat), NEW a, Frames(a) \in Seq(Nat)
    PROVE  \E low \in Seq(Nat) :
              /\ st = low \o Frames(cs[Len(cs)])
              /\ Held([cs EXCEPT ![Len(cs)] = a], low \o Frames(a))
<1> DEFINE n == Len(cs) - 1
           front == SubSeq(cs, 1, n)
           ds == [cs EXCEPT ![Len(cs)] = a]
<1>1. n \in Nat /\ Len(cs) = n + 1
  OBVIOUS
<1>2. front \in Seq(A) /\ Len(front) = n /\ \A k \in 1 .. n : front[k] = cs[k]
  BY <1>1
<1>3. /\ ds \in Seq(A \cup {a}) /\ Len(ds) = Len(cs) /\ ds[Len(cs)] = a
      /\ \A k \in 1 .. n : ds[k] = cs[k]
  BY <1>1
<1> HIDE DEF n, ds
<1>4. PICK low \in Seq(Nat) : st = low \o Frames(cs[Len(cs)]) /\ Held(front, low)
  BY <1>1, HeldSplit
<1> HIDE DEF front
<1>5. Held(ds, low \o Frames(a))
  <2>1. /\ Len(ds) = Len(front) + 1 /\ Frames(a) = Frames(ds[Len(ds)])
        /\ \A k \in 1 .. Len(front) : ds[k] = front[k]
    BY <1>1, <1>2, <1>3
  <2> QED
    BY <1>2, <1>3, <1>4, <2>1, HeldJoin
<1> QED
  BY <1>4, <1>5 DEF ds

LEMMA TopSame ==
    ASSUME NEW A, NEW cs \in Seq(A), Len(cs) > 0, NEW st \in Seq(Nat), Held(cs, st),
           NEW a, Frames(a) \in Seq(Nat), Frames(cs[Len(cs)]) = Frames(a)
    PROVE  Held([cs EXCEPT ![Len(cs)] = a], st)
<1>1. PICK low \in Seq(Nat) :
         /\ st = low \o Frames(cs[Len(cs)])
         /\ Held([cs EXCEPT ![Len(cs)] = a], low \o Frames(a))
  <2>1. Frames(cs[Len(cs)]) \in Seq(Nat)
    OBVIOUS
  <2> QED
    BY <2>1, TopReplaced
<1> QED
  BY <1>1

LEMMA AppendConcat ==
    ASSUME NEW s \in Seq(Nat), NEW f \in Seq(Nat), NEW m \in Nat
    PROVE  s \o Append(f, m) = Append(s \o f, m)
<1>1. Append(f, m) = f \o <<m>> /\ <<m>> \in Seq(Nat)
  OBVIOUS
<1>2. s \o f \in Seq(Nat)
  BY ConcatProperties
<1>3. \A t \in Seq(Nat) : Append(t, m) = t \o <<m>>
  OBVIOUS
<1> QED
  BY <1>1, <1>2, <1>3, ConcatAssociative

LEMMA TopPushes ==
    ASSUME NEW A, NEW cs \in Seq(A), Len(cs) > 0, NEW st \in Seq(Nat), Held(cs, st),
           NEW m \in Nat, NEW a, Frames(cs[Len(cs)]) \in Seq(Nat),
           Frames(a) = Append(Frames(cs[Len(cs)]), m)
    PROVE  Held([cs EXCEPT ![Len(cs)] = a], Append(st, m))
<1> DEFINE f == Frames(cs[Len(cs)])
<1> HIDE DEF f
<1>1. f \in Seq(Nat) /\ Frames(a) = Append(f, m)
  BY DEF f
<1>2. Frames(a) \in Seq(Nat)
  BY <1>1
<1>3. PICK low \in Seq(Nat) : st = low \o f /\ Held([cs EXCEPT ![Len(cs)] = a], low \o Frames(a))
  BY <1>1, <1>2, TopReplaced DEF f
<1>4. low \o Append(f, m) = Append(low \o f, m)
  BY <1>1, AppendConcat
<1> QED
  BY <1>1, <1>3, <1>4

LEMMA TopPops ==
    ASSUME NEW A, NEW cs \in Seq(A), Len(cs) > 0, NEW st \in Seq(Nat), Held(cs, st),
           NEW m \in Nat, NEW a, Frames(a) \in Seq(Nat),
           Frames(cs[Len(cs)]) = Append(Frames(a), m)
    PROVE  \E rest \in Seq(Nat) :
              st = Append(rest, m) /\ Held([cs EXCEPT ![Len(cs)] = a], rest)
<1> DEFINE f == Frames(a)
<1> HIDE DEF f
<1>1. f \in Seq(Nat) /\ Frames(cs[Len(cs)]) = Append(f, m)
  BY DEF f
<1>2. Frames(cs[Len(cs)]) \in Seq(Nat)
  BY <1>1
<1>3. PICK low \in Seq(Nat) : /\ st = low \o Frames(cs[Len(cs)])
                              /\ Held([cs EXCEPT ![Len(cs)] = a], low \o Frames(a))
  BY <1>2, TopReplaced
<1>4. low \o Append(f, m) = Append(low \o f, m) /\ low \o f \in Seq(Nat)
  BY <1>1, AppendConcat, ConcatProperties
<1> QED
  BY <1>1, <1>3, <1>4 DEF f

\* A call of macro_expander_expand, and its return.
LEMMA Deeper ==
    ASSUME NEW A, NEW cs \in Seq(A), NEW st \in Seq(Nat), Held(cs, st),
           NEW a, Frames(a) = <<>>
    PROVE  Held(Append(cs, a), st)
<1> DEFINE ds == Append(cs, a)
<1>1. ds \in Seq(A \cup {a}) /\ Len(ds) = Len(cs) + 1 /\ ds[Len(ds)] = a
      /\ \A k \in 1 .. Len(cs) : ds[k] = cs[k]
  OBVIOUS
<1> HIDE DEF ds
<1>2. <<>> \in Seq(Nat) /\ <<>> = Frames(ds[Len(ds)]) /\ st \o <<>> = st
  BY <1>1, ConcatEmptySeq
<1>3. Held(ds, st \o <<>>)
  BY <1>1, <1>2, HeldJoin
<1> QED
  BY <1>2, <1>3 DEF ds

LEMMA Shallower ==
    ASSUME NEW A, NEW cs \in Seq(A), Len(cs) > 0, NEW st \in Seq(Nat), Held(cs, st),
           Frames(cs[Len(cs)]) = <<>>
    PROVE  Held(SubSeq(cs, 1, Len(cs) - 1), st)
<1> DEFINE n == Len(cs) - 1
<1>1. n \in Nat /\ Len(cs) = n + 1
  OBVIOUS
<1> DEFINE f == Frames(cs[n + 1])
<1>2. f \in Seq(Nat) /\ f = <<>>
  BY <1>1
<1>3. f = Frames(cs[n + 1])
  OBVIOUS
<1> HIDE DEF n, f
<1>4. PICK low \in Seq(Nat) : st = low \o f /\ Held(SubSeq(cs, 1, n), low)
  <2>1. f \in Seq(Nat)
    BY <1>2
  <2> QED
    BY ONLY cs \in Seq(A), st \in Seq(Nat), Held(cs, st), <1>1, <1>3, <2>1, HeldSplit
<1>5. low \o <<>> = low
  BY ConcatEmptySeq
<1> QED
  BY <1>2, <1>4, <1>5 DEF n

LEMMA NothingHeld ==
    ASSUME NEW st \in Seq(Nat), Held(<<>>, st)
    PROVE  st = <<>>
  BY DEF Held

\* macro_table_pop_expansion takes off the last frame when it is the one
\* that is asked for.
LEMMA PopsLast ==
    ASSUME NEW rest \in Seq(Nat), NEW m \in Nat, expansionStack = Append(rest, m),
           Table!PopExpansion(m)
    PROVE  expansionStack' = rest
<1>1. expansionStack \in Seq(Nat) /\ Len(expansionStack) = Len(rest) + 1
      /\ expansionStack[Len(rest) + 1] = m
  OBVIOUS
<1>2. PICK k \in 0 .. Len(expansionStack) - 1 :
         Table!PopsTo(m, k) /\ expansionStack' = SubSeq(expansionStack, 1, k)
  BY DEF Table!PopExpansion
<1>3. \E j \in DOMAIN expansionStack : expansionStack[j] = m
  BY <1>1
<1>4. \A j \in DOMAIN expansionStack : expansionStack[j] = m => j <= k + 1
  BY <1>2, <1>3 DEF Table!PopsTo
<1>5. Len(rest) + 1 <= k + 1
  BY <1>1, <1>4
<1>6. k = Len(rest)
  BY <1>1, <1>2, <1>5
<1>7. SubSeq(Append(rest, m), 1, Len(rest)) = rest
  OBVIOUS
<1> QED
  BY <1>2, <1>6, <1>7

-----------------------------------------------------------------------------
(* The activations and the stack together, for a table of n entries.       *)

Fields == {"input", "i", "out", "stage", "call"}

CallFields == {"kind", "macro", "raw", "expanded", "next", "prefix", "host", "nested"}

Stages == {"scan", "args", "body", "nested", "leave", "accumulate"}

\* Only a call across the end of a replacement has a host.
ProperCall(c, n) ==
    /\ CallFields \subseteq DOMAIN c
    /\ c.kind \in {"none", "object", "function", "boundary", "accumulated"}
    /\ c.host \in 0 .. n
    /\ c.kind # "boundary" => c.host = 0

\* The stage and the call of an activation fit: one that rescans or collects
\* arguments has a macro of the table, one that is to pop a host has it.
Fits(stage, c, n) ==
    /\ stage \in Stages
    /\ stage \in {"args", "body", "nested"} => c.macro \in 1 .. n
    /\ stage = "leave" => c.host # 0

Proper(a, n) ==
    /\ Fields \subseteq DOMAIN a
    /\ ProperCall(a.call, n)
    /\ Fits(a.stage, a.call, n)

\* An activation that waits for another one has arguments or a replacement
\* in progress.
Balanced(cs, st, n) ==
    /\ \E A : cs \in Seq(A)
    /\ st \in Seq(Nat)
    /\ \A k \in 1 .. Len(cs) : Proper(cs[k], n)
    /\ \A k \in 1 .. Len(cs) - 1 : cs[k].stage \in {"args", "body"}
    /\ Held(cs, st)

HostFrame(host) == IF host = 0 THEN <<>> ELSE <<host>>

\* The frames of an activation, stage by stage.
LEMMA FramesByStage ==
    ASSUME NEW n \in Nat, NEW a, Proper(a, n)
    PROVE  /\ a.stage \in {"scan", "accumulate"} => Frames(a) = <<>>
           /\ a.stage \in {"args", "leave"} => Frames(a) = HostFrame(a.call.host)
           /\ a.stage \in {"body", "nested"} =>
                 Frames(a) = Append(HostFrame(a.call.host), a.call.macro)
           /\ HostFrame(a.call.host) \in Seq(Nat)
<1>1. a.call.host \in Nat
  BY DEF Proper, ProperCall
<1>2. HostFrame(a.call.host) \in Seq(Nat)
  BY <1>1 DEF HostFrame
<1>3. a.stage \in {"scan", "accumulate"} => Frames(a) = <<>>
  BY DEF Frames
<1>4. a.stage \in {"args", "leave"} => Frames(a) = HostFrame(a.call.host)
  BY DEF Frames, HostFrame
<1>5. a.stage \in {"body", "nested"} =>
         Frames(a) = Append(HostFrame(a.call.host), a.call.macro)
  <2>1. CASE a.call.host = 0
    BY <2>1 DEF Frames, HostFrame
  <2>2. CASE a.call.host # 0
    BY <2>2 DEF Frames, HostFrame
  <2> QED
    BY <2>1, <2>2
<1> QED
  BY <1>2, <1>3, <1>4, <1>5

LEMMA FramesType ==
    ASSUME NEW n \in Nat, NEW a, Proper(a, n)
    PROVE  Frames(a) \in Seq(Nat)
<1>1. HostFrame(a.call.host) \in Seq(Nat)
  BY FramesByStage
<1>2. CASE a.stage \in {"scan", "accumulate"}
  <2>1. Frames(a) = <<>>
    BY <1>2, FramesByStage
  <2> QED
    BY <2>1
<1>3. CASE a.stage \in {"args", "leave"}
  BY <1>1, <1>3, FramesByStage
<1>4. CASE a.stage \in {"body", "nested"}
  <2>1. a.call.macro \in Nat
    BY <1>4 DEF Proper, Fits
  <2>2. Frames(a) = Append(HostFrame(a.call.host), a.call.macro)
    BY <1>4, FramesByStage
  <2> QED
    BY <1>1, <2>1, <2>2
<1> QED
  BY <1>2, <1>3, <1>4 DEF Proper, Fits, Stages

\* The innermost activation is replaced by a proper one.
LEMMA ReplacedShape ==
    ASSUME NEW n \in Nat, NEW A, NEW cs \in Seq(A), Len(cs) > 0,
           \A k \in 1 .. Len(cs) : Proper(cs[k], n),
           \A k \in 1 .. Len(cs) - 1 : cs[k].stage \in {"args", "body"},
           NEW b, Proper(b, n), NEW ds, ds = [cs EXCEPT ![Len(cs)] = b]
    PROVE  /\ ds \in Seq(A \cup {b})
           /\ Len(ds) = Len(cs) /\ ds # <<>> /\ ds[Len(ds)] = b
           /\ \A k \in 1 .. Len(ds) : Proper(ds[k], n)
           /\ \A k \in 1 .. Len(ds) - 1 : ds[k].stage \in {"args", "body"}
<1>1. ds \in Seq(A \cup {b}) /\ Len(ds) = Len(cs) /\ ds[Len(cs)] = b
  OBVIOUS
<1>2. \A k \in 1 .. Len(cs) - 1 : ds[k] = cs[k]
  OBVIOUS
<1>3. \A k \in 1 .. Len(ds) : Proper(ds[k], n)
  <2> TAKE k \in 1 .. Len(ds)
  <2>1. CASE k = Len(cs)
    BY <1>1, <2>1
  <2>2. CASE k # Len(cs)
    <3>1. \A len \in Nat : k \in 1 .. len /\ k # len => k \in 1 .. len - 1
      OBVIOUS
    <3>2. k \in 1 .. Len(cs) /\ Len(cs) \in Nat
      BY <1>1
    <3>3. k \in 1 .. Len(cs) - 1
      BY <2>2, <3>1, <3>2
    <3> QED
      BY <1>2, <3>2, <3>3
  <2> QED
    BY <2>1, <2>2
<1>4. ds # <<>>
  BY <1>1
<1>5. \A k \in 1 .. Len(ds) - 1 : ds[k].stage \in {"args", "body"}
  BY <1>1, <1>2
<1> QED
  BY <1>1, <1>3, <1>4, <1>5

LEMMA BalancedTop ==
    ASSUME NEW n \in Nat, NEW cs, NEW st, Balanced(cs, st, n), cs # <<>>
    PROVE  /\ Len(cs) \in Nat /\ Len(cs) > 0
           /\ Proper(cs[Len(cs)], n)
           /\ Frames(cs[Len(cs)]) \in Seq(Nat)
           /\ st \in Seq(Nat)
<1>1. PICK A : cs \in Seq(A)
  BY DEF Balanced
<1>2. Len(cs) \in Nat /\ Len(cs) > 0 /\ Len(cs) \in 1 .. Len(cs)
  BY <1>1
<1>3. Proper(cs[Len(cs)], n) /\ st \in Seq(Nat)
  BY <1>2 DEF Balanced
<1>4. Frames(cs[Len(cs)]) \in Seq(Nat)
  BY <1>3, FramesType
<1> QED
  BY <1>2, <1>3, <1>4

\* The innermost activation goes on without a push or a pop.
LEMMA BalancedSame ==
    ASSUME NEW n \in Nat, NEW cs, NEW st, Balanced(cs, st, n), cs # <<>>,
           NEW b, Proper(b, n), Frames(cs[Len(cs)]) = Frames(b),
           NEW ds, ds = [cs EXCEPT ![Len(cs)] = b]
    PROVE  Balanced(ds, st, n) /\ ds # <<>>
<1>1. PICK A : cs \in Seq(A)
  BY DEF Balanced
<1>2. Len(cs) > 0 /\ st \in Seq(Nat) /\ Held(cs, st) /\ Frames(b) \in Seq(Nat)
  BY BalancedTop, FramesType DEF Balanced
<1>3. Held(ds, st)
  BY <1>1, <1>2, TopSame
<1>4. /\ ds \in Seq(A \cup {b}) /\ ds # <<>>
      /\ \A k \in 1 .. Len(ds) : Proper(ds[k], n)
      /\ \A k \in 1 .. Len(ds) - 1 : ds[k].stage \in {"args", "body"}
  BY <1>1, <1>2, ReplacedShape DEF Balanced
<1> QED
  BY <1>2, <1>3, <1>4 DEF Balanced

LEMMA BalancedPush ==
    ASSUME NEW n \in Nat, NEW cs, NEW st, Balanced(cs, st, n), cs # <<>>,
           NEW m \in Nat, NEW b, Proper(b, n), Frames(b) = Append(Frames(cs[Len(cs)]), m),
           NEW ds, ds = [cs EXCEPT ![Len(cs)] = b], NEW up, up = Append(st, m)
    PROVE  Balanced(ds, up, n) /\ ds # <<>> /\ ds[Len(ds)] = b
<1>1. PICK A : cs \in Seq(A)
  BY DEF Balanced
<1>2. Len(cs) > 0 /\ st \in Seq(Nat) /\ Held(cs, st) /\ Frames(cs[Len(cs)]) \in Seq(Nat)
  BY BalancedTop DEF Balanced
<1>3. Held(ds, up)
  BY <1>1, <1>2, TopPushes
<1>4. /\ ds \in Seq(A \cup {b}) /\ ds # <<>> /\ ds[Len(ds)] = b
      /\ \A k \in 1 .. Len(ds) : Proper(ds[k], n)
      /\ \A k \in 1 .. Len(ds) - 1 : ds[k].stage \in {"args", "body"}
  BY <1>1, <1>2, ReplacedShape DEF Balanced
<1>5. up \in Seq(Nat)
  BY <1>2
<1> QED
  BY <1>3, <1>4, <1>5 DEF Balanced

\* The pop of the frame that the innermost activation gives up takes off
\* that frame and no other.
LEMMA BalancedPop ==
    ASSUME NEW n \in Nat, NEW cs, Balanced(cs, expansionStack, n), cs # <<>>,
           NEW m \in Nat, NEW b, Proper(b, n), Frames(cs[Len(cs)]) = Append(Frames(b), m),
           NEW ds, ds = [cs EXCEPT ![Len(cs)] = b], Table!PopExpansion(m)
    PROVE  /\ Balanced(ds, expansionStack', n) /\ ds # <<>>
           /\ expansionStack = Append(expansionStack', m)
<1>1. PICK A : cs \in Seq(A)
  BY DEF Balanced
<1>2. /\ Len(cs) > 0 /\ expansionStack \in Seq(Nat) /\ Held(cs, expansionStack)
      /\ Frames(b) \in Seq(Nat)
  BY BalancedTop, FramesType DEF Balanced
<1>3. PICK rest \in Seq(Nat) : expansionStack = Append(rest, m) /\ Held(ds, rest)
  BY <1>1, <1>2, TopPops
<1>4. expansionStack' = rest
  BY <1>3, PopsLast
<1>5. /\ ds \in Seq(A \cup {b}) /\ ds # <<>>
      /\ \A k \in 1 .. Len(ds) : Proper(ds[k], n)
      /\ \A k \in 1 .. Len(ds) - 1 : ds[k].stage \in {"args", "body"}
  BY <1>1, <1>2, ReplacedShape DEF Balanced
<1> QED
  BY <1>3, <1>4, <1>5 DEF Balanced

LEMMA ActivationProper ==
    ASSUME NEW n \in Nat, NEW tokens
    PROVE  Proper(Activation(tokens), n) /\ Frames(Activation(tokens)) = <<>>
<1>1. Proper(Activation(tokens), n) /\ Activation(tokens).stage = "scan"
  BY DEF Proper, ProperCall, Fits, Stages, Fields, CallFields, Activation, NoCall, Call
<1> QED
  BY <1>1, FramesByStage

LEMMA BalancedDeeper ==
    ASSUME NEW n \in Nat, NEW cs, NEW st, Balanced(cs, st, n),
           cs # <<>> => cs[Len(cs)].stage \in {"args", "body"},
           NEW tokens, NEW ds, ds = Append(cs, Activation(tokens))
    PROVE  Balanced(ds, st, n) /\ ds # <<>>
<1> DEFINE a == Activation(tokens)
<1>1. PICK A : cs \in Seq(A)
  BY DEF Balanced
<1>2. st \in Seq(Nat) /\ Held(cs, st) /\ Proper(a, n) /\ Frames(a) = <<>>
  BY ActivationProper DEF Balanced
<1> HIDE DEF a
<1>3. ds = Append(cs, a)
  BY DEF a
<1>4. Held(ds, st)
  BY <1>1, <1>2, <1>3, Deeper
<1>5. /\ ds \in Seq(A \cup {a}) /\ Len(ds) = Len(cs) + 1 /\ ds # <<>>
      /\ ds[Len(cs) + 1] = a /\ \A k \in 1 .. Len(cs) : ds[k] = cs[k]
      /\ Len(cs) \in Nat
  BY <1>1, <1>3
<1>6. \A k \in 1 .. Len(ds) : Proper(ds[k], n)
  <2> TAKE k \in 1 .. Len(ds)
  <2>1. CASE k = Len(cs) + 1
    BY <1>2, <1>5, <2>1
  <2>2. CASE k # Len(cs) + 1
    <3>1. k \in 1 .. Len(cs)
      BY <1>5, <2>2
    <3> QED
      BY <1>5, <3>1 DEF Balanced
  <2> QED
    BY <2>1, <2>2
<1>7. \A k \in 1 .. Len(ds) - 1 : ds[k].stage \in {"args", "body"}
  <2> TAKE k \in 1 .. Len(ds) - 1
  <2>1. k \in 1 .. Len(cs)
    BY <1>5
  <2>2. CASE k = Len(cs)
    <3>1. cs # <<>>
      BY <2>1
    <3> QED
      BY <1>5, <2>1, <2>2, <3>1
  <2>3. CASE k # Len(cs)
    <3>1. k \in 1 .. Len(cs) - 1
      BY <1>5, <2>1, <2>3
    <3> QED
      BY <1>5, <2>1, <3>1 DEF Balanced
  <2> QED
    BY <2>2, <2>3
<1> QED
  BY <1>2, <1>4, <1>5, <1>6, <1>7 DEF Balanced

LEMMA BalancedShallower ==
    ASSUME NEW n \in Nat, NEW cs, NEW st, Balanced(cs, st, n), cs # <<>>,
           Frames(cs[Len(cs)]) = <<>>, NEW ds, ds = SubSeq(cs, 1, Len(cs) - 1)
    PROVE  /\ Balanced(ds, st, n)
           /\ Len(ds) = Len(cs) - 1 /\ \A k \in 1 .. Len(ds) : ds[k] = cs[k]
<1>1. PICK A : cs \in Seq(A)
  BY DEF Balanced
<1>2. Len(cs) > 0 /\ st \in Seq(Nat) /\ Held(cs, st) /\ Len(cs) \in Nat
  BY BalancedTop DEF Balanced
<1>3. Held(ds, st)
  BY <1>1, <1>2, Shallower
<1>4. ds \in Seq(A) /\ Len(ds) = Len(cs) - 1 /\ \A k \in 1 .. Len(cs) - 1 : ds[k] = cs[k]
  <2>1. PICK m \in Nat : m = Len(cs) - 1 /\ Len(cs) = m + 1
    BY <1>2
  <2>2. ds = SubSeq(cs, 1, m)
    BY <2>1
  <2>3. ds \in Seq(A) /\ Len(ds) = m /\ \A k \in 1 .. m : ds[k] = cs[k]
    BY <1>1, <2>1, <2>2
  <2> QED
    BY <2>1, <2>3
<1>5. \A k \in 1 .. Len(ds) : k \in 1 .. Len(cs) - 1 /\ k \in 1 .. Len(cs)
  BY <1>2, <1>4
<1>6. \A k \in 1 .. Len(ds) - 1 : k \in 1 .. Len(ds)
  BY <1>2, <1>4
<1>7. \A k \in 1 .. Len(ds) : Proper(ds[k], n)
  BY <1>4, <1>5 DEF Balanced
<1>8. \A k \in 1 .. Len(ds) - 1 : ds[k].stage \in {"args", "body"}
  BY <1>4, <1>5, <1>6 DEF Balanced
<1> QED
  BY <1>2, <1>3, <1>4, <1>7, <1>8 DEF Balanced

-----------------------------------------------------------------------------
(* The updates of an activation.                                           *)

LEMMA NoCallProper == ASSUME NEW n \in Nat PROVE ProperCall(NoCall, n)
  BY DEF ProperCall, CallFields, NoCall, Call

LEMMA CallProper ==
    ASSUME NEW n \in Nat, NEW macro \in 1 .. n, NEW raw, NEW next, NEW prefix,
           NEW host \in 0 .. n,
           NEW kind \in {"object", "function", "boundary", "accumulated"},
           kind # "boundary" => host = 0
    PROVE  /\ ProperCall(Call(kind, macro, raw, next, prefix, host), n)
           /\ Call(kind, macro, raw, next, prefix, host).macro = macro
           /\ Call(kind, macro, raw, next, prefix, host).host = host
           /\ Call(kind, macro, raw, next, prefix, host).kind = kind
  BY DEF ProperCall, CallFields, Call

LEMMA Staged ==
    ASSUME NEW n \in Nat, NEW a, Proper(a, n), NEW c, ProperCall(c, n),
           NEW b, DOMAIN b = DOMAIN a, b.call = c, Fits(b.stage, c, n)
    PROVE  Proper(b, n)
  BY DEF Proper

LEMMA Emitted ==
    ASSUME NEW n \in Nat, NEW a, Proper(a, n), NEW tokens, NEW next,
           NEW b, b = Emit(a, tokens, next)
    PROVE  Proper(b, n) /\ b.stage = "scan" /\ b.call = NoCall /\ Frames(b) = <<>>
<1>1. Fields \subseteq DOMAIN a
  BY DEF Proper
<1>2. DOMAIN b = DOMAIN a /\ b.stage = "scan" /\ b.call = NoCall
  BY <1>1 DEF Emit, Fields
<1>3. Fits("scan", NoCall, n)
  BY DEF Fits, Stages
<1>4. Proper(b, n)
  BY <1>1, <1>2, <1>3, NoCallProper DEF Proper
<1> QED
  BY <1>2, <1>4, FramesByStage

\* The call of b is that of a but for its arguments and its result.
SameCall(a, b) ==
    /\ DOMAIN b = DOMAIN a /\ DOMAIN b.call = DOMAIN a.call
    /\ b.call.macro = a.call.macro /\ b.call.host = a.call.host /\ b.call.kind = a.call.kind

LEMMA ResultStored ==
    ASSUME NEW n \in Nat, NEW a, Proper(a, n), NEW b, SameCall(a, b), Fits(b.stage, a.call, n)
    PROVE  Proper(b, n)
<1>1. Fields \subseteq DOMAIN a /\ ProperCall(a.call, n)
  BY DEF Proper
<1>2. Fields \subseteq DOMAIN b
  BY <1>1 DEF SameCall
<1>3. ProperCall(b.call, n)
  BY <1>1 DEF SameCall, ProperCall
<1>4. Fits(b.stage, b.call, n)
  BY DEF SameCall, Fits
<1> QED
  BY <1>2, <1>3, <1>4 DEF Proper

-----------------------------------------------------------------------------
(* The inductive invariant.                                                *)

IInv ==
    /\ macros \in Seq(Table!Entry)
    /\ unit \in Unit
    /\ Balanced(calls, expansionStack, Len(macros))
    /\ (calls # <<>>) = (phase = "expanding")

\* A step pushes or pops one frame at most.
OneFrame ==
    \/ expansionStack' = expansionStack
    \/ \E m \in DOMAIN macros : expansionStack' = Append(expansionStack, m)
    \/ \E m \in DOMAIN macros : expansionStack = Append(expansionStack', m)

TableStep == (Table!Next \/ UNCHANGED Table!vars) /\ OneFrame

\* A search of macro_table_find_mut for a name that is defined ends at an
\* entry of the array.
LEMMA PositionInTable ==
    ASSUME macros \in Seq(Table!Entry), NEW t, Table!IsDefined(t)
    PROVE  Table!Position(t) \in DOMAIN macros
<1> DEFINE T == {i \in DOMAIN macros : Table!Holds(t, i)}
<1>1. T \subseteq Nat /\ T # {}
  BY DEF Table!IsDefined
<1>2. PICK m \in T : \A k \in T : m <= k
  BY <1>1, LeastNatural
<1>3. \E i \in DOMAIN macros :
         Table!Holds(t, i) /\ \A j \in DOMAIN macros : Table!Holds(t, j) => i <= j
  BY <1>2
<1> QED
  BY <1>3 DEF Table!Position

LEMMA TopProper ==
    ASSUME IInv, phase = "expanding"
    PROVE  /\ Len(macros) \in Nat /\ DOMAIN macros = 1 .. Len(macros)
           /\ calls # <<>> /\ Balanced(calls, expansionStack, Len(macros))
           /\ Proper(Top, Len(macros))
           /\ Frames(Top) \in Seq(Nat)
<1>1. Len(macros) \in Nat /\ DOMAIN macros = 1 .. Len(macros)
  BY DEF IInv
<1>2. calls # <<>> /\ Balanced(calls, expansionStack, Len(macros))
  BY DEF IInv
<1> QED
  BY <1>1, <1>2, BalancedTop DEF Top

\* A step of the innermost activation that leaves the table alone.
LEMMA StepSame ==
    ASSUME IInv, phase = "expanding", NEW b, Proper(b, Len(macros)),
           Frames(Top) = Frames(b), calls' = WithTop(b),
           UNCHANGED <<tableVars, unit, phase>>
    PROVE  IInv' /\ TableStep
<1>1. macros' = macros /\ expansionStack' = expansionStack /\ UNCHANGED Table!vars
  BY DEF tableVars, Table!vars
<1>2. Balanced(calls', expansionStack, Len(macros)) /\ calls' # <<>>
  BY TopProper, BalancedSame DEF Top, WithTop
<1>3. (calls' # <<>>) = (phase' = "expanding")
  BY <1>2
<1>4. unit' \in Unit /\ macros' \in Seq(Table!Entry)
  BY <1>1 DEF IInv
<1>5. IInv'
  BY <1>1, <1>2, <1>3, <1>4 DEF IInv, Table!Entry
<1> QED
  BY <1>1, <1>5 DEF TableStep, OneFrame

\* A step of the innermost activation that pops a frame it holds.
LEMMA StepPop ==
    ASSUME IInv, phase = "expanding", NEW b, Proper(b, Len(macros)),
           NEW m \in DOMAIN macros, Table!PopExpansion(m),
           Frames(Top) = Append(Frames(b), m), calls' = WithTop(b),
           UNCHANGED <<unit, phase>>
    PROVE  IInv' /\ TableStep
<1>1. macros' = macros /\ m \in Nat
  BY TopProper DEF Table!PopExpansion
<1>2. Balanced(calls', expansionStack', Len(macros)) /\ calls' # <<>>
  BY <1>1, TopProper, BalancedPop DEF Top, WithTop
<1>6. OneFrame
  BY <1>1, TopProper, BalancedPop DEF Top, WithTop, OneFrame
<1>3. (calls' # <<>>) = (phase' = "expanding")
  BY <1>2
<1>4. unit' \in Unit /\ macros' \in Seq(Table!Entry)
  BY <1>1 DEF IInv
<1>5. IInv'
  BY <1>1, <1>2, <1>3, <1>4 DEF IInv, Table!Entry
<1> QED
  BY <1>5, <1>6 DEF TableStep, Table!Next

LEMMA StepPushed ==
    ASSUME IInv, phase = "expanding", NEW m \in DOMAIN macros, Table!PushExpansion(m),
           Balanced(calls', expansionStack', Len(macros)), calls' # <<>>,
           UNCHANGED <<unit, phase>>
    PROVE  IInv' /\ TableStep
<1>1. macros' = macros
  BY DEF Table!PushExpansion
<1>2. (calls' # <<>>) = (phase' = "expanding")
  OBVIOUS
<1>3. unit' \in Unit /\ macros' \in Seq(Table!Entry)
  BY <1>1 DEF IInv
<1>4. IInv'
  BY <1>1, <1>2, <1>3 DEF IInv, Table!Entry
<1>5. OneFrame
  BY DEF Table!PushExpansion, OneFrame
<1> QED
  BY <1>4, <1>5 DEF TableStep, Table!Next

\* An activation begins or returns.
LEMMA StepCalls ==
    ASSUME IInv, phase = "expanding", Balanced(calls', expansionStack, Len(macros)),
           (calls' # <<>>) = (phase' = "expanding"), UNCHANGED <<tableVars, unit>>
    PROVE  IInv' /\ TableStep
<1>1. macros' = macros /\ expansionStack' = expansionStack /\ UNCHANGED Table!vars
  BY DEF tableVars, Table!vars
<1>2. unit' \in Unit /\ macros' \in Seq(Table!Entry)
  BY <1>1 DEF IInv
<1>3. IInv'
  BY <1>1, <1>2 DEF IInv, Table!Entry
<1> QED
  BY <1>1, <1>3 DEF TableStep, OneFrame

-----------------------------------------------------------------------------
(* The steps.                                                              *)

\* The stage in which a failed call leaves its activation.
LEMMA FailedStage ==
    ASSUME NEW n \in Nat, NEW a, Proper(a, n), NEW c, ProperCall(c, n),
           NEW b, DOMAIN b = DOMAIN a, b.call = c,
           b.stage = IF c.host = 0 THEN "scan" ELSE "leave"
    PROVE  Proper(b, n) /\ Frames(b) = HostFrame(c.host)
<1> DEFINE s == b.stage
<1>1. Fits(s, c, n) /\ (c.host = 0 => s = "scan") /\ (c.host # 0 => s = "leave")
  BY DEF Fits, Stages
<1>3. Proper(b, n) /\ b.stage = s /\ b.call = c
  BY <1>1, Staged
<1>4. CASE c.host = 0
  <2>1. b.stage = "scan" /\ HostFrame(c.host) = <<>>
    BY <1>1, <1>3, <1>4 DEF HostFrame
  <2> QED
    BY <1>3, <2>1, FramesByStage
<1>5. CASE c.host # 0
  <2>1. b.stage = "leave" /\ b.call.host = c.host
    BY <1>1, <1>3, <1>5
  <2> QED
    BY <1>3, <2>1, FramesByStage
<1> QED
  BY <1>4, <1>5

\* A call whose arguments are to be expanded, or that has the wrong number
\* of them, holds its host and no other frame.
LEMMA StartCallTop ==
    ASSUME NEW n \in Nat, NEW a, Proper(a, n), NEW p \in 1 .. n, NEW host \in 0 .. n,
           NEW kind \in {"function", "boundary", "accumulated"},
           kind # "boundary" => host = 0, NEW k, NEW prefix,
           StartCall(a, kind, p, k, prefix, host)
    PROVE  \E b : Proper(b, n) /\ Frames(b) = HostFrame(host) /\ calls' = WithTop(b)
<1> DEFINE args == Arguments(a.input, k + 1, Def(p))
           call == Call(kind, p, args, Closing(a.input, k + 1) + 1, prefix, host)
           ok   == [a EXCEPT !.stage = "args", !.call = call]
           bad  == [a EXCEPT !.stage = IF host = 0 THEN "scan" ELSE "leave", !.call = call]
<1>1. calls' = WithTop(ok) \/ calls' = WithTop(bad)
  BY DEF StartCall
<1>2. ProperCall(call, n) /\ call.macro = p /\ call.host = host
  BY CallProper
<1> HIDE DEF call
<1>d. Fields \subseteq DOMAIN a
  BY DEF Proper
<1>3. Proper(ok, n) /\ Frames(ok) = HostFrame(host)
  <2>1. Fits("args", call, n)
    BY <1>2 DEF Fits, Stages
  <2>2. DOMAIN ok = DOMAIN a /\ ok.stage = "args" /\ ok.call = call
    BY <1>d DEF Fields
  <2> HIDE DEF ok
  <2>3. Proper(ok, n)
    BY <1>2, <2>1, <2>2, Staged
  <2> QED
    BY <1>2, <2>2, <2>3, FramesByStage
<1>4. Proper(bad, n) /\ Frames(bad) = HostFrame(host)
  <2>1. /\ DOMAIN bad = DOMAIN a /\ bad.call = call
        /\ bad.stage = IF call.host = 0 THEN "scan" ELSE "leave"
    BY <1>2, <1>d DEF Fields
  <2> HIDE DEF bad
  <2> QED
    BY <1>2, <2>1, FailedStage
<1> QED
  BY <1>1, <1>3, <1>4

\* EnterBody for a call whose host is all that its activation holds.
LEMMA EnterBodyStep ==
    ASSUME IInv, phase = "expanding", NEW c, ProperCall(c, Len(macros)),
           c.macro \in 1 .. Len(macros), Frames(Top) = HostFrame(c.host), EnterBody(c),
           UNCHANGED <<unit, phase>>
    PROVE  IInv' /\ TableStep
<1> DEFINE n      == Len(macros)
           inside == [Top EXCEPT !.stage = "body", !.call = c]
           refused == [Top EXCEPT !.stage = IF c.host = 0 THEN "scan" ELSE "leave", !.call = c]
           result == Substitute(Def(c.macro), c.raw, c.expanded)
           copied == Emit(Top, <<Tok>>, Top.i + 1)
<1>1. /\ n \in Nat /\ DOMAIN macros = 1 .. n /\ calls # <<>> /\ Proper(Top, n)
      /\ Balanced(calls, expansionStack, n) /\ Frames(Top) \in Seq(Nat)
      /\ c.macro \in Nat /\ c.macro \in DOMAIN macros
  BY TopProper
<1>d. Fields \subseteq DOMAIN Top
  BY <1>1 DEF Proper
<1>2. Table!PushExpansion(c.macro)
  BY DEF EnterBody
<1>3. CASE Table!PushError(c.macro) # "none"
  <2>1. expansionStack' = expansionStack
    BY <1>2, <1>3 DEF Table!PushExpansion
  <2>2. CASE c.kind = "function"
    <3>1. calls' = WithTop(copied)
      BY <1>3, <2>2 DEF EnterBody
    <3>2. Proper(copied, n) /\ Frames(copied) = <<>>
      BY <1>1, Emitted
    <3> HIDE DEF copied
    <3>3. Frames(Top) = <<>>
      BY <2>2 DEF ProperCall, HostFrame
    <3>4. Balanced(calls', expansionStack', n) /\ calls' # <<>>
      BY <1>1, <2>1, <3>1, <3>2, <3>3, BalancedSame DEF Top, WithTop
    <3> QED
      BY <1>1, <1>2, <3>4, StepPushed
  <2>3. CASE c.kind # "function"
    <3>1. calls' = WithTop(refused)
      BY <1>3, <2>3 DEF EnterBody
    <3>a. /\ DOMAIN refused = DOMAIN Top /\ refused.call = c
          /\ refused.stage = IF c.host = 0 THEN "scan" ELSE "leave"
      BY <1>d DEF Fields
    <3> HIDE DEF refused
    <3>2. Proper(refused, n) /\ Frames(refused) = HostFrame(c.host)
      BY <1>1, <3>a, FailedStage
    <3>3. Balanced(calls', expansionStack', n) /\ calls' # <<>>
      BY <1>1, <2>1, <3>1, <3>2, BalancedSame DEF Top, WithTop
    <3> QED
      BY <1>1, <1>2, <3>3, StepPushed
  <2> QED
    BY <2>2, <2>3
<1>4. CASE Table!PushError(c.macro) = "none"
  <2>1. expansionStack' = Append(expansionStack, c.macro)
    BY <1>2, <1>4 DEF Table!PushExpansion
  <2>2. Proper(inside, n) /\ inside.stage = "body" /\ inside.call = c
    <3>1. Fits("body", c, n)
      BY <1>1 DEF Fits, Stages
    <3>2. DOMAIN inside = DOMAIN Top /\ inside.stage = "body" /\ inside.call = c
      BY <1>d DEF Fields
    <3> HIDE DEF inside
    <3> QED
      BY <1>1, <3>1, <3>2, Staged
  <2>3. Frames(inside) = Append(Frames(Top), c.macro)
    BY <1>1, <2>2, FramesByStage
  <2>4. calls' = WithTop(inside) \/ calls' = Append(WithTop(inside), Activation(result.tokens))
    BY <1>4 DEF EnterBody
  <2> HIDE DEF inside
  <2> DEFINE ds == WithTop(inside)
  <2>5. Balanced(ds, expansionStack', n) /\ ds # <<>> /\ ds[Len(ds)] = inside
    <3>1. ds = [calls EXCEPT ![Len(calls)] = inside]
      BY DEF WithTop
    <3> DEFINE m == c.macro
    <3>2. m \in Nat /\ Frames(inside) = Append(Frames(calls[Len(calls)]), m)
      BY <1>1, <2>3 DEF Top
    <3>3. expansionStack' = Append(expansionStack, m)
      BY <2>1
    <3> HIDE DEF ds, n, m
    <3>4. Balanced(ds, expansionStack', n) /\ ds # <<>> /\ ds[Len(ds)] = inside
      <4>1. n \in Nat /\ Balanced(calls, expansionStack, n) /\ calls # <<>>
        BY <1>1
      <4>2. Proper(inside, n)
        BY <2>2
      <4>3. Balanced(ds, expansionStack', n)
        BY <3>1, <3>2, <3>3, <4>1, <4>2, BalancedPush
      <4>4. ds # <<>>
        BY <3>1, <3>2, <3>3, <4>1, <4>2, BalancedPush
      <4>5. ds[Len(ds)] = inside
        BY <3>1, <3>2, <3>3, <4>1, <4>2, BalancedPush
      <4> QED
        BY <4>3, <4>4, <4>5
    <3> QED
      BY <3>4
  <2> HIDE DEF ds
  <2>6. Balanced(calls', expansionStack', n) /\ calls' # <<>>
    <3>1. CASE calls' = ds
      BY <2>5, <3>1
    <3>2. CASE calls' = Append(ds, Activation(result.tokens))
      <4>1. ds[Len(ds)].stage \in {"args", "body"}
        BY <2>2, <2>5
      <4> QED
        BY <1>1, <2>5, <3>2, <4>1, BalancedDeeper
    <3> QED
      BY <2>4, <3>1, <3>2 DEF ds
  <2> QED
    BY <1>1, <1>2, <2>6, StepPushed
<1> QED
  BY <1>3, <1>4

LEMMA ScanFrames ==
    ASSUME IInv, phase = "expanding", Top.stage \in {"scan", "accumulate"}
    PROVE  Frames(Top) = <<>>
  BY TopProper, FramesByStage

LEMMA EmitStep ==
    ASSUME IInv, phase = "expanding", Frames(Top) = <<>>, NEW tokens, NEW next,
           calls' = WithTop(Emit(Top, tokens, next)), UNCHANGED <<tableVars, unit, phase>>
    PROVE  IInv' /\ TableStep
<1> DEFINE b == Emit(Top, tokens, next)
<1>1. Proper(b, Len(macros)) /\ Frames(b) = <<>>
  BY TopProper, Emitted
<1> HIDE DEF b
<1>2. calls' = WithTop(b)
  BY DEF b
<1> QED
  BY <1>1, <1>2, StepSame

LEMMA CallerProper ==
    ASSUME IInv, phase = "expanding", Len(calls) > 1
    PROVE  Proper(Caller, Len(macros))
<1>1. PICK A : calls \in Seq(A)
  BY DEF IInv, Balanced
<1>2. Len(calls) - 1 \in 1 .. Len(calls)
  BY <1>1
<1> QED
  BY <1>2 DEF IInv, Balanced, Caller

\* An activation that holds nothing returns and its caller goes on.
LEMMA ReturnStep ==
    ASSUME IInv, phase = "expanding", Frames(Top) = <<>>, Len(calls) > 1,
           NEW b, Proper(b, Len(macros)), Frames(Caller) = Frames(b),
           calls' = Returning(b), UNCHANGED <<tableVars, unit, phase>>
    PROVE  IInv' /\ TableStep
<1> DEFINE front == SubSeq(calls, 1, Len(calls) - 1)
<1>1. PICK A : calls \in Seq(A)
  BY DEF IInv, Balanced
<1>2. PICK m \in Nat : Len(calls) = m + 2
  BY <1>1
<1>3. front = SubSeq(calls, 1, m + 1) /\ calls' = Append(SubSeq(calls, 1, m), b)
      /\ Caller = calls[m + 1]
  BY <1>2 DEF Returning, Caller
<1>4. front \in Seq(A) /\ Len(front) = m + 1 /\ \A k \in 1 .. m + 1 : front[k] = calls[k]
  BY <1>1, <1>2, <1>3
<1> HIDE DEF front
<1>5. calls' = [front EXCEPT ![Len(front)] = b]
  <2> DEFINE low == SubSeq(calls, 1, m)
             ds == Append(low, b)
             es == [front EXCEPT ![m + 1] = b]
  <2>1. low \in Seq(A) /\ Len(low) = m /\ \A k \in 1 .. m : low[k] = calls[k]
    BY <1>1, <1>2
  <2> HIDE DEF low
  <2>2. /\ ds \in Seq(A \cup {b}) /\ Len(ds) = m + 1 /\ ds[m + 1] = b
        /\ \A k \in 1 .. m : ds[k] = low[k]
    BY <2>1
  <2>3. es \in Seq(A \cup {b}) /\ Len(es) = m + 1 /\ es[m + 1] = b
        /\ \A k \in 1 .. m : es[k] = front[k]
    BY <1>4
  <2> HIDE DEF ds, es
  <2>4. \A k \in 1 .. m + 1 : ds[k] = es[k]
    <3> TAKE k \in 1 .. m + 1
    <3>1. CASE k = m + 1
      BY <2>2, <2>3, <3>1
    <3>2. CASE k # m + 1
      <4>1. k \in 1 .. m
        BY <3>2
      <4> QED
        BY <1>4, <2>1, <2>2, <2>3, <4>1
    <3> QED
      BY <3>1, <3>2
  <2>5. ds = es
    BY <2>2, <2>3, <2>4, SeqEqual
  <2> QED
    BY <1>3, <1>4, <2>5 DEF ds, es, low
<1>6. Balanced(front, expansionStack, Len(macros))
  BY TopProper, BalancedShallower DEF Top, front
<1>7. front # <<>> /\ front[Len(front)] = Caller
  BY <1>3, <1>4
<1>8. Balanced(calls', expansionStack, Len(macros))
  BY <1>5, <1>6, <1>7, TopProper, BalancedSame
<1>9. calls' # <<>>
  BY <1>5, <1>6, <1>7, TopProper, BalancedSame
<1>10. (calls' # <<>>) = (phase' = "expanding")
  BY <1>9
<1> QED
  BY <1>8, <1>10, StepCalls

LEMMA ScanStep ==
    ASSUME IInv, Scan
    PROVE  IInv' /\ TableStep
<1>1. CASE CopyToken
  <2>1. phase = "expanding" /\ Top.stage \in {"scan", "accumulate"}
    BY <1>1 DEF CopyToken, AtToken
  <2> QED
    BY <1>1, <2>1, ScanFrames, EmitStep DEF CopyToken
<1>2. CASE ExpandBuiltin
  <2>1. phase = "expanding" /\ Top.stage \in {"scan", "accumulate"}
    BY <1>2 DEF ExpandBuiltin, AtToken
  <2>2. \E tokens : calls' = WithTop(Emit(Top, tokens, Top.i + 1))
    BY <1>2 DEF ExpandBuiltin
  <2>3. UNCHANGED <<tableVars, unit, phase>>
    BY <1>2 DEF ExpandBuiltin
  <2> QED
    BY <2>1, <2>2, <2>3, ScanFrames, EmitStep
<1>3. CASE ExpandObject
  <2> DEFINE p == Table!Position(Tok)
             c == Call("object", p, <<>>, Top.i + 1, <<>>, 0)
  <2>1. /\ phase = "expanding" /\ Top.stage \in {"scan", "accumulate"}
        /\ Table!IsDefined(Tok) /\ EnterBody(c) /\ UNCHANGED <<unit, phase>>
    BY <1>3 DEF ExpandObject, AtToken, Expandable
  <2>2. p \in 1 .. Len(macros) /\ Len(macros) \in Nat
    BY <2>1, PositionInTable, TopProper DEF IInv
  <2> HIDE DEF p
  <2>3. 0 \in 0 .. Len(macros)
    BY <2>2
  <2>4. ProperCall(c, Len(macros)) /\ c.macro = p /\ c.host = 0
    BY <2>2, <2>3, CallProper
  <2> HIDE DEF c
  <2>5. Frames(Top) = HostFrame(c.host)
    BY <2>1, <2>4, ScanFrames DEF HostFrame
  <2> QED
    BY <2>1, <2>2, <2>4, <2>5, EnterBodyStep
<1>4. CASE CallFunction
  <2> DEFINE p == Table!Position(Tok)
  <2>1. /\ phase = "expanding" /\ Top.stage \in {"scan", "accumulate"}
        /\ Table!IsDefined(Tok) /\ UNCHANGED <<tableVars, unit, phase>>
        /\ StartCall(Top, "function", p, Top.i + 1, <<>>, 0)
    BY <1>4 DEF CallFunction, AtToken, Expandable
  <2>2. p \in 1 .. Len(macros) /\ Len(macros) \in Nat /\ Proper(Top, Len(macros))
    BY <2>1, PositionInTable, TopProper DEF IInv
  <2> HIDE DEF p
  <2>3. 0 \in 0 .. Len(macros)
    BY <2>2
  <2>4. PICK b : Proper(b, Len(macros)) /\ Frames(b) = HostFrame(0) /\ calls' = WithTop(b)
    BY <2>1, <2>2, <2>3, StartCallTop
  <2>5. Frames(Top) = Frames(b)
    BY <2>1, <2>4, ScanFrames DEF HostFrame
  <2> QED
    BY <2>1, <2>4, <2>5, StepSame
<1> QED
  BY <1>1, <1>2, <1>3, <1>4 DEF Scan

LEMMA ArgumentStep ==
    ASSUME IInv, ExpandArgument \/ ReturnArgument \/ ArgumentsExpanded \/ ReturnBody
    PROVE  IInv' /\ TableStep
<1>1. CASE ExpandArgument
  <2> DEFINE raw == Top.call.raw[Len(Top.call.expanded) + 1]
             b   == [Top EXCEPT !.call.expanded = Append(Top.call.expanded, <<>>)]
  <2>1. phase = "expanding" /\ Top.stage = "args" /\ UNCHANGED <<tableVars, unit, phase>>
    BY <1>1 DEF ExpandArgument, At
  <2>2. CASE raw = <<>>
    <3>1. calls' = WithTop(b)
      BY <1>1, <2>2 DEF ExpandArgument
    <3>a. Fields \subseteq DOMAIN Top /\ CallFields \subseteq DOMAIN Top.call
          /\ Fits("args", Top.call, Len(macros))
      BY <2>1, TopProper DEF Proper, ProperCall
    <3>b. SameCall(Top, b) /\ b.stage = "args"
      BY <2>1, <3>a DEF Fields, CallFields, SameCall
    <3> HIDE DEF b
    <3>2. Proper(b, Len(macros)) /\ b.stage = "args" /\ b.call.host = Top.call.host
      BY <2>1, <3>a, <3>b, TopProper, ResultStored DEF SameCall
    <3>3. Frames(b) = Frames(Top)
      BY <2>1, <3>2, TopProper, FramesByStage
    <3> QED
      BY <2>1, <3>1, <3>2, <3>3, StepSame
  <2>3. CASE raw # <<>>
    <3>1. calls' = Append(calls, Activation(raw))
      BY <1>1, <2>3 DEF ExpandArgument
    <3> HIDE DEF raw
    <3>2. calls[Len(calls)].stage \in {"args", "body"}
      BY <2>1 DEF Top
    <3>3. Balanced(calls', expansionStack, Len(macros)) /\ calls' # <<>>
      BY <2>1, <3>1, <3>2, TopProper, BalancedDeeper
    <3>4. (calls' # <<>>) = (phase' = "expanding")
      BY <2>1, <3>3
    <3> QED
      BY <2>1, <3>3, <3>4, StepCalls
  <2> QED
    BY <2>2, <2>3
<1>2. CASE ReturnArgument
  <2> DEFINE b == [Caller EXCEPT !.call.expanded = Append(Caller.call.expanded, Top.out)]
  <2>1. /\ phase = "expanding" /\ Top.stage \in {"scan", "accumulate"} /\ Len(calls) > 1
        /\ Caller.stage = "args" /\ UNCHANGED <<tableVars, unit, phase>>
        /\ calls' = Returning(b)
    BY <1>2 DEF ReturnArgument, Finished
  <2>2. Proper(Caller, Len(macros)) /\ Len(macros) \in Nat
    BY <2>1, CallerProper, TopProper
  <2>a. Fields \subseteq DOMAIN Caller /\ CallFields \subseteq DOMAIN Caller.call
        /\ Fits("args", Caller.call, Len(macros))
    BY <2>1, <2>2 DEF Proper, ProperCall
  <2>b. SameCall(Caller, b) /\ b.stage = "args"
    BY <2>1, <2>a DEF Fields, CallFields, SameCall
  <2> HIDE DEF b
  <2>3. Proper(b, Len(macros)) /\ b.stage = "args" /\ b.call.host = Caller.call.host
    BY <2>2, <2>a, <2>b, ResultStored DEF SameCall
  <2>4. Frames(Caller) = Frames(b)
    BY <2>1, <2>2, <2>3, FramesByStage
  <2> QED
    BY <2>1, <2>3, <2>4, ScanFrames, ReturnStep
<1>3. CASE ArgumentsExpanded
  <2>1. /\ phase = "expanding" /\ Top.stage = "args" /\ EnterBody(Top.call)
        /\ UNCHANGED <<unit, phase>>
    BY <1>3 DEF ArgumentsExpanded, At
  <2>2. /\ Proper(Top, Len(macros)) /\ ProperCall(Top.call, Len(macros))
        /\ Top.call.macro \in 1 .. Len(macros)
    BY <2>1, TopProper DEF Proper, Fits
  <2>3. Frames(Top) = HostFrame(Top.call.host)
    BY <2>1, <2>2, TopProper, FramesByStage
  <2> QED
    BY <2>1, <2>2, <2>3, EnterBodyStep
<1>4. CASE ReturnBody
  <2> DEFINE b == [Caller EXCEPT !.stage = "nested", !.call.nested = Top.out]
  <2>1. /\ phase = "expanding" /\ Top.stage \in {"scan", "accumulate"} /\ Len(calls) > 1
        /\ Caller.stage = "body" /\ UNCHANGED <<tableVars, unit, phase>>
        /\ calls' = Returning(b)
    BY <1>4 DEF ReturnBody, Finished
  <2>2. Proper(Caller, Len(macros)) /\ Len(macros) \in Nat
    BY <2>1, CallerProper, TopProper
  <2>3. /\ Proper(b, Len(macros)) /\ b.stage = "nested" /\ b.call.host = Caller.call.host
        /\ b.call.macro = Caller.call.macro
    <3>1. Fields \subseteq DOMAIN Caller /\ CallFields \subseteq DOMAIN Caller.call
          /\ Fits("nested", Caller.call, Len(macros))
      BY <2>1, <2>2 DEF Proper, ProperCall, Fits, Stages
    <3>2. SameCall(Caller, b) /\ b.stage = "nested"
      BY <3>1 DEF Fields, CallFields, SameCall
    <3> HIDE DEF b
    <3> QED
      BY <2>2, <3>1, <3>2, ResultStored DEF SameCall
  <2> HIDE DEF b
  <2>4. Frames(Caller) = Frames(b)
    BY <2>1, <2>2, <2>3, FramesByStage
  <2> QED
    BY <2>1, <2>3, <2>4, ScanFrames, ReturnStep
<1> QED
  BY <1>1, <1>2, <1>3, <1>4

\* A callee found at the end of a run of tokens is an entry of the table.
LEMMA CalleeInTable ==
    ASSUME IInv, NEW tokens, NEW k, NEW popped, Crosses(tokens, k, popped)
    PROVE  Callee(tokens) \in DOMAIN macros
  BY PositionInTable DEF IInv, Crosses, Callee

\* What an activation holds when its replacement has been rescanned.
LEMMA NestedFrames ==
    ASSUME IInv, At("nested")
    PROVE  /\ phase = "expanding"
           /\ Top.call.macro \in DOMAIN macros /\ Top.call.macro \in 1 .. Len(macros)
           /\ Frames(Top) = Append(HostFrame(Top.call.host), Top.call.macro)
           /\ Top.call.kind # "boundary" => HostFrame(Top.call.host) = <<>>
<1>1. phase = "expanding" /\ Top.stage = "nested"
  BY DEF At
<1>2. Proper(Top, Len(macros)) /\ Len(macros) \in Nat /\ DOMAIN macros = 1 .. Len(macros)
  BY <1>1, TopProper
<1>3. Top.call.macro \in 1 .. Len(macros)
  BY <1>1, <1>2 DEF Proper, Fits
<1>4. Frames(Top) = Append(HostFrame(Top.call.host), Top.call.macro)
  BY <1>1, <1>2, FramesByStage
<1>5. Top.call.kind # "boundary" => HostFrame(Top.call.host) = <<>>
  BY <1>2 DEF Proper, ProperCall, HostFrame
<1> QED
  BY <1>1, <1>2, <1>3, <1>4, <1>5

LEMMA FinishObjectStep ==
    ASSUME IInv, FinishObject
    PROVE  IInv' /\ TableStep
<1> DEFINE nested == Top.call.nested
           m      == Top.call.macro
           copied == Emit(Top, nested, Top.i + 1)
<1>1. /\ At("nested") /\ Top.call.kind = "object" /\ Table!PopExpansion(m)
      /\ UNCHANGED <<unit, phase>>
  BY DEF FinishObject
<1>2. /\ phase = "expanding" /\ m \in DOMAIN macros
      /\ HostFrame(Top.call.host) = <<>> /\ Frames(Top) = Append(<<>>, m)
  BY <1>1, NestedFrames
<1>t. /\ Proper(Top, Len(macros)) /\ Len(macros) \in Nat /\ 0 \in 0 .. Len(macros)
      /\ DOMAIN macros = 1 .. Len(macros)
  BY <1>2, TopProper
<1>3. CASE Crosses(nested, Top.i + 1, m)
  <2>1. StartCall(Top, "boundary", Callee(nested), Top.i + 1, AllButLast(nested), 0)
    BY <1>3 DEF FinishObject
  <2>2. Callee(nested) \in 1 .. Len(macros)
    <3>1. Callee(nested) \in DOMAIN macros
      BY <1>3, CalleeInTable
    <3> QED
      BY <1>t, <3>1
  <2> HIDE DEF nested, m
  <2>3. PICK b : Proper(b, Len(macros)) /\ Frames(b) = HostFrame(0) /\ calls' = WithTop(b)
    BY <1>t, <2>1, <2>2, StartCallTop
  <2>4. Frames(b) = <<>>
    BY <2>3 DEF HostFrame
  <2>5. Frames(Top) = Append(Frames(b), m)
    BY <1>2, <2>4
  <2> QED
    BY <1>1, <1>2, <2>3, <2>5, StepPop
<1>4. CASE ~ Crosses(nested, Top.i + 1, m)
  <2>1. calls' = WithTop(copied)
    BY <1>4 DEF FinishObject
  <2>2. Proper(copied, Len(macros)) /\ Frames(copied) = <<>>
    BY <1>t, Emitted
  <2> HIDE DEF copied, m
  <2>3. Frames(Top) = Append(Frames(copied), m)
    BY <1>2, <2>2
  <2> QED
    BY <1>1, <1>2, <2>1, <2>2, <2>3, StepPop
<1> QED
  BY <1>3, <1>4

LEMMA FinishFunctionStep ==
    ASSUME IInv, FinishFunction
    PROVE  IInv' /\ TableStep
<1> DEFINE nested == Top.call.nested
           next   == Top.call.next
           m      == Top.call.macro
           copied == Emit(Top, nested, next)
<1>1. At("nested") /\ Top.call.kind = "function" /\ UNCHANGED <<unit, phase>>
  BY DEF FinishFunction
<1>2. /\ phase = "expanding" /\ m \in DOMAIN macros /\ m \in 1 .. Len(macros)
      /\ HostFrame(Top.call.host) = <<>> /\ Frames(Top) = Append(<<>>, m)
  BY <1>1, NestedFrames
<1>t. /\ Proper(Top, Len(macros)) /\ Len(macros) \in Nat /\ 0 \in 0 .. Len(macros)
      /\ DOMAIN macros = 1 .. Len(macros)
  BY <1>2, TopProper
<1>3. CASE Crosses(nested, next, 0)
  <2>1. /\ StartCall(Top, "boundary", Callee(nested), next, AllButLast(nested), m)
        /\ UNCHANGED tableVars
    BY <1>3 DEF FinishFunction
  <2>2. Callee(nested) \in 1 .. Len(macros)
    <3>1. Callee(nested) \in DOMAIN macros
      BY <1>3, CalleeInTable
    <3> QED
      BY <1>t, <3>1
  <2> HIDE DEF nested, next, m
  <2>m. m \in 0 .. Len(macros) /\ m # 0
    BY <1>2, <1>t
  <2>3. PICK b : Proper(b, Len(macros)) /\ Frames(b) = HostFrame(m) /\ calls' = WithTop(b)
    BY <1>t, <2>1, <2>2, <2>m, StartCallTop
  <2>4. Frames(Top) = Frames(b)
    <3>1. HostFrame(m) = <<m>>
      BY <2>m DEF HostFrame
    <3>2. Append(<<>>, m) = <<m>>
      OBVIOUS
    <3> QED
      BY <1>2, <2>3, <3>1, <3>2
  <2>5. UNCHANGED <<tableVars, unit, phase>>
    BY <1>1, <2>1
  <2> QED
    BY <1>2, <2>3, <2>4, <2>5, StepSame
<1>4. CASE ~ Crosses(nested, next, 0)
  <2>1. calls' = WithTop(copied) /\ Table!PopExpansion(m)
    BY <1>4 DEF FinishFunction
  <2>2. Proper(copied, Len(macros)) /\ Frames(copied) = <<>>
    BY <1>t, Emitted
  <2> HIDE DEF copied, m
  <2>3. Frames(Top) = Append(Frames(copied), m)
    BY <1>2, <2>2
  <2> QED
    BY <1>1, <1>2, <2>1, <2>2, <2>3, StepPop
<1> QED
  BY <1>3, <1>4

LEMMA FinishBoundaryStep ==
    ASSUME IInv, FinishBoundary
    PROVE  IInv' /\ TableStep
<1> DEFINE m       == Top.call.macro
           host    == Top.call.host
           done    == Emit(Top, Top.call.prefix \o Top.call.nested, Top.call.next)
           leaving == [done EXCEPT !.stage = "leave", !.call = Top.call]
           retry   == [done EXCEPT !.stage = "accumulate"]
           b == IF host # 0 THEN leaving
                ELSE IF Top.call.kind = "accumulated" THEN retry
                ELSE done
<1>1. /\ At("nested") /\ Table!PopExpansion(m) /\ calls' = WithTop(b)
      /\ UNCHANGED <<unit, phase>>
  BY DEF FinishBoundary
<1>2. /\ phase = "expanding" /\ m \in DOMAIN macros
      /\ Frames(Top) = Append(HostFrame(host), m)
  BY <1>1, NestedFrames
<1>3. /\ Proper(Top, Len(macros)) /\ Len(macros) \in Nat
      /\ ProperCall(Top.call, Len(macros))
  BY <1>2, TopProper DEF Proper
<1>4. Proper(done, Len(macros)) /\ Frames(done) = <<>> /\ done.call = NoCall
  BY <1>3, Emitted
<1> HIDE DEF done
<1>5. Proper(b, Len(macros)) /\ Frames(b) = HostFrame(host)
  <2>1. Fields \subseteq DOMAIN done
    BY <1>4 DEF Proper
  <2>2. CASE host # 0
    <3>1. DOMAIN leaving = DOMAIN done /\ leaving.stage = "leave" /\ leaving.call = Top.call
      BY <2>1 DEF Fields
    <3> HIDE DEF leaving
    <3>2. Fits("leave", Top.call, Len(macros))
      BY <2>2 DEF Fits, Stages
    <3>3. Proper(leaving, Len(macros))
      BY <1>3, <1>4, <3>1, <3>2, Staged
    <3>4. Frames(leaving) = HostFrame(host)
      BY <1>3, <3>1, <3>3, FramesByStage
    <3> QED
      BY <2>2, <3>3, <3>4
  <2>3. CASE host = 0 /\ Top.call.kind = "accumulated"
    <3>1. DOMAIN retry = DOMAIN done /\ retry.stage = "accumulate" /\ retry.call = NoCall
      BY <1>4, <2>1 DEF Fields
    <3> HIDE DEF retry
    <3>2. Fits("accumulate", NoCall, Len(macros))
      BY DEF Fits, Stages
    <3>3. Proper(retry, Len(macros))
      BY <1>3, <1>4, <3>1, <3>2, NoCallProper, Staged
    <3>4. Frames(retry) = <<>>
      BY <1>3, <3>1, <3>3, FramesByStage
    <3> QED
      BY <2>3, <3>3, <3>4 DEF HostFrame
  <2>4. CASE host = 0 /\ Top.call.kind # "accumulated"
    BY <1>4, <2>4 DEF HostFrame
  <2> QED
    BY <2>2, <2>3, <2>4
<1> HIDE DEF b, m
<1>6. Frames(Top) = Append(Frames(b), m)
  BY <1>2, <1>5
<1> QED
  BY <1>1, <1>2, <1>5, <1>6, StepPop

LEMMA LeaveFrames ==
    ASSUME IInv, phase = "expanding", Top.stage = "leave"
    PROVE  Top.call.host \in DOMAIN macros /\ Frames(Top) = Append(<<>>, Top.call.host)
<1>1. Proper(Top, Len(macros)) /\ Len(macros) \in Nat /\ DOMAIN macros = 1 .. Len(macros)
  BY TopProper
<1>2. Top.call.host \in 0 .. Len(macros) /\ Top.call.host # 0
  BY <1>1 DEF Proper, ProperCall, Fits
<1>3. Frames(Top) = HostFrame(Top.call.host)
  BY <1>1, FramesByStage
<1>4. Frames(Top) = <<Top.call.host>>
  BY <1>2, <1>3 DEF HostFrame
<1> QED
  BY <1>1, <1>2, <1>4

LEMMA LeaveHostStep ==
    ASSUME IInv, LeaveHost
    PROVE  IInv' /\ TableStep
<1> DEFINE m == Top.call.host
           b == [Top EXCEPT !.stage = "accumulate", !.call = NoCall]
<1>1. /\ phase = "expanding" /\ Top.stage = "leave" /\ Table!PopExpansion(m)
      /\ calls' = WithTop(b) /\ UNCHANGED <<unit, phase>>
  BY DEF LeaveHost, At
<1>2. m \in DOMAIN macros /\ Frames(Top) = Append(<<>>, m)
  BY <1>1, LeaveFrames
<1>3. Proper(Top, Len(macros)) /\ Len(macros) \in Nat /\ Fields \subseteq DOMAIN Top
  BY <1>1, TopProper DEF Proper
<1>4. DOMAIN b = DOMAIN Top /\ b.stage = "accumulate" /\ b.call = NoCall
  BY <1>3 DEF Fields
<1> HIDE DEF b, m
<1>5. Fits("accumulate", NoCall, Len(macros))
  BY DEF Fits, Stages
<1>6. Proper(b, Len(macros))
  BY <1>3, <1>4, <1>5, NoCallProper, Staged
<1>7. Frames(b) = <<>>
  BY <1>3, <1>4, <1>6, FramesByStage
<1>8. Frames(Top) = Append(Frames(b), m)
  BY <1>2, <1>7
<1> QED
  BY <1>1, <1>2, <1>6, <1>8, StepPop

LEMMA AccumulateStep ==
    ASSUME IInv, Accumulate
    PROVE  IInv' /\ TableStep
<1>1. phase = "expanding" /\ Top.stage = "accumulate" /\ UNCHANGED <<tableVars, unit, phase>>
  BY DEF Accumulate, At
<1>2. Proper(Top, Len(macros)) /\ Len(macros) \in Nat /\ Fields \subseteq DOMAIN Top
  BY <1>1, TopProper DEF Proper
<1>3. Frames(Top) = <<>>
  BY <1>1, ScanFrames
<1>4. CASE Crosses(Top.out, Top.i, 0)
  <2> DEFINE a == [Top EXCEPT !.out = AllButLast(Top.out)]
  <2>1. StartCall(a, "accumulated", Callee(Top.out), Top.i, <<>>, 0)
    BY <1>4 DEF Accumulate
  <2>2. DOMAIN a = DOMAIN Top /\ a.stage = Top.stage /\ a.call = Top.call
    BY <1>2 DEF Fields
  <2> HIDE DEF a
  <2>3. Proper(a, Len(macros))
    BY <1>2, <2>2 DEF Proper
  <2>4. Callee(Top.out) \in 1 .. Len(macros) /\ 0 \in 0 .. Len(macros)
    <3>1. Callee(Top.out) \in DOMAIN macros
      BY <1>4, CalleeInTable
    <3>2. DOMAIN macros = 1 .. Len(macros)
      BY <1>1, TopProper
    <3> QED
      BY <1>2, <3>1, <3>2
  <2>5. PICK b : Proper(b, Len(macros)) /\ Frames(b) = HostFrame(0) /\ calls' = WithTop(b)
    BY <1>2, <2>1, <2>3, <2>4, StartCallTop
  <2>6. Frames(Top) = Frames(b)
    BY <1>3, <2>5 DEF HostFrame
  <2> QED
    BY <1>1, <2>5, <2>6, StepSame
<1>5. CASE ~ Crosses(Top.out, Top.i, 0)
  <2> DEFINE b == [Top EXCEPT !.stage = "scan"]
  <2>1. calls' = WithTop(b)
    BY <1>5 DEF Accumulate
  <2>2. DOMAIN b = DOMAIN Top /\ b.stage = "scan" /\ b.call = Top.call
    BY <1>2 DEF Fields
  <2> HIDE DEF b
  <2>3. Proper(b, Len(macros))
    BY <1>2, <2>2 DEF Proper, Fits, Stages
  <2>4. Frames(b) = <<>>
    BY <1>2, <2>2, <2>3, FramesByStage
  <2> QED
    BY <1>1, <1>3, <2>1, <2>3, <2>4, StepSame
<1> QED
  BY <1>4, <1>5

-----------------------------------------------------------------------------
(* Failure, and the preprocessor around the expansion.                     *)

\* The outermost activation returns.
LEMMA LastReturn ==
    ASSUME IInv, phase = "expanding", Frames(Top) = <<>>, Len(calls) = 1,
           calls' = <<>>, phase' # "expanding", UNCHANGED <<tableVars, unit>>
    PROVE  IInv' /\ TableStep
<1> DEFINE front == SubSeq(calls, 1, Len(calls) - 1)
<1>1. Balanced(front, expansionStack, Len(macros)) /\ Len(front) = Len(calls) - 1
  BY TopProper, BalancedShallower DEF Top
<1> HIDE DEF front
<1>2. front = <<>>
  <2>1. PICK A : front \in Seq(A)
    BY <1>1 DEF Balanced
  <2>2. Len(front) = 0
    BY <1>1
  <2> QED
    BY <2>1, <2>2, EmptySeq
<1>3. Balanced(calls', expansionStack, Len(macros))
  BY <1>1, <1>2
<1>4. (calls' # <<>>) = (phase' = "expanding")
  OBVIOUS
<1> QED
  BY <1>3, <1>4, StepCalls

LEMMA FailActivationStep ==
    ASSUME IInv, FailActivation
    PROVE  IInv' /\ TableStep
<1>1. /\ phase = "expanding" /\ Top.stage \in {"scan", "accumulate"}
      /\ UNCHANGED <<tableVars, unit>>
  BY DEF FailActivation, Failing
<1>2. Frames(Top) = <<>> /\ calls # <<>>
  BY <1>1, ScanFrames, TopProper
<1>3. CASE Len(calls) > 1
  <2>1. calls' = SubSeq(calls, 1, Len(calls) - 1) /\ phase' = phase
    BY <1>3 DEF FailActivation, AllButLast
  <2>2. Balanced(calls', expansionStack, Len(macros)) /\ Len(calls') = Len(calls) - 1
    BY <1>1, <1>2, <2>1, TopProper, BalancedShallower DEF Top
  <2>3. calls' # <<>>
    <3>1. Len(calls) \in Nat
      BY <1>1, <1>2, TopProper, BalancedTop
    <3>2. Len(calls') # 0
      BY <1>3, <2>2, <3>1
    <3> QED
      BY <3>2
  <2>4. (calls' # <<>>) = (phase' = "expanding")
    BY <1>1, <2>1, <2>3
  <2> QED
    BY <1>1, <2>2, <2>4, StepCalls
<1>4. CASE ~ (Len(calls) > 1)
  <2>1. calls' = <<>> /\ phase' # "expanding"
    BY <1>4 DEF FailActivation
  <2>2. Len(calls) = 1
    <3>1. Len(calls) \in Nat /\ Len(calls) > 0
      BY <1>1, <1>2, TopProper, BalancedTop
    <3>2. \A len \in Nat : len > 0 /\ ~ (len > 1) => len = 1
      OBVIOUS
    <3> QED
      BY <1>4, <3>1, <3>2
  <2> QED
    BY <1>1, <1>2, <2>1, <2>2, LastReturn
<1> QED
  BY <1>3, <1>4


LEMMA FailArgumentStep ==
    ASSUME IInv, FailArgument
    PROVE  IInv' /\ TableStep
<1>1. phase = "expanding" /\ Top.stage = "args" /\ UNCHANGED <<tableVars, unit, phase>>
  BY DEF FailArgument, Failing
<1>2. /\ Proper(Top, Len(macros)) /\ ProperCall(Top.call, Len(macros))
      /\ Len(macros) \in Nat /\ Fields \subseteq DOMAIN Top
  BY <1>1, TopProper DEF Proper
<1>3. Frames(Top) = HostFrame(Top.call.host)
  BY <1>1, <1>2, FramesByStage
<1>4. CASE Top.call.kind = "function"
  <2>1. calls' = WithTop(Emit(Top, <<Tok>>, Top.i + 1))
    BY <1>4 DEF FailArgument
  <2>2. Frames(Top) = <<>>
    BY <1>2, <1>3, <1>4 DEF ProperCall, HostFrame
  <2> QED
    BY <1>1, <2>1, <2>2, EmitStep
<1>5. CASE Top.call.kind # "function"
  <2> DEFINE c == Top.call
             b == [Top EXCEPT !.stage = IF c.host = 0 THEN "scan" ELSE "leave"]
  <2>1. calls' = WithTop(b)
    BY <1>5 DEF FailArgument
  <2>2. /\ DOMAIN b = DOMAIN Top /\ b.call = c
        /\ b.stage = IF c.host = 0 THEN "scan" ELSE "leave"
    BY <1>2 DEF Fields
  <2> HIDE DEF b
  <2>3. Proper(b, Len(macros)) /\ Frames(b) = HostFrame(c.host)
    BY <1>2, <2>2, FailedStage
  <2> QED
    BY <1>1, <1>3, <2>1, <2>3, StepSame
<1> QED
  BY <1>4, <1>5

LEMMA FailBodyStep ==
    ASSUME IInv, FailBody
    PROVE  IInv' /\ TableStep
<1> DEFINE c == Top.call
           m == c.macro
           b == [Top EXCEPT !.stage = IF c.host = 0 THEN "scan" ELSE "leave"]
<1>1. /\ phase = "expanding" /\ Top.stage = "body" /\ UNCHANGED <<unit, phase>>
      /\ Table!PopExpansion(m) /\ calls' = WithTop(b)
  BY DEF FailBody, Failing
<1>2. /\ Proper(Top, Len(macros)) /\ ProperCall(c, Len(macros))
      /\ Len(macros) \in Nat /\ Fields \subseteq DOMAIN Top
  BY <1>1, TopProper DEF Proper
<1>3. m \in DOMAIN macros
  BY <1>1, <1>2, TopProper DEF Proper, Fits
<1>4. Frames(Top) = Append(HostFrame(c.host), m)
  BY <1>1, <1>2, FramesByStage
<1>5. /\ DOMAIN b = DOMAIN Top /\ b.call = c
      /\ b.stage = IF c.host = 0 THEN "scan" ELSE "leave"
  BY <1>2 DEF Fields
<1> HIDE DEF b, m
<1>6. Proper(b, Len(macros)) /\ Frames(b) = HostFrame(c.host)
  BY <1>2, <1>5, FailedStage
<1>7. Frames(Top) = Append(Frames(b), m)
  BY <1>4, <1>6
<1> QED
  BY <1>1, <1>3, <1>6, <1>7, StepPop

LEMMA FailHostStep ==
    ASSUME IInv, FailHost
    PROVE  IInv' /\ TableStep
<1> DEFINE m == Top.call.host
           b == [Top EXCEPT !.stage = "scan"]
<1>1. /\ phase = "expanding" /\ Top.stage = "leave" /\ UNCHANGED <<unit, phase>>
      /\ Table!PopExpansion(m) /\ calls' = WithTop(b)
  BY DEF FailHost, Failing
<1>2. m \in DOMAIN macros /\ Frames(Top) = Append(<<>>, m)
  BY <1>1, LeaveFrames
<1>3. Proper(Top, Len(macros)) /\ Len(macros) \in Nat /\ Fields \subseteq DOMAIN Top
  BY <1>1, TopProper DEF Proper
<1>4. DOMAIN b = DOMAIN Top /\ b.stage = "scan" /\ b.call = Top.call
  BY <1>3 DEF Fields
<1> HIDE DEF b, m
<1>5. Proper(b, Len(macros))
  BY <1>3, <1>4 DEF Proper, Fits, Stages
<1>6. Frames(b) = <<>>
  BY <1>3, <1>4, <1>5, FramesByStage
<1>7. Frames(Top) = Append(Frames(b), m)
  BY <1>2, <1>6
<1> QED
  BY <1>1, <1>2, <1>5, <1>7, StepPop

LEMMA EndChunkStep ==
    ASSUME IInv, EndChunk
    PROVE  IInv' /\ TableStep
<1>1. /\ phase = "expanding" /\ Top.stage \in {"scan", "accumulate"} /\ Len(calls) = 1
      /\ calls' = <<>> /\ phase' # "expanding" /\ UNCHANGED <<tableVars, unit>>
  BY DEF EndChunk, Finished
<1> QED
  BY <1>1, ScanFrames, LastReturn

\* Between two expansions no frame is on the stack.
LEMMA NothingExpanding ==
    ASSUME IInv, phase # "expanding"
    PROVE  calls = <<>> /\ expansionStack = <<>>
<1>1. calls = <<>> /\ Balanced(calls, expansionStack, Len(macros))
  BY DEF IInv
<1>2. expansionStack \in Seq(Nat) /\ Held(<<>>, expansionStack)
  BY <1>1 DEF Balanced
<1> QED
  BY <1>1, <1>2, NothingHeld

LEMMA BeginChunkStep ==
    ASSUME IInv, BeginChunk
    PROVE  IInv' /\ TableStep
<1>1. /\ phase # "expanding" /\ phase' = "expanding" /\ calls' = <<Activation(chunk')>>
      /\ UNCHANGED <<tableVars, unit>>
  BY DEF BeginChunk
<1>2. /\ macros' = macros /\ expansionStack' = expansionStack /\ UNCHANGED Table!vars
      /\ unit' = unit
  BY <1>1 DEF tableVars, Table!vars
<1>3. calls = <<>> /\ Len(macros) \in Nat /\ Balanced(calls, expansionStack, Len(macros))
  BY <1>1, NothingExpanding DEF IInv
<1>4. calls' = Append(calls, Activation(chunk'))
  BY <1>1, <1>3
<1>5. Balanced(calls', expansionStack, Len(macros)) /\ calls' # <<>>
  BY <1>3, <1>4, BalancedDeeper
<1>6. IInv'
  <2>1. macros' \in Seq(Table!Entry) /\ unit' \in Unit
    BY <1>2 DEF IInv
  <2>2. (calls' # <<>>) = (phase' = "expanding")
    BY <1>1, <1>5
  <2> QED
    BY <1>2, <1>5, <2>1, <2>2 DEF IInv, Table!Entry
<1> QED
  BY <1>2, <1>6 DEF TableStep, OneFrame


LEMMA DeliverStep ==
    ASSUME IInv, Deliver
    PROVE  IInv' /\ TableStep
<1>1. /\ phase # "expanding" /\ phase' # "expanding" /\ UNCHANGED <<tableVars, unit, calls>>
  BY DEF Deliver
<1>2. /\ macros' = macros /\ expansionStack' = expansionStack /\ UNCHANGED Table!vars
      /\ unit' = unit /\ calls' = calls
  BY <1>1 DEF tableVars, Table!vars
<1>3. (calls' # <<>>) = (phase' = "expanding")
  BY <1>1, <1>2, NothingExpanding
<1>4. IInv'
  BY <1>2, <1>3 DEF IInv, Table!Entry
<1> QED
  BY <1>2, <1>4 DEF TableStep, OneFrame

\* A directive between two expansions finds the stack empty.
LEMMA MutateStep ==
    ASSUME IInv, NEW table \in Seq(Table!Entry), Mutate(table)
    PROVE  /\ IInv' /\ OneFrame
           /\ expansionStack = <<>> /\ mutationSerial < MaxMutations
           /\ macros' = table /\ mutationSerial' = mutationSerial + 1
           /\ UNCHANGED <<expansionStack, tableError>>
<1>1. /\ phase # "expanding" /\ phase' = phase /\ calls' = calls /\ unit' = unit
      /\ macros' = table /\ mutationSerial < MaxMutations
      /\ mutationSerial' = mutationSerial + 1
      /\ UNCHANGED <<expansionStack, tableError>>
  BY DEF Mutate
<1>2. calls = <<>> /\ expansionStack = <<>>
  BY <1>1, NothingExpanding
<1>3. Balanced(calls, expansionStack, Len(macros)) /\ Len(macros') \in Nat
  BY <1>1 DEF IInv
<1>4. Balanced(calls', expansionStack', Len(macros'))
  <2>1. Len(calls') = 0 /\ calls' = calls /\ expansionStack' = expansionStack
    BY <1>1, <1>2
  <2>2. \A k \in 1 .. Len(calls') : FALSE
    BY <2>1
  <2>3. \A k \in 1 .. Len(calls') - 1 : FALSE
    BY <2>1
  <2> QED
    BY <1>3, <2>1, <2>2, <2>3 DEF Balanced
<1>5. IInv'
  BY <1>1, <1>2, <1>4 DEF IInv, Table!Entry
<1> QED
  BY <1>1, <1>2, <1>5 DEF OneFrame

LEMMA DirectiveStep ==
    ASSUME IInv, DefineMacro \/ UndefMacro
    PROVE  IInv' /\ TableStep
<1>1. macros \in Seq(Table!Entry) /\ Len(macros) \in Nat /\ DOMAIN macros = 1 .. Len(macros)
  BY DEF IInv
<1>2. CASE DefineMacro
  <2>1. PICK dir \in unit.directives : Mutate(Table!Upsert(dir[1], dir[2]))
    BY <1>2 DEF DefineMacro
  <2> DEFINE n == dir[1]
             d == dir[2]
  <2>2. n \in Name /\ d \in Definition
    BY <2>1, MacroExpanderAssumption DEF IInv
  <2> HIDE DEF n, d
  <2>3. Table!Upsert(n, d) \in Seq(Table!Entry)
    <3>1. [name |-> n, definition |-> d] \in Table!Entry
      BY <2>2 DEF Table!Entry
    <3> DEFINE e == [name |-> n, definition |-> d]
    <3>e. e \in Table!Entry
      BY <3>1
    <3>2. CASE Table!IsDefined(n)
      <4>1. Table!Position(n) \in 1 .. Len(macros)
        BY <1>1, <3>2, PositionInTable
      <4> HIDE DEF e
      <4>2. \A p \in 1 .. Len(macros) : [macros EXCEPT ![p] = e] \in Seq(Table!Entry)
        BY <1>1, <3>e, ExceptSeq
      <4> QED
        BY <3>2, <4>1, <4>2 DEF Table!Upsert, e
    <3>3. CASE ~ Table!IsDefined(n)
      <4> HIDE DEF e
      <4>1. Append(macros, e) \in Seq(Table!Entry)
        BY <1>1, <3>e
      <4> QED
        BY <3>3, <4>1 DEF Table!Upsert, e
    <3> QED
      BY <3>2, <3>3
  <2>4. Mutate(Table!Upsert(n, d))
    BY <2>1 DEF n, d
  <2>5. /\ IInv' /\ OneFrame
        /\ expansionStack = <<>> /\ mutationSerial < MaxMutations
        /\ macros' = Table!Upsert(n, d) /\ mutationSerial' = mutationSerial + 1
        /\ UNCHANGED <<expansionStack, tableError>>
    BY <2>3, <2>4, MutateStep
  <2>6. Table!Define(n, d)
    BY <2>5 DEF Table!Define
  <2> QED
    BY <2>2, <2>5, <2>6 DEF TableStep, Table!Next
<1>3. CASE UndefMacro
  <2>1. PICK n \in Name : Table!IsDefined(n) /\ Mutate(Table!Without(Table!Position(n)))
    BY <1>3 DEF UndefMacro
  <2> DEFINE p == Table!Position(n)
  <2>2. p \in 1 .. Len(macros)
    BY <1>1, <2>1, PositionInTable
  <2>3. Table!Without(p) \in Seq(Table!Entry)
    <3> HIDE DEF p
    <3>1. Len(macros) - 1 \in Nat
      BY <1>1, <2>2
    <3>2. \A k \in 1 .. Len(macros) - 1 :
             (IF k = p THEN macros[Len(macros)] ELSE macros[k]) \in Table!Entry
      BY <1>1, <2>2
    <3> QED
      BY <3>1, <3>2 DEF Table!Without
  <2> HIDE DEF p
  <2>4. Mutate(Table!Without(p))
    BY <2>1 DEF p
  <2>5. /\ IInv' /\ OneFrame
        /\ expansionStack = <<>> /\ mutationSerial < MaxMutations
        /\ macros' = Table!Without(p) /\ mutationSerial' = mutationSerial + 1
        /\ UNCHANGED <<expansionStack, tableError>>
    BY <2>3, <2>4, MutateStep
  <2>6. Table!Undef(n)
    BY <2>1, <2>5 DEF Table!Undef, p
  <2> QED
    BY <2>5, <2>6 DEF TableStep, Table!Next
<1> QED
  BY <1>2, <1>3


-----------------------------------------------------------------------------
(* The theorems.                                                           *)

LEMMA InitBalanced == Init => IInv
<1> SUFFICES ASSUME Init PROVE IInv
  OBVIOUS
<1>1. /\ macros = <<>> /\ calls = <<>> /\ expansionStack = <<>> /\ unit \in Unit
      /\ phase = "idle"
  BY DEF Init
<1>2. Held(<<>>, <<>>)
  <2> DEFINE base == [k \in 1 .. 1 |-> 0]
  <2>1. base \in [1 .. Len(<<>>) + 1 -> 0 .. Len(<<>>)]
    OBVIOUS
  <2>2. base[1] = 0 /\ base[Len(<<>>) + 1] = Len(<<>>) /\ Len(<<>>) = 0
    OBVIOUS
  <2> HIDE DEF base
  <2> QED
    BY <2>1, <2>2 DEF Held
<1>3. \E A : <<>> \in Seq(A)
  <2>1. <<>> \in Seq({})
    OBVIOUS
  <2> QED
    BY <2>1
<1>4. \A k \in 1 .. Len(<<>>) : FALSE
  OBVIOUS
<1>5. \A k \in 1 .. Len(<<>>) - 1 : FALSE
  OBVIOUS
<1>6. <<>> \in Seq(Nat) /\ <<>> \in Seq(Table!Entry)
  OBVIOUS
<1>7. Balanced(calls, expansionStack, Len(macros))
  BY <1>1, <1>2, <1>3, <1>4, <1>5, <1>6 DEF Balanced
<1>8. (calls # <<>>) = (phase = "expanding")
  BY <1>1
<1> QED
  BY <1>1, <1>6, <1>7, <1>8 DEF IInv

LEMMA StepBalanced == IInv /\ [Next]_vars => IInv' /\ TableStep
<1> SUFFICES ASSUME IInv, [Next]_vars PROVE IInv' /\ TableStep
  OBVIOUS
<1>1. CASE Work
  <2>1. CASE Scan
    BY <2>1, ScanStep
  <2>2. CASE ExpandArgument \/ ReturnArgument \/ ArgumentsExpanded \/ ReturnBody
    BY <2>2, ArgumentStep
  <2>3. CASE FinishObject
    BY <2>3, FinishObjectStep
  <2>4. CASE FinishFunction
    BY <2>4, FinishFunctionStep
  <2>5. CASE FinishBoundary
    BY <2>5, FinishBoundaryStep
  <2>6. CASE LeaveHost
    BY <2>6, LeaveHostStep
  <2>7. CASE Accumulate
    BY <2>7, AccumulateStep
  <2>8. CASE FailActivation
    BY <2>8, FailActivationStep
  <2>9. CASE FailArgument
    BY <2>9, FailArgumentStep
  <2>10. CASE FailBody
    BY <2>10, FailBodyStep
  <2>11. CASE FailHost
    BY <2>11, FailHostStep
  <2>12. CASE EndChunk
    BY <2>12, EndChunkStep
  <2> QED
    BY <1>1, <2>1, <2>2, <2>3, <2>4, <2>5, <2>6, <2>7, <2>8, <2>9, <2>10, <2>11, <2>12
       DEF Work
<1>2. CASE DefineMacro \/ UndefMacro
  BY <1>2, DirectiveStep
<1>3. CASE BeginChunk
  BY <1>3, BeginChunkStep
<1>4. CASE Deliver
  BY <1>4, DeliverStep
<1>5. CASE UNCHANGED vars
  <2>1. /\ macros' = macros /\ expansionStack' = expansionStack /\ UNCHANGED Table!vars
        /\ unit' = unit /\ calls' = calls /\ phase' = phase
    BY <1>5 DEF vars, tableVars, Table!vars
  <2>2. IInv'
    BY <2>1 DEF IInv, Table!Entry
  <2> QED
    BY <2>1, <2>2 DEF TableStep, OneFrame
<1> QED
  BY <1>1, <1>2, <1>3, <1>4, <1>5 DEF Next

\* At every moment the expansion stack is what the activations of
\* macro_expander_expand hold of it: pushes and pops match on the normal
\* path, across the end of a replacement and on every error path.
THEOREM StackBalanced == Spec => []IInv
<1>1. IInv /\ [Next]_vars => IInv'
  BY StepBalanced
<1> QED
  BY InitBalanced, <1>1, PTL DEF Spec

\* When no expansion runs, after a chunk that was delivered as after one
\* that failed, no macro is left on the expansion stack.
THEOREM StackEmptyBetween == Spec => [](phase # "expanding" => expansionStack = <<>>)
<1>1. IInv => (phase # "expanding" => expansionStack = <<>>)
  BY NothingExpanding
<1> QED
  BY StackBalanced, <1>1, PTL

\* macro_table_pop_expansion searches the stack for the entry and drops what
\* lies above it, but the expander never makes it drop more than one frame:
\* a step pushes or pops at most the innermost one.
THEOREM OneFrameAtATime == Spec => [][OneFrame]_vars
<1>1. IInv /\ [Next]_vars => [OneFrame]_vars
  BY StepBalanced DEF TableStep
<1> QED
  BY StackBalanced, <1>1, PTL DEF Spec

\* The expander keeps the contract of the macro table: it pushes and pops
\* entries that are in the array, and a directive changes the array only
\* while no frame points into it.
THEOREM ExpanderImplementsTable == Spec => ImplementsTable
<1>1. Init => Table!Init
  BY DEF Init, Table!Init
<1>2. IInv /\ [Next]_vars => [Table!Next]_(Table!vars)
  BY StepBalanced DEF TableStep
<1> QED
  BY StackBalanced, <1>1, <1>2, PTL DEF Spec, ImplementsTable, Table!Spec
=============================================================================
