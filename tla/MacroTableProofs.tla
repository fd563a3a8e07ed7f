--------------------------- MODULE MacroTableProofs ---------------------------
(***************************************************************************)
(* The macro table keeps its promises for any names, definitions, limit    *)
(* and number of changes.  The invariant IInv adds to the checked          *)
(* properties that a memo is never younger than the table, so that an      *)
(* advance of the serial outdates it.                                      *)
(***************************************************************************)
EXTENDS MacroTable, SequenceTheorems, TLAPS

MemoNotNewer == memo.serial <= mutationSerial

IInv ==
    /\ TypeOK
    /\ UniqueNames
    /\ NoNestedExpansion
    /\ ExpansionBounded
    /\ MemoNotNewer
    /\ MemoSound

-------------------------------------------------------------------------------
(* The array.                                                              *)

LEMMA EntryFields ==
    \A e \in Entry : e.name \in Name /\ e.definition \in Definition
BY DEF Entry

\* A search in an array with unique names stops at the entry of the name.
LEMMA PositionOf ==
    ASSUME macros \in Seq(Entry), UniqueNames, NEW i \in DOMAIN macros
    PROVE  /\ IsDefined(macros[i].name)
           /\ Position(macros[i].name) = i
           /\ Lookup(macros[i].name) = macros[i].definition
<1> DEFINE n == macros[i].name
<1>1. Holds(n, i)
  BY DEF Holds
<1>2. \A j \in DOMAIN macros : Holds(n, j) => j = i
  BY DEF Holds, UniqueNames
<1>3. DOMAIN macros \subseteq Nat
  OBVIOUS
<1>4. Holds(n, i) /\ \A j \in DOMAIN macros : Holds(n, j) => i <= j
  BY <1>1, <1>2, <1>3
<1>5. IsDefined(n)
  BY <1>1 DEF IsDefined
<1>6. /\ Position(n) \in DOMAIN macros
      /\ Holds(n, Position(n))
  BY <1>4 DEF Position
<1>7. Position(n) = i
  BY <1>2, <1>6
<1> QED
  BY <1>5, <1>7 DEF Lookup

\* The same search, for a name that is defined.
LEMMA PositionDefined ==
    ASSUME macros \in Seq(Entry), UniqueNames, NEW n, IsDefined(n)
    PROVE  /\ Position(n) \in DOMAIN macros
           /\ macros[Position(n)].name = n
           /\ Lookup(n) = macros[Position(n)].definition
<1>1. PICK i \in DOMAIN macros : Holds(n, i)
  BY DEF IsDefined
<1>2. macros[i].name = n
  BY <1>1 DEF Holds
<1> QED
  BY <1>2, PositionOf

-------------------------------------------------------------------------------
\* What #define does to the array: the entry of the name is written, or a
\* new one is appended.
LEMMA UpsertShape ==
    ASSUME macros \in Seq(Entry), UniqueNames, NEW n \in Name, NEW d \in Definition
    PROVE  /\ Upsert(n, d) \in Seq(Entry)
           /\ \E p \in DOMAIN Upsert(n, d) :
                 /\ Upsert(n, d)[p] = [name |-> n, definition |-> d]
                 /\ \A i \in DOMAIN macros :
                       /\ i \in DOMAIN Upsert(n, d)
                       /\ i # p => /\ Upsert(n, d)[i] = macros[i]
                                   /\ macros[i].name # n
                 /\ DOMAIN Upsert(n, d) \subseteq DOMAIN macros \cup {p}
                 /\ p \in DOMAIN macros => macros[p].name = n
<1> DEFINE e == [name |-> n, definition |-> d]
<1>1. e \in Entry
  BY DEF Entry
<1>2. CASE IsDefined(n)
  <2> DEFINE p == Position(n)
  <2>1. p \in DOMAIN macros /\ macros[p].name = n
    BY <1>2, PositionDefined
  <2>2. Upsert(n, d) = [macros EXCEPT ![p] = e]
    BY <1>2 DEF Upsert
  <2>3. \A i \in DOMAIN macros : i # p => macros[i].name # n
    BY <2>1 DEF UniqueNames
  <2> HIDE DEF p, e
  <2>4. [macros EXCEPT ![p] = e] \in Seq(Entry)
    BY <1>1, <2>1
  <2>5. /\ DOMAIN [macros EXCEPT ![p] = e] = DOMAIN macros
        /\ [macros EXCEPT ![p] = e][p] = e
        /\ \A i \in DOMAIN macros : i # p => [macros EXCEPT ![p] = e][i] = macros[i]
    BY <2>1
  <2> QED
    BY <2>1, <2>2, <2>3, <2>4, <2>5 DEF e
<1>3. CASE ~ IsDefined(n)
  <2> DEFINE p == Len(macros) + 1
  <2>1. Upsert(n, d) = Append(macros, e)
    BY <1>3 DEF Upsert
  <2>2. \A i \in DOMAIN macros : macros[i].name # n
    BY <1>3 DEF IsDefined, Holds
  <2> HIDE DEF e
  <2>3. /\ Append(macros, e) \in Seq(Entry)
        /\ Len(Append(macros, e)) = Len(macros) + 1
        /\ Append(macros, e)[p] = e
        /\ \A i \in 1 .. Len(macros) : Append(macros, e)[i] = macros[i]
    BY <1>1
  <2>4. DOMAIN macros = 1 .. Len(macros) /\ Len(macros) \in Nat
    OBVIOUS
  <2>5. DOMAIN Append(macros, e) = 1 .. p
    BY <2>3
  <2> QED
    BY <2>1, <2>2, <2>3, <2>4, <2>5 DEF e
<1> QED
  BY <1>2, <1>3

\* What #undef does to the array: every other entry is still there, under
\* one position or another, and nothing else is.
LEMMA WithoutShape ==
    ASSUME macros \in Seq(Entry), NEW p \in DOMAIN macros
    PROVE  /\ Without(p) \in Seq(Entry)
           /\ DOMAIN Without(p) = 1 .. Len(macros) - 1
           /\ \A k \in DOMAIN Without(p) :
                 \E i \in DOMAIN macros :
                     /\ i # p
                     /\ Without(p)[k] = macros[i]
                     /\ i = IF k = p THEN Len(macros) ELSE k
           /\ \A i \in DOMAIN macros :
                 i # p => \E k \in DOMAIN Without(p) : Without(p)[k] = macros[i]
<1>1. PICK n \in Nat : n = Len(macros)
  OBVIOUS
<1>2. DOMAIN macros = 1 .. n /\ p \in 1 .. n
  BY <1>1
<1>3. Without(p) = [k \in 1 .. n - 1 |-> IF k = p THEN macros[n] ELSE macros[k]]
  BY <1>1 DEF Without
<1>4. \A k \in 1 .. n - 1 : (IF k = p THEN macros[n] ELSE macros[k]) \in Entry
  BY <1>1, <1>2
<1>5. n - 1 \in Nat
  BY <1>1, <1>2
<1>6. Without(p) \in Seq(Entry)
  BY <1>3, <1>4, <1>5, IsASeq
<1>7. DOMAIN Without(p) = 1 .. n - 1
  BY <1>3
<1>8. ASSUME NEW k \in 1 .. n - 1
      PROVE  \E i \in DOMAIN macros :
                 /\ i # p
                 /\ Without(p)[k] = macros[i]
                 /\ i = IF k = p THEN Len(macros) ELSE k
  <2>1. CASE k = p
    <3>1. n \in DOMAIN macros /\ n # p /\ Without(p)[k] = macros[n]
      BY <1>1, <1>2, <1>3, <2>1
    <3> QED
      BY <1>1, <2>1, <3>1
  <2>2. CASE k # p
    <3>1. k \in DOMAIN macros /\ Without(p)[k] = macros[k]
      BY <1>1, <1>2, <1>3, <2>2
    <3> QED
      BY <2>2, <3>1
  <2> QED
    BY <2>1, <2>2
<1>9. ASSUME NEW i \in DOMAIN macros, i # p
      PROVE  \E k \in DOMAIN Without(p) : Without(p)[k] = macros[i]
  <2>1. CASE i = n
    <3>1. p \in 1 .. n - 1 /\ Without(p)[p] = macros[i]
      BY <1>1, <1>2, <1>3, <1>9, <2>1
    <3> QED
      BY <1>7, <3>1
  <2>2. CASE i # n
    <3>1. i \in 1 .. n - 1 /\ Without(p)[i] = macros[i]
      BY <1>1, <1>2, <1>3, <1>9, <2>2
    <3> QED
      BY <1>7, <3>1
  <2> QED
    BY <2>1, <2>2
<1> QED
  BY <1>1, <1>6, <1>7, <1>8, <1>9

-------------------------------------------------------------------------------
(* Names and definitions after a change.                                   *)

\* The array after #define still has unique names.
LEMMA UpsertUnique ==
    ASSUME macros \in Seq(Entry), UniqueNames, NEW n \in Name, NEW d \in Definition,
           macros' = Upsert(n, d)
    PROVE  UniqueNames'
<1>1. PICK p \in DOMAIN macros' :
         /\ macros'[p] = [name |-> n, definition |-> d]
         /\ \A i \in DOMAIN macros :
               /\ i \in DOMAIN macros'
               /\ i # p => macros'[i] = macros[i] /\ macros[i].name # n
         /\ DOMAIN macros' \subseteq DOMAIN macros \cup {p}
  BY UpsertShape
<1>2. macros'[p].name = n
  BY <1>1
<1>3. \A i \in DOMAIN macros' : i # p => i \in DOMAIN macros /\ macros'[i] = macros[i]
  BY <1>1
<1>4. \A i \in DOMAIN macros' : i # p => macros'[i].name # n
  BY <1>1, <1>3
<1> QED
  BY <1>2, <1>3, <1>4 DEF UniqueNames

\* The array after #undef still has unique names.
LEMMA WithoutUnique ==
    ASSUME macros \in Seq(Entry), UniqueNames, NEW p \in DOMAIN macros,
           macros' = Without(p)
    PROVE  UniqueNames'
<1> SUFFICES ASSUME NEW j \in DOMAIN macros', NEW k \in DOMAIN macros',
                    macros'[j].name = macros'[k].name
             PROVE  j = k
  BY DEF UniqueNames
<1>1. PICK a \in DOMAIN macros :
         macros'[j] = macros[a] /\ a = IF j = p THEN Len(macros) ELSE j
  BY WithoutShape
<1>2. PICK b \in DOMAIN macros :
         macros'[k] = macros[b] /\ b = IF k = p THEN Len(macros) ELSE k
  BY WithoutShape
<1>3. a = b
  BY <1>1, <1>2 DEF UniqueNames
<1>4. j \in 1 .. Len(macros) - 1 /\ k \in 1 .. Len(macros) - 1
  BY WithoutShape
<1>5. Len(macros) \in Nat
  OBVIOUS
<1> QED
  BY <1>1, <1>2, <1>3, <1>4, <1>5

\* A definition in the array after a change is what Lookup finds.
LEMMA PositionOfNext ==
    ASSUME (macros \in Seq(Entry))', UniqueNames', NEW n, NEW i \in DOMAIN macros',
           macros'[i].name = n
    PROVE  Lookup(n)' = macros'[i].definition
<1>1. Holds(n, i)' /\ (\A j \in DOMAIN macros' : Holds(n, j)' => j = i)
  BY DEF Holds, UniqueNames
<1>2. DOMAIN macros' \subseteq Nat
  OBVIOUS
<1>3. \A j \in DOMAIN macros' : Holds(n, j)' => i <= j
  BY <1>1, <1>2
<1>4. IsDefined(n)'
  BY <1>1 DEF IsDefined
<1>5. Position(n)' \in DOMAIN macros' /\ Holds(n, Position(n))'
  BY <1>1, <1>3 DEF Position
<1>6. Position(n)' = i
  BY <1>1, <1>5
<1> QED
  BY <1>4, <1>6 DEF Lookup

\* A name that is nowhere in the array after a change is undefined.
LEMMA AbsentNext ==
    ASSUME NEW n, \A i \in DOMAIN macros' : macros'[i].name # n
    PROVE  Lookup(n)' = Undefined
BY DEF Lookup, IsDefined, Holds

\* #define gives its name the new definition and touches no other name.
LEMMA DefineExact ==
    ASSUME TypeOK, TypeOK', UniqueNames, UniqueNames',
           NEW n \in Name, NEW d \in Definition, macros' = Upsert(n, d)
    PROVE  /\ Lookup(n)' = d
           /\ \A m \in Name \ {n} : Lookup(m)' = Lookup(m)
<1>0. macros \in Seq(Entry) /\ (macros \in Seq(Entry))'
  BY DEF TypeOK
<1>1. PICK p \in DOMAIN macros' :
         /\ macros'[p] = [name |-> n, definition |-> d]
         /\ \A i \in DOMAIN macros :
               /\ i \in DOMAIN macros'
               /\ i # p => macros'[i] = macros[i] /\ macros[i].name # n
         /\ DOMAIN macros' \subseteq DOMAIN macros \cup {p}
         /\ p \in DOMAIN macros => macros[p].name = n
  BY <1>0, UpsertShape
<1>2. macros'[p].name = n /\ macros'[p].definition = d
  BY <1>1
<1>3. Lookup(n)' = d
  BY <1>0, <1>2, PositionOfNext
<1>4. ASSUME NEW m \in Name \ {n}
      PROVE  Lookup(m)' = Lookup(m)
  <2>1. CASE IsDefined(m)
    <3>1. PICK i \in DOMAIN macros : i = Position(m)
      BY <1>0, <2>1, PositionDefined
    <3>2. macros[i].name = m /\ Lookup(m) = macros[i].definition
      BY <1>0, <2>1, <3>1, PositionDefined
    <3>3. i # p
      BY <1>1, <1>4, <3>2
    <3>4. i \in DOMAIN macros' /\ macros'[i] = macros[i]
      BY <1>1, <3>3
    <3>5. macros'[i].name = m
      BY <3>2, <3>4
    <3>6. Lookup(m)' = macros'[i].definition
      BY <1>0, <3>4, <3>5, PositionOfNext
    <3> QED
      BY <3>2, <3>4, <3>6
  <2>2. CASE ~ IsDefined(m)
    <3>1. \A i \in DOMAIN macros : macros[i].name # m
      BY <2>2 DEF IsDefined, Holds
    <3>2. \A i \in DOMAIN macros' : macros'[i].name # m
      BY <1>1, <1>2, <1>4, <3>1
    <3>3. Lookup(m)' = Undefined
      BY <3>2, AbsentNext
    <3> QED
      BY <2>2, <3>3 DEF Lookup
  <2> QED
    BY <2>1, <2>2
<1> QED
  BY <1>3, <1>4

\* #undef makes its name undefined and touches no other name.
LEMMA UndefExact ==
    ASSUME TypeOK, TypeOK', UniqueNames, UniqueNames',
           NEW n \in Name, IsDefined(n), macros' = Without(Position(n))
    PROVE  /\ Lookup(n)' = Undefined
           /\ \A m \in Name \ {n} : Lookup(m)' = Lookup(m)
<1>0. macros \in Seq(Entry) /\ (macros \in Seq(Entry))'
  BY DEF TypeOK
<1>1. PICK p \in DOMAIN macros : p = Position(n)
  BY <1>0, PositionDefined
<1>2. macros[p].name = n
  BY <1>0, <1>1, PositionDefined
<1>3. /\ \A k \in DOMAIN macros' : \E i \in DOMAIN macros : i # p /\ macros'[k] = macros[i]
      /\ \A i \in DOMAIN macros : i # p => \E k \in DOMAIN macros' : macros'[k] = macros[i]
  <2>1. macros' = Without(p)
    BY <1>1
  <2>2. \A k \in DOMAIN Without(p) :
           \E i \in DOMAIN macros : i # p /\ Without(p)[k] = macros[i]
    BY <1>0, WithoutShape
  <2>3. \A i \in DOMAIN macros :
           i # p => \E k \in DOMAIN Without(p) : Without(p)[k] = macros[i]
    BY <1>0, WithoutShape
  <2> QED
    BY <2>1, <2>2, <2>3
<1>4. \A i \in DOMAIN macros : i # p => macros[i].name # n
  BY <1>2 DEF UniqueNames
<1>5. \A k \in DOMAIN macros' : macros'[k].name # n
  BY <1>3, <1>4
<1>6. Lookup(n)' = Undefined
  BY <1>5, AbsentNext
<1>7. ASSUME NEW m \in Name \ {n}
      PROVE  Lookup(m)' = Lookup(m)
  <2>1. CASE IsDefined(m)
    <3>1. PICK i \in DOMAIN macros : i = Position(m)
      BY <1>0, <2>1, PositionDefined
    <3>2. macros[i].name = m /\ Lookup(m) = macros[i].definition
      BY <1>0, <2>1, <3>1, PositionDefined
    <3>3. i # p
      BY <1>2, <1>7, <3>2
    <3>4. PICK k \in DOMAIN macros' : macros'[k] = macros[i]
      BY <1>3, <3>3
    <3>5. macros'[k].name = m
      BY <3>2, <3>4
    <3>6. Lookup(m)' = macros'[k].definition
      BY <1>0, <3>4, <3>5, PositionOfNext
    <3> QED
      BY <3>2, <3>4, <3>6
  <2>2. CASE ~ IsDefined(m)
    <3>1. \A i \in DOMAIN macros : macros[i].name # m
      BY <2>2 DEF IsDefined, Holds
    <3>2. \A k \in DOMAIN macros' : macros'[k].name # m
      BY <1>3, <3>1
    <3>3. Lookup(m)' = Undefined
      BY <3>2, AbsentNext
    <3> QED
      BY <2>2, <3>3 DEF Lookup
  <2> QED
    BY <2>1, <2>2
<1> QED
  BY <1>6, <1>7

-------------------------------------------------------------------------------
(* The expansion stack.                                                    *)

\* A prefix of the stack is a stack of the same frames.
LEMMA StackPrefix ==
    ASSUME TypeOK, NEW k \in 0 .. Len(expansionStack) - 1
    PROVE  /\ SubSeq(expansionStack, 1, k) \in Seq(Nat)
           /\ Len(SubSeq(expansionStack, 1, k)) = k
           /\ DOMAIN SubSeq(expansionStack, 1, k) = 1 .. k
           /\ \A j \in 1 .. k : /\ j \in DOMAIN expansionStack
                                /\ SubSeq(expansionStack, 1, k)[j] = expansionStack[j]
<1>1. PICK n \in Nat : n = Len(expansionStack)
  BY DEF TypeOK
<1>2. expansionStack \in Seq(Nat) /\ DOMAIN expansionStack = 1 .. n
  BY <1>1 DEF TypeOK
<1>3. k \in Nat /\ k <= n
  BY <1>1
<1> QED
  BY <1>1, <1>2, <1>3

-------------------------------------------------------------------------------
(* The invariant.                                                          *)

LEMMA InitIInv == Init => IInv
<1> SUFFICES ASSUME Init PROVE IInv
  OBVIOUS
<1> USE MacroTableAssumption DEF Init
<1>1. TypeOK
  BY DEF TypeOK
<1>2. UniqueNames /\ NoNestedExpansion
  BY DEF UniqueNames, NoNestedExpansion
<1>3. ExpansionBounded
  BY DEF ExpansionBounded
<1>4. MemoNotNewer /\ MemoSound
  BY DEF MemoNotNewer, MemoSound, MemoCurrent
<1> QED
  BY <1>1, <1>2, <1>3, <1>4 DEF IInv

\* An empty expansion stack says nothing about the array.
LEMMA EmptyStack ==
    ASSUME expansionStack' = <<>>
    PROVE  /\ NoNestedExpansion'
           /\ ExpansionBounded'
           /\ (expansionStack \in Seq(Nat))'
           /\ \A k \in DOMAIN expansionStack' : expansionStack'[k] \in DOMAIN macros'
BY MacroTableAssumption DEF NoNestedExpansion, ExpansionBounded

\* A change of the array outdates the memo.
LEMMA MemoOutdated ==
    ASSUME TypeOK, MemoNotNewer, mutationSerial' = mutationSerial + 1, memo' = memo
    PROVE  MemoNotNewer' /\ MemoSound'
<1>1. mutationSerial \in Nat /\ memo.serial \in Nat
  BY MacroTableAssumption DEF TypeOK
<1>2. memo.serial # mutationSerial'
  BY <1>1 DEF MemoNotNewer
<1> QED
  BY <1>1, <1>2 DEF MemoNotNewer, MemoSound, MemoCurrent

\* A step that leaves the array, the serial and the memo alone keeps what
\* is said of them.
LEMMA ArrayUnchanged ==
    ASSUME UniqueNames, MemoNotNewer, MemoSound,
           UNCHANGED <<macros, mutationSerial, memo>>
    PROVE  UniqueNames' /\ MemoNotNewer' /\ MemoSound'
BY DEF UniqueNames, MemoNotNewer, MemoSound, MemoCurrent, CanCloneDirect, IsDefined, Holds

LEMMA NextIInv == IInv /\ [Next]_vars => IInv'
<1> SUFFICES ASSUME IInv, [Next]_vars PROVE IInv'
  OBVIOUS
<1>0. /\ TypeOK /\ UniqueNames /\ NoNestedExpansion /\ ExpansionBounded
      /\ MemoNotNewer /\ MemoSound
  BY DEF IInv
<1>t. /\ macros \in Seq(Entry)
      /\ mutationSerial \in 0..MaxMutations
      /\ expansionStack \in Seq(Nat)
      /\ \A k \in DOMAIN expansionStack : expansionStack[k] \in DOMAIN macros
      /\ lastError \in {"none", "recursion", "depth"}
      /\ memo \in [valid : BOOLEAN, serial : 0..MaxMutations, result : BOOLEAN]
  BY <1>0 DEF TypeOK
<1>1. ASSUME NEW n \in Name, NEW d \in Definition, Define(n, d)
      PROVE  IInv'
  <2>1. /\ macros' = Upsert(n, d)
        /\ mutationSerial < MaxMutations
        /\ mutationSerial' = mutationSerial + 1
        /\ expansionStack = <<>> /\ expansionStack' = expansionStack
        /\ lastError' = lastError /\ memo' = memo
    BY <1>1 DEF Define
  <2>2. (macros \in Seq(Entry))'
    BY <1>0, <1>t, <2>1, UpsertShape
  <2>3. UniqueNames'
    BY <1>0, <1>t, <2>1, UpsertUnique
  <2>4. /\ NoNestedExpansion' /\ ExpansionBounded'
        /\ (expansionStack \in Seq(Nat))'
        /\ \A k \in DOMAIN expansionStack' : expansionStack'[k] \in DOMAIN macros'
    BY <2>1, EmptyStack
  <2>5. MemoNotNewer' /\ MemoSound'
    BY <1>0, <2>1, MemoOutdated
  <2>6. mutationSerial' \in 0..MaxMutations
    BY <1>t, <2>1, MacroTableAssumption
  <2>7. TypeOK'
    BY <1>t, <2>1, <2>2, <2>4, <2>6 DEF TypeOK
  <2> QED
    BY <2>3, <2>4, <2>5, <2>7 DEF IInv
<1>2. ASSUME NEW n \in Name, Undef(n)
      PROVE  IInv'
  <2>1. /\ macros' = Without(Position(n)) /\ IsDefined(n)
        /\ mutationSerial < MaxMutations
        /\ mutationSerial' = mutationSerial + 1
        /\ expansionStack = <<>> /\ expansionStack' = expansionStack
        /\ lastError' = lastError /\ memo' = memo
    BY <1>2 DEF Undef
  <2>2. PICK p \in DOMAIN macros : p = Position(n)
    BY <1>0, <1>t, <2>1, PositionDefined
  <2>3. macros' = Without(p)
    BY <2>1, <2>2
  <2>4. (macros \in Seq(Entry))'
    BY <1>t, <2>3, WithoutShape
  <2>5. UniqueNames'
    BY <1>0, <1>t, <2>3, WithoutUnique
  <2>6. /\ NoNestedExpansion' /\ ExpansionBounded'
        /\ (expansionStack \in Seq(Nat))'
        /\ \A k \in DOMAIN expansionStack' : expansionStack'[k] \in DOMAIN macros'
    BY <2>1, EmptyStack
  <2>7. MemoNotNewer' /\ MemoSound'
    BY <1>0, <2>1, MemoOutdated
  <2>8. mutationSerial' \in 0..MaxMutations
    BY <1>t, <2>1, MacroTableAssumption
  <2>9. TypeOK'
    BY <1>t, <2>1, <2>4, <2>6, <2>8 DEF TypeOK
  <2> QED
    BY <2>5, <2>6, <2>7, <2>9 DEF IInv
<1>3. ASSUME NEW i \in DOMAIN macros, PushExpansion(i)
      PROVE  IInv'
  <2>1. UNCHANGED <<macros, mutationSerial, memo>>
    BY <1>3 DEF PushExpansion
  <2>2. UniqueNames' /\ MemoNotNewer' /\ MemoSound'
    BY <1>0, <2>1, ArrayUnchanged
  <2>3. lastError' \in {"none", "recursion", "depth"}
    BY <1>3 DEF PushExpansion, PushError
  <2>4. CASE PushError(i) = "none"
    <3>1. expansionStack' = Append(expansionStack, i)
      BY <1>3, <2>4 DEF PushExpansion
    <3>2. PICK l \in Nat : l = Len(expansionStack)
      BY <1>t
    <3>3. i \in Nat
      BY <1>t
    <3>4. /\ expansionStack' \in Seq(Nat)
          /\ Len(expansionStack') = l + 1
          /\ DOMAIN expansionStack' = 1 .. l + 1
          /\ expansionStack'[l + 1] = i
          /\ \A k \in 1 .. l : expansionStack'[k] = expansionStack[k]
      BY <1>t, <3>1, <3>2, <3>3
    <3>5. DOMAIN expansionStack = 1 .. l
      BY <1>t, <3>2
    <3>6. \A k \in DOMAIN expansionStack' : expansionStack'[k] \in DOMAIN macros'
      <4>1. \A k \in 1 .. l : expansionStack'[k] \in DOMAIN macros
        BY <1>t, <3>4, <3>5
      <4>2. \A k \in 1 .. l + 1 : k \in 1 .. l \/ k = l + 1
        BY <3>2
      <4> QED
        BY <2>1, <3>4, <4>1, <4>2
    <3>7. TypeOK'
      BY <1>t, <2>1, <2>3, <3>4, <3>6 DEF TypeOK
    <3>8. ~ AtLimit /\ ~ IsExpanding(macros[i].name)
      BY <2>4 DEF PushError
    <3>9. ExpansionBounded'
      <4>1. ExpansionLimit > 0 => ~ (l >= ExpansionLimit)
        BY <3>2, <3>8 DEF AtLimit
      <4> QED
        BY <3>2, <3>4, <4>1, MacroTableAssumption DEF ExpansionBounded
    <3>10. \A k \in 1 .. l : macros[expansionStack[k]].name # macros[i].name
      BY <3>5, <3>8 DEF IsExpanding
    <3>11. NoNestedExpansion'
      <4> SUFFICES ASSUME NEW j \in 1 .. l + 1, NEW k \in 1 .. l + 1,
                          macros[expansionStack'[j]].name = macros[expansionStack'[k]].name
                   PROVE  j = k
        BY <2>1, <3>4 DEF NoNestedExpansion
      <4>1. CASE j \in 1 .. l /\ k \in 1 .. l
        BY <1>0, <3>4, <3>5, <4>1 DEF NoNestedExpansion
      <4>2. CASE j = l + 1 /\ k \in 1 .. l
        BY <3>4, <3>10, <4>2
      <4>3. CASE j \in 1 .. l /\ k = l + 1
        BY <3>4, <3>10, <4>3
      <4>4. \A m \in 1 .. l + 1 : m \in 1 .. l \/ m = l + 1
        BY <3>2
      <4> QED
        BY <4>1, <4>2, <4>3, <4>4
    <3> QED
      BY <2>2, <3>7, <3>9, <3>11 DEF IInv
  <2>5. CASE PushError(i) # "none"
    <3>1. expansionStack' = expansionStack
      BY <1>3, <2>5 DEF PushExpansion
    <3>2. TypeOK'
      BY <1>t, <2>1, <2>3, <3>1 DEF TypeOK
    <3>3. NoNestedExpansion' /\ ExpansionBounded'
      BY <1>0, <2>1, <3>1 DEF NoNestedExpansion, ExpansionBounded
    <3> QED
      BY <2>2, <3>2, <3>3 DEF IInv
  <2> QED
    BY <2>4, <2>5
<1>4. ASSUME NEW i \in DOMAIN macros, PopExpansion(i)
      PROVE  IInv'
  <2>1. UNCHANGED <<macros, mutationSerial, lastError, memo>>
    BY <1>4 DEF PopExpansion
  <2>2. UniqueNames' /\ MemoNotNewer' /\ MemoSound'
    BY <1>0, <2>1, ArrayUnchanged
  <2>3. PICK k \in 0 .. Len(expansionStack) - 1 :
           expansionStack' = SubSeq(expansionStack, 1, k)
    BY <1>4 DEF PopExpansion
  <2>4. /\ expansionStack' \in Seq(Nat)
        /\ Len(expansionStack') = k
        /\ DOMAIN expansionStack' = 1 .. k
        /\ \A j \in 1 .. k : /\ j \in DOMAIN expansionStack
                             /\ expansionStack'[j] = expansionStack[j]
    BY <1>0, <2>3, StackPrefix
  <2>5. \A j \in DOMAIN expansionStack' : expansionStack'[j] \in DOMAIN macros'
    BY <1>t, <2>1, <2>4
  <2>6. TypeOK'
    BY <1>t, <2>1, <2>4, <2>5 DEF TypeOK
  <2>7. NoNestedExpansion'
    BY <1>0, <2>1, <2>4 DEF NoNestedExpansion
  <2>8. ExpansionBounded'
    <3>1. Len(expansionStack) \in Nat
      BY <1>t
    <3> QED
      BY <1>0, <2>3, <2>4, <3>1, MacroTableAssumption DEF ExpansionBounded
  <2> QED
    BY <2>2, <2>6, <2>7, <2>8 DEF IInv
<1>5. CASE Consult
  <2>1. UNCHANGED <<macros, mutationSerial, expansionStack, lastError>>
    BY <1>5 DEF Consult
  <2>2. UniqueNames' /\ NoNestedExpansion' /\ ExpansionBounded'
    BY <1>0, <2>1 DEF UniqueNames, NoNestedExpansion, ExpansionBounded
  <2>3. CASE MemoCurrent
    <3>1. memo' = memo
      BY <1>5, <2>3 DEF Consult
    <3>2. MemoNotNewer' /\ MemoSound'
      BY <1>0, <2>1, <3>1, ArrayUnchanged
    <3>3. TypeOK'
      BY <1>t, <2>1, <3>1 DEF TypeOK
    <3> QED
      BY <2>2, <3>2, <3>3 DEF IInv
  <2>4. CASE ~ MemoCurrent
    <3>1. memo' = [valid |-> TRUE, serial |-> mutationSerial, result |-> CanCloneDirect]
      BY <1>5, <2>4 DEF Consult
    <3>2. CanCloneDirect \in BOOLEAN
      BY DEF CanCloneDirect
    <3>3. memo' \in [valid : BOOLEAN, serial : 0..MaxMutations, result : BOOLEAN]
      BY <1>t, <3>1, <3>2
    <3>4. TypeOK'
      BY <1>t, <2>1, <3>3 DEF TypeOK
    <3>5. memo'.serial = mutationSerial' /\ memo'.result = CanCloneDirect
      BY <2>1, <3>1
    <3>6. CanCloneDirect' = CanCloneDirect
      BY <2>1 DEF CanCloneDirect, IsDefined, Holds
    <3>7. MemoNotNewer'
      BY <1>t, <2>1, <3>5, MacroTableAssumption DEF MemoNotNewer
    <3>8. MemoSound'
      BY <3>5, <3>6 DEF MemoSound
    <3> QED
      BY <2>2, <3>4, <3>7, <3>8 DEF IInv
  <2> QED
    BY <2>3, <2>4
<1>6. CASE UNCHANGED vars
  <2>1. UNCHANGED <<macros, mutationSerial, expansionStack, lastError, memo>>
    BY <1>6 DEF vars
  <2>2. UniqueNames' /\ MemoNotNewer' /\ MemoSound'
    BY <1>0, <2>1, ArrayUnchanged
  <2>3. TypeOK' /\ NoNestedExpansion' /\ ExpansionBounded'
    BY <1>0, <2>1 DEF TypeOK, NoNestedExpansion, ExpansionBounded
  <2> QED
    BY <2>2, <2>3 DEF IInv
<1> QED
  BY <1>1, <1>2, <1>3, <1>4, <1>5, <1>6 DEF Next

LEMMA Invariance == Spec => []IInv
<1>1. Init => IInv
  BY InitIInv
<1>2. IInv /\ [Next]_vars => IInv'
  BY NextIInv
<1> QED
  BY <1>1, <1>2, PTL DEF Spec

\* The table, its stack and its memo always have the right types, and every
\* frame of the stack points at an entry of the array.
THEOREM TypeCorrect == Spec => []TypeOK
<1>1. IInv => TypeOK
  BY DEF IInv
<1> QED
  BY <1>1, Invariance, PTL

\* No two entries of the array have the same name, for any history of
\* definitions and undefinitions (macro_table_upsert, macro_table_undef).
THEOREM NamesUnique == Spec => []UniqueNames
<1>1. IInv => UniqueNames
  BY DEF IInv
<1> QED
  BY <1>1, Invariance, PTL

\* No macro is ever expanded inside its own expansion, and the stack stays
\* within the limit (macro_table_push_expansion).
THEOREM ExpansionSafe == Spec => [](NoNestedExpansion /\ ExpansionBounded)
<1>1. IInv => NoNestedExpansion /\ ExpansionBounded
  BY DEF IInv
<1> QED
  BY <1>1, Invariance, PTL

\* A memo made at the current serial is always right
\* (pp_summary_action_raw_range_can_clone_direct).
THEOREM MemoCorrect == Spec => []MemoSound
<1>1. IInv => MemoSound
  BY DEF IInv
<1> QED
  BY <1>1, Invariance, PTL

\* #define and #undef change what is found for their own name and for no
\* other (macro_table_upsert, macro_table_undef).
THEOREM ChangesCorrect == Spec => ChangesExact
<1>1. ASSUME IInv, IInv', NEW n \in Name, Undef(n)
      PROVE  /\ Lookup(n)' = Undefined
             /\ \A m \in Name \ {n} : Lookup(m)' = Lookup(m)
  BY <1>1, UndefExact DEF IInv, Undef
<1>2. ASSUME IInv, IInv', NEW n \in Name, NEW d \in Definition, Define(n, d)
      PROVE  /\ Lookup(n)' = d
             /\ \A m \in Name \ {n} : Lookup(m)' = Lookup(m)
  BY <1>2, DefineExact DEF IInv, Define
<1> DEFINE Exact ==
       /\ \A n \in Name :
             Undef(n) => /\ Lookup(n)' = Undefined
                         /\ \A m \in Name \ {n} : Lookup(m)' = Lookup(m)
       /\ \A n \in Name, d \in Definition :
             Define(n, d) => /\ Lookup(n)' = d
                             /\ \A m \in Name \ {n} : Lookup(m)' = Lookup(m)
<1>3. IInv /\ IInv' => Exact
  BY <1>1, <1>2
<1>4. IInv /\ IInv' => [Exact]_vars
  BY <1>3
<1>5. [][Exact]_vars <=> ChangesExact
  BY DEF ChangesExact
<1> HIDE DEF Exact
<1> QED
  BY <1>4, <1>5, Invariance, PTL

-------------------------------------------------------------------------------
(* The map.                                                                *)

Found == [n \in Name |-> Lookup(n)]

Active == [k \in DOMAIN expansionStack |-> macros[expansionStack[k]].name]

\* The names being expanded form a sequence as long as the stack.
LEMMA ActiveSeq ==
    ASSUME TypeOK
    PROVE  /\ Active \in Seq(Name)
           /\ Len(Active) = Len(expansionStack)
           /\ DOMAIN Active = 1 .. Len(expansionStack)
<1>1. PICK n \in Nat : n = Len(expansionStack)
  BY DEF TypeOK
<1>2. DOMAIN expansionStack = 1 .. n
  BY <1>1 DEF TypeOK
<1>3. \A k \in 1 .. n : macros[expansionStack[k]].name \in Name
  <2>0. \A i \in DOMAIN macros : macros[i] \in Entry
    BY DEF TypeOK
  <2>1. \A i \in DOMAIN macros : macros[i].name \in Name
    BY <2>0, EntryFields
  <2> QED
    BY <1>2, <2>1 DEF TypeOK
<1>4. Active = [k \in 1 .. n |-> macros[expansionStack[k]].name]
  BY <1>2 DEF Active
<1>5. Active \in Seq(Name)
  BY <1>3, <1>4, IsASeq
<1>6. DOMAIN Active = 1 .. n
  BY <1>4
<1>7. Len(Active) = n
  BY <1>1, <1>5, <1>6
<1> QED
  BY <1>1, <1>5, <1>6, <1>7

\* An empty stack expands no name.
LEMMA ActiveEmpty ==
    ASSUME TypeOK, expansionStack = <<>>
    PROVE  Active = <<>>
<1>1. Active \in Seq(Name) /\ Len(Active) = 0
  BY ActiveSeq
<1> QED
  BY <1>1

LEMMA ActiveSeqNext ==
    ASSUME TypeOK'
    PROVE  /\ Active' \in Seq(Name)
           /\ Len(Active') = Len(expansionStack')
           /\ DOMAIN Active' = 1 .. Len(expansionStack')
<1>1. PICK n \in Nat : n = Len(expansionStack')
  BY DEF TypeOK
<1>2. DOMAIN expansionStack' = 1 .. n
  BY <1>1 DEF TypeOK
<1>3. \A k \in 1 .. n : macros'[expansionStack'[k]].name \in Name
  <2>a. macros' \in Seq(Entry)
    BY DEF TypeOK, Entry
  <2>0. \A i \in DOMAIN macros' : macros'[i] \in Entry
    BY <2>a
  <2>1. \A i \in DOMAIN macros' : macros'[i].name \in Name
    BY <2>0, EntryFields
  <2> QED
    BY <1>2, <2>1 DEF TypeOK
<1>4. Active' = [k \in 1 .. n |-> macros'[expansionStack'[k]].name]
  BY <1>2 DEF Active
<1>5. Active' \in Seq(Name)
  BY <1>3, <1>4, IsASeq
<1>6. DOMAIN Active' = 1 .. n
  BY <1>4
<1>7. Len(Active') = n
  BY <1>1, <1>5, <1>6
<1> QED
  BY <1>1, <1>5, <1>6, <1>7

LEMMA ActiveEmptyNext ==
    ASSUME TypeOK', expansionStack' = <<>>
    PROVE  Active' = <<>>
<1>1. Active' \in Seq(Name) /\ Len(Active') = 0
  BY ActiveSeqNext
<1> QED
  BY <1>1

LEMMA InitMap == Init => Map!Init
<1> SUFFICES ASSUME Init PROVE Map!Init
  OBVIOUS
<1>1. TypeOK
  BY InitIInv DEF IInv
<1>2. Active = <<>>
  BY <1>1, ActiveEmpty DEF Init
<1>3. \A n \in Name : Lookup(n) = Undefined
  BY DEF Init, Lookup, IsDefined, Holds
<1> QED
  BY <1>2, <1>3 DEF Map!Init, Active

\* One changed name is one step of the map.
LEMMA ChangeMap ==
    ASSUME TypeOK, TypeOK', expansionStack = <<>>, expansionStack' = <<>>,
           NEW n \in Name, NEW d \in Definition \cup {Undefined},
           Lookup(n)' = d, \A m \in Name \ {n} : Lookup(m)' = Lookup(m)
    PROVE  Map!Change
<1>1. Active = <<>> /\ Active' = <<>>
  BY ActiveEmpty, ActiveEmptyNext
<1>2. Found' = [Found EXCEPT ![n] = d]
  BY DEF Found
<1>3. \E m \in Name, e \in Definition \cup {Undefined} : Found' = [Found EXCEPT ![m] = e]
  BY <1>2
<1> QED
  BY <1>1, <1>3 DEF Map!Change, Found, Active

\* A step that changes neither the array nor the stack is no step of the map.
LEMMA StutterMap ==
    ASSUME UNCHANGED <<macros, expansionStack>>
    PROVE  UNCHANGED Map!vars
<1>1. Found' = Found
  BY DEF Found, Lookup, IsDefined, Position, Holds
<1>2. Active' = Active
  BY DEF Active
<1> QED
  BY <1>1, <1>2 DEF Map!vars, Found, Active

LEMMA NextMap == IInv /\ IInv' /\ [Next]_vars => [Map!Next]_(Map!vars)
<1> SUFFICES ASSUME IInv, IInv', [Next]_vars PROVE [Map!Next]_(Map!vars)
  OBVIOUS
<1>0. /\ TypeOK /\ UniqueNames /\ NoNestedExpansion
      /\ TypeOK' /\ UniqueNames' /\ NoNestedExpansion'
  BY DEF IInv
<1>t. /\ macros \in Seq(Entry) /\ expansionStack \in Seq(Nat)
      /\ \A k \in DOMAIN expansionStack : expansionStack[k] \in DOMAIN macros
  BY <1>0 DEF TypeOK
<1>1. ASSUME NEW n \in Name, NEW d \in Definition, Define(n, d)
      PROVE  Map!Change
  <2>1. expansionStack = <<>> /\ expansionStack' = <<>> /\ macros' = Upsert(n, d)
    BY <1>1 DEF Define
  <2>2. Lookup(n)' = d /\ \A m \in Name \ {n} : Lookup(m)' = Lookup(m)
    BY <1>0, <2>1, DefineExact
  <2> QED
    BY <1>0, <2>1, <2>2, ChangeMap
<1>2. ASSUME NEW n \in Name, Undef(n)
      PROVE  Map!Change
  <2>1. /\ expansionStack = <<>> /\ expansionStack' = <<>>
        /\ IsDefined(n) /\ macros' = Without(Position(n))
    BY <1>2 DEF Undef
  <2>2. Lookup(n)' = Undefined /\ \A m \in Name \ {n} : Lookup(m)' = Lookup(m)
    BY <1>0, <2>1, UndefExact
  <2> QED
    BY <1>0, <2>1, <2>2, ChangeMap
<1>3. ASSUME NEW i \in DOMAIN macros, PushExpansion(i), PushError(i) = "none"
      PROVE  Map!Enter
  <2>1. macros' = macros /\ expansionStack' = Append(expansionStack, i)
    BY <1>3 DEF PushExpansion
  <2>2. PICK l \in Nat : l = Len(expansionStack)
    BY <1>t
  <2>3. i \in Nat
    BY <1>t
  <2>4. /\ DOMAIN expansionStack = 1 .. l /\ DOMAIN expansionStack' = 1 .. l + 1
        /\ Len(expansionStack') = l + 1
        /\ expansionStack'[l + 1] = i
        /\ \A k \in 1 .. l : expansionStack'[k] = expansionStack[k]
    BY <1>t, <2>1, <2>2, <2>3
  <2>5. /\ Active \in Seq(Name) /\ Len(Active) = l
        /\ Active' \in Seq(Name) /\ Len(Active') = l + 1
    BY <1>0, <2>2, <2>4, ActiveSeq, ActiveSeqNext
  <2> DEFINE n == macros[i].name
  <2>6. n \in Name /\ macros[i].definition \in Definition
    <3>1. macros[i] \in Entry
      BY <1>t
    <3> QED
      BY <3>1, EntryFields
  <2>7. Lookup(n) # Undefined
    BY <1>0, <1>t, <2>6, PositionOf, MacroTableAssumption
  <2>8. /\ \A k \in 1 .. l : Active'[k] = Active[k]
        /\ Active'[l + 1] = n
    <3>1. \A k \in 1 .. l : Active'[k] = macros[expansionStack[k]].name
      BY <2>1, <2>2, <2>4 DEF Active
    <3>2. \A k \in 1 .. l : Active[k] = macros[expansionStack[k]].name
      BY <2>4 DEF Active
    <3>3. Active'[l + 1] = n
      BY <2>1, <2>2, <2>4 DEF Active
    <3> QED
      BY <3>1, <3>2, <3>3
  <2>9. \A k \in DOMAIN Active : Active[k] # n
    <3>1. ~ IsExpanding(n)
      BY <1>3 DEF PushError
    <3> QED
      BY <3>1 DEF IsExpanding, Active
  <2> HIDE DEF n
  <2>10. Active' = Append(Active, n)
    <3>1. PICK a : a = Active
      OBVIOUS
    <3>2. PICK b : b = Active'
      OBVIOUS
    <3>3. a \in Seq(Name) /\ b \in Seq(Name) /\ Len(a) = l /\ Len(b) = l + 1
      BY <2>5, <3>1, <3>2
    <3>4. b[l + 1] = n /\ \A k \in 1 .. l : b[k] = a[k]
      BY <2>8, <3>1, <3>2
    <3>5. b = Append(a, n)
      <4>1. Append(a, n) \in Seq(Name) /\ Len(Append(a, n)) = l + 1
        BY <2>6, <3>3 DEF n
      <4>2. \A k \in 1 .. l + 1 : b[k] = Append(a, n)[k]
        <5>1. \A k \in 1 .. l + 1 : k \in 1 .. l \/ k = l + 1
          BY <2>2
        <5> QED
          BY <3>3, <3>4, <5>1
      <4> QED
        BY <3>3, <4>1, <4>2, SeqEqual
    <3> QED
      BY <3>1, <3>2, <3>5
  <2>11. Found' = Found
    BY <2>1 DEF Found, Lookup, IsDefined, Position, Holds
  <2>12. n \in Name /\ Found[n] # Undefined
    BY <2>6, <2>7 DEF Found, n
  <2> QED
    BY <2>9, <2>10, <2>11, <2>12 DEF Map!Enter, Found, Active
<1>4. ASSUME NEW i \in DOMAIN macros, PushExpansion(i), PushError(i) # "none"
      PROVE  UNCHANGED Map!vars
  BY <1>4, StutterMap DEF PushExpansion
<1>5. ASSUME NEW i \in DOMAIN macros, PopExpansion(i)
      PROVE  Map!Leave
  <2>1. macros' = macros
    BY <1>5 DEF PopExpansion
  <2>2. PICK k \in 0 .. Len(expansionStack) - 1 :
           expansionStack' = SubSeq(expansionStack, 1, k)
    BY <1>5 DEF PopExpansion
  <2>3. PICK l \in Nat : l = Len(expansionStack)
    BY <1>t
  <2>4. k \in Nat /\ k + 1 \in 1 .. l /\ k <= l
    BY <2>2, <2>3
  <2>5. /\ DOMAIN expansionStack = 1 .. l /\ DOMAIN expansionStack' = 1 .. k
        /\ Len(expansionStack') = k
        /\ \A j \in 1 .. k : expansionStack'[j] = expansionStack[j]
    BY <1>0, <1>t, <2>2, <2>3, StackPrefix
  <2>6. /\ Active \in Seq(Name) /\ Len(Active) = l
        /\ Active' \in Seq(Name) /\ Len(Active') = k
    BY <1>0, <2>3, <2>5, ActiveSeq, ActiveSeqNext
  <2>7. \A j \in 1 .. k : Active'[j] = Active[j]
    <3>1. \A j \in 1 .. k : j \in 1 .. l
      BY <2>3, <2>4
    <3>2. \A j \in 1 .. k : Active'[j] = macros[expansionStack[j]].name
      BY <2>1, <2>5 DEF Active
    <3>3. \A j \in 1 .. k : Active[j] = macros[expansionStack[j]].name
      BY <2>5, <3>1 DEF Active
    <3> QED
      BY <3>2, <3>3
  <2>8. Active' = SubSeq(Active, 1, (k + 1) - 1)
    <3>1. PICK a : a = Active
      OBVIOUS
    <3>2. PICK b : b = Active'
      OBVIOUS
    <3>3. a \in Seq(Name) /\ b \in Seq(Name) /\ Len(a) = l /\ Len(b) = k
      BY <2>6, <3>1, <3>2
    <3>4. \A j \in 1 .. k : b[j] = a[j]
      BY <2>7, <3>1, <3>2
    <3>5. /\ SubSeq(a, 1, k) \in Seq(Name) /\ Len(SubSeq(a, 1, k)) = k
          /\ \A j \in 1 .. k : SubSeq(a, 1, k)[j] = a[j]
      BY <2>3, <2>4, <3>3
    <3>6. b = SubSeq(a, 1, k)
      BY <3>3, <3>4, <3>5, SeqEqual
    <3>7. (k + 1) - 1 = k
      BY <2>4
    <3> QED
      BY <3>1, <3>2, <3>6, <3>7
  <2>9. \E j \in 1 .. Len(Active) : Active' = SubSeq(Active, 1, j - 1)
    BY <2>4, <2>6, <2>8
  <2>10. Found' = Found
    BY <2>1 DEF Found, Lookup, IsDefined, Position, Holds
  <2> QED
    BY <2>9, <2>10 DEF Map!Leave, Found, Active
<1>6. CASE Consult
  BY <1>6, StutterMap DEF Consult
<1>7. CASE UNCHANGED vars
  BY <1>7, StutterMap DEF vars
<1> QED
  BY <1>1, <1>2, <1>3, <1>4, <1>5, <1>6, <1>7 DEF Next, Map!Next

\* The table implements the map of names to definitions with its sequence
\* of names being expanded (src/Preprocessor/macro_table.c).
THEOREM MapRefinement == Spec => ImplementsMap
<1>1. Init => Map!Init
  BY InitMap
<1>2. IInv /\ IInv' /\ [Next]_vars => [Map!Next]_(Map!vars)
  BY NextMap
<1> QED
  BY <1>1, <1>2, Invariance, PTL DEF Spec, ImplementsMap, Map!Spec
===============================================================================
