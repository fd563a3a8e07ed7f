------------------------------ MODULE MacroTable ------------------------------
(***************************************************************************)
(* The macro table of src/Preprocessor/macro_table.c: an array of macro    *)
(* definitions searched from the front, in which a definition overwrites   *)
(* the entry of the same name or is appended, and an undefinition moves    *)
(* the last entry into the hole; a serial that every change of the array   *)
(* advances; and the stack of the macros being expanded, whose frames      *)
(* point into the array.                                                   *)
(*                                                                         *)
(* The serial has one reader outside the table: the memo an include        *)
(* summary keeps for a range of raw tokens, which remembers whether the    *)
(* range can be copied without expansion and is believed as long as the    *)
(* serial has not moved (preprocessor_summary_replay_helpers.c).           *)
(*                                                                         *)
(* A frame points at an entry, so it is modelled as the position of that   *)
(* entry.  The callers change the table only between two expansions; that  *)
(* is their contract, checked where they are modelled (MacroExpander).     *)
(* Allocation failures are not modelled.                                   *)
(***************************************************************************)
EXTENDS Naturals, Sequences

CONSTANTS
    Name,               \* the macro names
    Definition,         \* the definitions a name can have
    Undefined,          \* macro_table_lookup's NULL
    RawRange,              \* the identifiers of the raw token range that is memoised
    ExpansionLimit,     \* table->expansionLimit, 0 for none
    MaxMutations        \* bound: the changes of the table that are explored

ASSUME MacroTableAssumption ==
    /\ Undefined \notin Definition
    /\ RawRange \subseteq Name
    /\ ExpansionLimit \in Nat
    /\ MaxMutations \in Nat

VARIABLES
    macros,             \* the array, up to macroCount
    mutationSerial,
    expansionStack,     \* positions in macros, the innermost expansion last
    lastError,          \* of the last push: "none", "recursion" or "depth"
    memo                \* the memo of the range: [valid, serial, result]

vars == <<macros, mutationSerial, expansionStack, lastError, memo>>

Entry == [name : Name, definition : Definition]

TypeOK ==
    /\ macros \in Seq(Entry)
    /\ mutationSerial \in 0..MaxMutations
    /\ expansionStack \in Seq(Nat)
    /\ \A k \in DOMAIN expansionStack : expansionStack[k] \in DOMAIN macros
    /\ lastError \in {"none", "recursion", "depth"}
    /\ memo \in [valid : BOOLEAN, serial : 0..MaxMutations, result : BOOLEAN]

-------------------------------------------------------------------------------
(* Searching.                                                              *)

\* macro_table_find_mut: the positions a search for n can stop at.
Holds(n, i) == i \in DOMAIN macros /\ macros[i].name = n

IsDefined(n) == \E i \in DOMAIN macros : Holds(n, i)

\* The search stops at the first entry with the name.
Position(n) ==
    CHOOSE i \in DOMAIN macros :
        Holds(n, i) /\ \A j \in DOMAIN macros : Holds(n, j) => i <= j

Lookup(n) == IF IsDefined(n) THEN macros[Position(n)].definition ELSE Undefined

\* macro_table_is_expanding compares the names of the entries the frames
\* point at.
IsExpanding(n) ==
    \E k \in DOMAIN expansionStack : macros[expansionStack[k]].name = n

-------------------------------------------------------------------------------
(* Changing the array.                                                     *)

\* macro_table_upsert followed by the assignment of the definition.
Upsert(n, d) ==
    IF IsDefined(n)
    THEN [macros EXCEPT ![Position(n)] = [name |-> n, definition |-> d]]
    ELSE Append(macros, [name |-> n, definition |-> d])

\* macro_table_undef: the last entry takes the place of the removed one.
Without_truncating(i) == SubSeq(macros, 1, i - 1)

Without(i) ==
    [k \in 1 .. Len(macros) - 1 |->
        IF k = i THEN macros[Len(macros)] ELSE macros[k]]

\* macro_table_define_object and macro_table_define_function.
Define(n, d) ==
    /\ expansionStack = <<>>
    /\ mutationSerial < MaxMutations
    /\ macros' = Upsert(n, d)
    /\ mutationSerial' = mutationSerial + 1
    /\ UNCHANGED <<expansionStack, lastError, memo>>

Undef_keeping_serial(n) ==
    /\ expansionStack = <<>>
    /\ IsDefined(n)
    /\ mutationSerial < MaxMutations
    /\ macros' = Without(Position(n))
    /\ UNCHANGED <<mutationSerial, expansionStack, lastError, memo>>

\* macro_table_undef of a name that is not defined changes nothing.
Undef(n) ==
    /\ expansionStack = <<>>
    /\ IsDefined(n)
    /\ mutationSerial < MaxMutations
    /\ macros' = Without(Position(n))
    /\ mutationSerial' = mutationSerial + 1
    /\ UNCHANGED <<expansionStack, lastError, memo>>

-------------------------------------------------------------------------------
(* Expanding.                                                              *)

AtLimit == ExpansionLimit > 0 /\ Len(expansionStack) >= ExpansionLimit

\* What macro_table_push_expansion answers for the entry at position i.
PushError(i) ==
    IF AtLimit THEN "depth"
    ELSE IF IsExpanding(macros[i].name) THEN "recursion"
    ELSE "none"

PushExpansion(i) ==
    /\ lastError' = PushError(i)
    /\ expansionStack' = IF PushError(i) = "none"
                         THEN Append(expansionStack, i)
                         ELSE expansionStack
    /\ UNCHANGED <<macros, mutationSerial, memo>>

\* macro_table_pop_expansion: the frames from the last one that points at
\* the entry go; when none does, the last frame goes.
PopsTo(i, k) ==
    IF \E j \in DOMAIN expansionStack : expansionStack[j] = i
    THEN /\ expansionStack[k + 1] = i
         /\ \A j \in DOMAIN expansionStack : expansionStack[j] = i => j <= k + 1
    ELSE k + 1 = Len(expansionStack)

PopExpansion(i) ==
    /\ \E k \in 0 .. Len(expansionStack) - 1 :
          /\ PopsTo(i, k)
          /\ expansionStack' = SubSeq(expansionStack, 1, k)
    /\ UNCHANGED <<macros, mutationSerial, lastError, memo>>

-------------------------------------------------------------------------------
(* The memo of a raw token range.                                          *)

\* pp_summary_raw_range_can_clone_direct: no identifier of the range is a
\* macro.
CanCloneDirect == \A n \in RawRange : ~ IsDefined(n)

\* pp_summary_action_raw_range_can_clone_direct: the memo answers while the
\* serial is the one it was made at, and is made anew otherwise.
MemoCurrent == memo.valid /\ memo.serial = mutationSerial

Consult ==
    /\ expansionStack = <<>>
    /\ memo' = IF MemoCurrent
               THEN memo
               ELSE [valid |-> TRUE, serial |-> mutationSerial,
                     result |-> CanCloneDirect]
    /\ UNCHANGED <<macros, mutationSerial, expansionStack, lastError>>

-------------------------------------------------------------------------------
Init ==
    /\ macros = <<>>
    /\ mutationSerial = 0
    /\ expansionStack = <<>>
    /\ lastError = "none"
    /\ memo = [valid |-> FALSE, serial |-> 0, result |-> FALSE]

Next ==
    \/ \E n \in Name, d \in Definition : Define(n, d)
    \/ \E n \in Name : Undef(n)
    \/ \E i \in DOMAIN macros : PushExpansion(i)
    \/ \E i \in DOMAIN macros : PopExpansion(i)
    \/ Consult

Spec == Init /\ [][Next]_vars

-------------------------------------------------------------------------------
(* Properties.                                                             *)

\* At most one entry of the array has a given name, whatever sequence of
\* definitions, redefinitions and undefinitions led here: the search from
\* the front finds THE definition of a name (macro_table_lookup).
UniqueNames ==
    \A i, j \in DOMAIN macros : macros[i].name = macros[j].name => i = j

\* No macro is on the expansion stack twice, even when an entry is popped
\* from under others: a macro is never expanded inside its own expansion
\* (macro_table_push_expansion, macro_table_pop_expansion).
NoNestedExpansion ==
    \A j, k \in DOMAIN expansionStack :
        macros[expansionStack[j]].name = macros[expansionStack[k]].name => j = k

\* The expansion stack never exceeds the configured limit
\* (macro_table_push_expansion).
ExpansionBounded ==
    ExpansionLimit > 0 => Len(expansionStack) <= ExpansionLimit

\* A memo that would be believed tells the truth: as long as the serial is
\* the one the memo was made at, the answer is what a fresh look at the
\* table would give (macro_table_mutation_serial,
\* pp_summary_action_raw_range_can_clone_direct).
MemoSound == MemoCurrent => memo.result = CanCloneDirect

\* #undef makes its name undefined and #define gives its name the new
\* definition, and each leaves every other name as it was, although the
\* entry of another name may move and an older definition of the same name
\* could have stayed behind (macro_table_undef, macro_table_upsert).
ChangesExact ==
    [][/\ \A n \in Name :
            Undef(n) =>
                /\ Lookup(n)' = Undefined
                /\ \A m \in Name \ {n} : Lookup(m)' = Lookup(m)
       /\ \A n \in Name, d \in Definition :
            Define(n, d) =>
                /\ Lookup(n)' = d
                /\ \A m \in Name \ {n} : Lookup(m)' = Lookup(m)]_vars

-------------------------------------------------------------------------------
\* The table implements the map: a redefinition changes one name, an
\* undefinition forgets one name although it moves another entry, and the
\* expansion stack grows by one fresh name or is cut back to a prefix.
Map == INSTANCE MacroMap WITH
           map <- [n \in Name |-> Lookup(n)],
           active <- [k \in DOMAIN expansionStack |-> macros[expansionStack[k]].name]

ImplementsMap == Map!Spec
===============================================================================
