------------------------------- MODULE MacroMap -------------------------------
(***************************************************************************)
(* What the macro table promises its callers: a finite map from names to   *)
(* definitions, and the sequence of the names being expanded.              *)
(*                                                                         *)
(* A definition replaces the previous one of the same name and disturbs no *)
(* other name; so does an undefinition.  While names are being expanded    *)
(* the map does not change, and no name is expanded inside itself.         *)
(***************************************************************************)
EXTENDS Naturals, Sequences

CONSTANTS
    Name,           \* the macro names
    Definition,     \* the definitions a name can have
    Undefined       \* the image of a name that is not defined

VARIABLES
    map,            \* [Name -> Definition \cup {Undefined}]
    active          \* the names being expanded, the outermost first

vars == <<map, active>>

Init ==
    /\ map = [n \in Name |-> Undefined]
    /\ active = <<>>

Change ==
    /\ active = <<>>
    /\ \E n \in Name, d \in Definition \cup {Undefined} :
          map' = [map EXCEPT ![n] = d]
    /\ UNCHANGED active

Enter ==
    /\ \E n \in Name :
          /\ map[n] # Undefined
          /\ \A i \in DOMAIN active : active[i] # n
          /\ active' = Append(active, n)
    /\ UNCHANGED map

Leave ==
    /\ \E k \in 1..Len(active) : active' = SubSeq(active, 1, k - 1)
    /\ UNCHANGED map

Next == Change \/ Enter \/ Leave

Spec == Init /\ [][Next]_vars
===============================================================================
