---------------------------- MODULE MCMemoryCheck ----------------------------
(***************************************************************************)
(* Three addresses in a table of two slots: probes collide and wrap, the   *)
(* table fills, and released slots are taken again.                        *)
(***************************************************************************)
EXTENDS MemoryCheck

Addresses == {"p", "q", "r"}
HashOf == [p \in Addresses |-> CASE p = "p" -> 1 [] p = "q" -> 3 [] p = "r" -> 0]
Library == {"r"}
Sites == {"a.c:1"}
Requests == {[size |-> 0, site |-> NULL], [size |-> 8, site |-> "a.c:1"]}
Policies == {"always", "errors", "leaks", "never"}
==============================================================================
