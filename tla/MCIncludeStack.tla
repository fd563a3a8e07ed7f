---------------------------- MODULE MCIncludeStack ----------------------------
(***************************************************************************)
(* Four paths whose hashes collide, wrap around and differ again when the  *)
(* table grows.                                                            *)
(***************************************************************************)
EXTENDS IncludeStack

MCPath == {"a.h", "b.h", "c.h", "d.h"}

MCHash == [p \in MCPath |-> CASE p = "a.h" -> 3
                              [] p = "b.h" -> 7
                              [] p = "c.h" -> 1
                              [] p = "d.h" -> 2]
===============================================================================
