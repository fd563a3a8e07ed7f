------------------------------ MODULE SyntaxTree ------------------------------
(***************************************************************************)
(* The tree the parser builds and the later passes walk (struct ASTNode),  *)
(* reduced to what they tell apart: a type, the place of its first token,  *)
(* a name (an operator, a label, a case value) and the children in order.  *)
(* A child the code leaves NULL is Null.                                   *)
(***************************************************************************)
EXTENDS Integers, Sequences

Node(type, at, name, kids) == [type |-> type, at |-> at, name |-> name, kids |-> kids]

Null == Node("null", 0, "", <<>>)

RECURSIVE Subtrees(_)

\* A tree and all the trees inside it.
Subtrees(n) == {n} \cup UNION {Subtrees(n.kids[i]) : i \in DOMAIN n.kids}

\* The i-th token; past the last one the lexer goes on returning TOKEN_EOF.
Tok(w, i) == IF i \in DOMAIN w THEN w[i] ELSE "EOF"

\* What a parse function leaves: the tree it returns, the token the parser
\* stands on, and whether a diagnostic has been reported.
Parsed(n, i, d) == [node |-> n, at |-> i, diag |-> d]

Failed(i, d) == Parsed(Null, i, d)
===============================================================================
