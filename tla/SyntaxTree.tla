----------------------------- MODULE SyntaxTree -----------------------------
(***************************************************************************)
(* Types, and syntax trees of function bodies (include/yac/AST/AST.h).     *)
(*                                                                         *)
(* A node is [kind, id, type, kids]: id is the value of a literal or the    *)
(* name of a variable or of the function called; type is the type of a     *)
(* literal or the declared type of a variable; kids are its parts in the   *)
(* order of the source text.  An operator is a kind.  A part that is not   *)
(* there is None.                                                          *)
(***************************************************************************)
EXTENDS Arithmetic, Sequences, SequencesExt

-----------------------------------------------------------------------------
(* The types of C (include/yac/Type/Type.h, lib/Type/Type.cpp).  A type is *)
(* [kind, of]: of lists the types it is made from, for a function type the *)
(* return type and then the parameters.  An array has a size too, the      *)
(* numeral written in its declaration.                                     *)

Basic(kind) == [kind |-> kind, of |-> <<>>]
IntType == Basic("int")
FloatType == Basic("float")
CharType == Basic("char")
VoidType == Basic("void")
NoType == Basic("none")     \* no type (nullptr)

PointerTo(t) == [kind |-> "pointer", of |-> <<t>>]
Unsized == ""
ArrayOf(t, size) == [kind |-> "array", of |-> <<t>>, size |-> size]
FunctionType(ret, params) == [kind |-> "function", of |-> <<ret>> \o params]

ReturnType(t) == Head(t.of)
ParamTypes(t) == Tail(t.of)
ElementType(t) == Head(t.of)

IsArithmetic(t) == t \in {IntType, FloatType, CharType}
IsScalar(t) == IsArithmetic(t) \/ t.kind = "pointer"
IsInteger(t) == t \in {IntType, CharType}

\* A value of type u can be put where type t is: equal types, arithmetic types,
\* and a pointer where an array is.
IsCompatible(t, u) ==
  \/ t = u
  \/ IsArithmetic(t) /\ IsArithmetic(u)
  \/ t.kind = "array" /\ u.kind = "pointer" /\ t.of = u.of

-----------------------------------------------------------------------------
(* The nodes.                                                              *)

TypedNode(kind, id, type, kids) == [kind |-> kind, id |-> id, type |-> type, kids |-> kids]
Node(kind, id, kids) == TypedNode(kind, id, IntType, kids)
None == [kind |-> "none", kids |-> <<>>]

\* The statement that is a semicolon.
Empty == [kind |-> "empty", kids |-> <<>>]

Assignments == {"=", "+=", "-=", "*=", "/="}
UnaryOperators == {"plus", "minus", "not", "~", "addr", "deref"}
Increments == {"++x", "x++", "--x", "x--"}

\* The operation a compound assignment or an increment stands for.
OperationOf(kind) ==
  CASE kind \in {"+=", "++x", "x++"} -> "+"
    [] kind \in {"-=", "--x", "x--"} -> "-"
    [] kind = "*=" -> "*"
    [] kind = "/=" -> "/"

\* All nodes of a tree.
RECURSIVE Nodes(_)
Nodes(n) == {n} \cup UNION {Nodes(k) : k \in ToSet(n.kids)}

Kinds(n) == {m.kind : m \in Nodes(n)}
=============================================================================
