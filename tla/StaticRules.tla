---------------------------- MODULE StaticRules ----------------------------
(***************************************************************************)
(* Which functions are legal, said of places in the source text: the       *)
(* reference Sema is held to.  A place is the path to a node.              *)
(*                                                                         *)
(* The rules are those of C, with two exceptions: the parameters are in a  *)
(* scope around that of the body, and nothing is said of what may be       *)
(* assigned to.  Arithmetic with pointers is not in the language, nor does *)
(* an array become a pointer.  Functions of which the repository says one  *)
(* thing in a test or a comment and another in the code are told apart.    *)
(***************************************************************************)
EXTENDS SyntaxTree

RECURSIVE Places(_)
Places(n) == {<<>>} \cup UNION {{<<i>> \o p : p \in Places(n.kids[i])} : i \in DOMAIN n.kids}

RECURSIVE NodeAt(_, _)
NodeAt(n, p) == IF p = <<>> THEN n ELSE NodeAt(n.kids[Head(p)], Tail(p))

PlacesOf(n, kinds) == {p \in Places(n) : NodeAt(n, p).kind \in kinds}

\* Place p begins before place q.
Precedes(p, q) ==
  \/ IsPrefix(p, q)
  \/ \E k \in DOMAIN p \cap DOMAIN q :
       SubSeq(p, 1, k - 1) = SubSeq(q, 1, k - 1) /\ p[k] < q[k]

\* The block or for loop a declaration belongs to.
Enclosing(n, p) == {q \in PlacesOf(n, {"block", "for"}) : IsStrictPrefix(q, p)}
ScopeOf(n, p) == CHOOSE q \in Enclosing(n, p) : \A r \in Enclosing(n, p) : IsPrefix(r, q)

Declarations(n, name) == {d \in PlacesOf(n, {"decl"}) : NodeAt(n, d).id = name}

\* The declarations of name whose scope reaches place p; the innermost counts.
Visible(n, p, name) ==
  {d \in Declarations(n, name) : IsPrefix(ScopeOf(n, d), p) /\ Precedes(d, p)}
Innermost(n, visible) ==
  CHOOSE d \in visible : \A e \in visible : IsPrefix(ScopeOf(n, e), ScopeOf(n, d))

\* globals gives the types of the functions that are declared, f among them.
TypeOfName(f, globals, p, name) ==
  LET visible == Visible(f.body, p, name)
  IN CASE visible # {} -> NodeAt(f.body, Innermost(f.body, visible)).type
       [] visible = {} /\ name \in DOMAIN f.params -> f.params[name]
       [] visible = {} /\ name \notin DOMAIN f.params /\ name \in DOMAIN globals -> globals[name]
       [] OTHER -> NoType

Assignable(t, u) == NoType \notin {t, u} /\ (t = u \/ (IsArithmetic(t) /\ IsArithmetic(u)))

\* The type of the expression at place p, none if it has no meaning.
RECURSIVE TypeAt(_, _, _)
TypeAt(f, globals, p) ==
  LET n == NodeAt(f.body, p)
      T(i) == TypeAt(f, globals, Append(p, i))
      callee == TypeOfName(f, globals, p, n.id)
      When(ok, type) == IF ok THEN type ELSE NoType
  IN CASE n.kind = "literal" -> n.type
       [] n.kind = "var" -> TypeOfName(f, globals, p, n.id)
       [] n.kind \in {"+", "-", "*", "/"} -> When(IsArithmetic(T(1)) /\ IsArithmetic(T(2)),
                                                  IF FloatType \in {T(1), T(2)} THEN FloatType ELSE IntType)
       [] n.kind \in Relations -> When(IsArithmetic(T(1)) /\ IsArithmetic(T(2)), IntType)
       [] n.kind \in BitOperators \cup {"%"} -> When(IsInteger(T(1)) /\ IsInteger(T(2)), IntType)
       [] n.kind \in Equalities \cup {"and", "or"} -> When(IsScalar(T(1)) /\ IsScalar(T(2)), IntType)
       [] n.kind \in Assignments -> When(Assignable(T(1), T(2)), T(1))
       [] n.kind \in {"plus", "minus"} -> When(IsArithmetic(T(1)), T(1))
       [] n.kind \in Increments -> When(IsScalar(T(1)), T(1))
       [] n.kind = "~" -> When(IsInteger(T(1)), IntType)
       [] n.kind = "not" -> When(IsScalar(T(1)), IntType)
       [] n.kind = "addr" -> When(T(1) # NoType, PointerTo(T(1)))
       [] n.kind = "deref" -> When(T(1).kind = "pointer", ElementType(T(1)))
       [] n.kind = "element" -> When(T(1).kind \in {"pointer", "array"} /\ IsInteger(T(2)),
                                     ElementType(T(1)))
       [] n.kind = "call" ->
            When(/\ callee.kind = "function"
                 /\ Len(ParamTypes(callee)) = Len(n.kids)
                 /\ \A i \in DOMAIN n.kids : Assignable(ParamTypes(callee)[i], T(i)),
                 ReturnType(callee))

Expressions(n) ==
  PlacesOf(n, {"literal", "var", "call", "element", "and", "or"}
                \cup BinaryOperators \cup Assignments \cup UnaryOperators \cup Increments)

Loops == {"while", "for", "do"}
Condition(n) == CASE n.kind \in {"if", "while"} -> 1 [] n.kind \in {"for", "do"} -> 2

\* The body of f is legal after the declarations of globals, f among them.
Legal(f, globals) ==
  LET n == f.body
      T(p, i) == TypeAt(f, globals, Append(p, i))
      Has(p, i) == NodeAt(n, p).kids[i] # None
  IN /\ \A d, e \in PlacesOf(n, {"decl"}) :
          d # e /\ NodeAt(n, d).id = NodeAt(n, e).id => ScopeOf(n, d) # ScopeOf(n, e)
     /\ \A p \in Expressions(n) : TypeAt(f, globals, p) # NoType
     /\ \A p \in PlacesOf(n, {"decl"}) : Has(p, 1) => Assignable(NodeAt(n, p).type, T(p, 1))
     /\ \A p \in PlacesOf(n, {"if"} \cup Loops) :
          Has(p, Condition(NodeAt(n, p))) => IsScalar(T(p, Condition(NodeAt(n, p))))
     /\ \A p \in PlacesOf(n, {"break", "continue"}) :
          \E q \in PlacesOf(n, Loops) : IsStrictPrefix(q, p)
     /\ \A p \in PlacesOf(n, {"return"}) :
          IF Has(p, 1) THEN f.ret # VoidType /\ Assignable(f.ret, T(p, 1)) ELSE f.ret = VoidType

-----------------------------------------------------------------------------
(* What the repository decides in two ways.                                *)

\* A variable used in its own initializer: "y used before being defined" in
\* test/fixtures/semantic_errors.c:3, and accepted by Sema.
UsesItself(n) ==
  \E d \in PlacesOf(n, {"decl"}) : \E p \in PlacesOf(n, {"var", "call"}) :
    LET name == NodeAt(n, p).id
    IN IsStrictPrefix(d, p) /\ name = NodeAt(n, d).id /\ Innermost(n, Visible(n, p, name)) = d

\* A pointer as an operand of && or ||: "logical AND with string" in line 4 of the
\* same file, and accepted by Sema.
JoinsPointers(f, globals) ==
  \E p \in PlacesOf(f.body, {"and", "or"}), i \in {1, 2} : TypeAt(f, globals, Append(p, i)).kind = "pointer"

\* The pairs of types <<t, u>> such that a value of type u is put where one of
\* type t is: assigned, as an initial value, returned or as an argument.
Puts(f, globals) ==
  LET n == f.body
      T(p, i) == TypeAt(f, globals, Append(p, i))
      With(kinds) == {p \in PlacesOf(n, kinds) : NodeAt(n, p).kids[1] # None}
      Takes(p) == LET t == TypeOfName(f, globals, p, NodeAt(n, p).id)
                  IN IF t.kind = "function" THEN ParamTypes(t) ELSE <<>>
  IN {<<T(p, 1), T(p, 2)>> : p \in PlacesOf(n, Assignments)}
       \cup {<<NodeAt(n, p).type, T(p, 1)>> : p \in With({"decl"})}
       \cup {<<f.ret, T(p, 1)>> : p \in With({"return"})}
       \cup UNION {{<<Takes(p)[i], T(p, i)>> : i \in DOMAIN Takes(p) \cap DOMAIN NodeAt(n, p).kids} :
                     p \in PlacesOf(n, {"call"})}

\* A value put between an array and a pointer to its elements: "Array to pointer
\* decay" says Type.cpp:28, and the code below it lets an array take a pointer.
Decays(t, u) == t.kind = "array" /\ u = PointerTo(ElementType(t))

Contested(f, globals) ==
  \/ UsesItself(f.body)
  \/ JoinsPointers(f, globals)
  \/ \E put \in Puts(f, globals) : Decays(put[1], put[2]) \/ Decays(put[2], put[1])
=============================================================================
