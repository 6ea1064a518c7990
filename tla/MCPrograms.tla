----------------------------- MODULE MCPrograms -----------------------------
(***************************************************************************)
(* The functions of the runs: one parameter x (1) and a local variable y   *)
(* (2), declared first, one or two statements, a call that shows x and y,  *)
(* and a return.  Some declare x, y or z (3) in inner scopes, some are     *)
(* illegal.                                                                *)
(***************************************************************************)
EXTENDS SyntaxTree

Var(i) == Node("var", i, <<>>)
X == Var(1)
Y == Var(2)
Z == Var(3)
CallWith(f, args) == Node("call", 10 + f, args)
Call(f) == CallWith(f, <<>>)
Assign(v, op, e) == Node(op, 0, <<v, e>>)
Less(l, r) == Node("<", 0, <<l, r>>)
Returning(e) == Node("return", 0, <<e>>)
Seq2(s, t) == Node("block", 0, <<s, t>>)
Show == CallWith(9, <<X, Y>>)

\* int f10(), ..., f18(); int f19(int, int), f20(int, int); void f21(); float f22(float);
MCPrototypes ==
  [f \in 1..9 |-> [name |-> 9 + f, params |-> <<>>, ret |-> IntType, body |-> None]]
    \o <<[name |-> 19, params |-> <<IntType, IntType>>, ret |-> IntType, body |-> None],
         [name |-> 20, params |-> <<IntType, IntType>>, ret |-> IntType, body |-> None],
         [name |-> 21, params |-> <<>>, ret |-> VoidType, body |-> None],
         [name |-> 22, params |-> <<FloatType>>, ret |-> FloatType, body |-> None]>>

And(l, r) == Node("and", 0, <<l, r>>)
Or(l, r) == Node("or", 0, <<l, r>>)
Not(e) == Node("not", 0, <<e>>)

\* An if without an else would take the else that follows it.
RECURSIVE TakesElse(_)
TakesElse(s) ==
  \/ s.kind = "if" /\ (s.kids[3] = None \/ TakesElse(s.kids[3]))
  \/ s.kind \in {"while", "for"} /\ TakesElse(Last(s.kids))
Closed(s) == IF TakesElse(s) THEN Node("block", 0, <<s>>) ELSE s

If(c, s) == Node("if", 0, <<c, s, None>>)
IfElse(c, s, t) == Node("if", 0, <<c, Closed(s), t>>)
While(c, s) == Node("while", 0, <<c, s>>)
Do(c, s) == Node("do", 0, <<s, c>>)
For(c, s) == Node("for", 0, <<Assign(Y, "=", X), c, Node("x++", 0, <<Y>>), s>>)
ForEver(s) == Node("for", 0, <<None, None, None, s>>)
ForBare(c, s) == Node("for", 0, <<None, c, None, s>>)

PlainConditions ==
  {Call(1), Not(Call(1)), Assign(X, "=", Call(1)), Less(Call(1), X)}
LogicalConditions ==
  {And(Call(1), Call(2)), Or(Call(1), Call(2)), And(Or(Call(1), Call(2)), Call(3)),
   Or(Call(1), And(Call(2), Call(3)))}

Effects ==
  {Assign(X, "=", Call(4)), Assign(X, "+=", Call(4)), Assign(Y, "=", Node("++x", 0, <<X>>)),
   Assign(X, "=", Node("minus", 0, <<Y>>)), CallWith(10, <<Node("x--", 0, <<X>>), X>>),
   Assign(X, "=", And(Call(4), Call(5)))}
Jumps == {Node("break", 0, <<>>), Node("continue", 0, <<>>)}

Controls(conditions, bodies) ==
  UNION {{If(c, s), IfElse(c, s, Assign(X, "=", Call(6))), IfElse(c, Show, s),
          While(c, s), Do(c, s), For(c, s)} : <<c, s>> \in conditions \X bodies}

Statements ==
  Effects
    \cup {ForEver(s) : s \in {Show, Returning(X), If(Call(1), Returning(X))}}
    \cup {ForBare(c, s) : c \in PlainConditions, s \in {Show, Returning(X)}}
    \cup Controls(PlainConditions, Effects \cup {Returning(X), Seq2(Show, Returning(Y))})
    \cup Controls(LogicalConditions, {Show, Returning(X)})
    \cup Controls({Call(7)}, Jumps \cup {Seq2(Show, j) : j \in Jumps})
    \cup Controls({Call(7), And(Call(7), Call(8))},
                  Controls({Call(1), And(Call(1), Call(2))}, {Show, Returning(X)} \cup Jumps))

-----------------------------------------------------------------------------
(* Names: x, y and z declared and used in blocks, loops and around them.   *)

Decl(x, e) == Node("decl", x, <<e>>)
Block(stmts) == Node("block", 0, stmts)

Uses == {Assign(X, "=", Call(4)), Assign(Y, "+=", X), Assign(Z, "=", X), Show}
Decls == {Decl(x, e) : x \in {1, 2, 3}, e \in {Call(4), X, Y, Z}}
Scopes ==
  UNION {{Block(<<d, u>>), Block(<<u, d>>), If(Call(1), Block(<<d, u>>)),
          Node("for", 0, <<d, Call(1), Node("x++", 0, <<X>>), u>>),
          Node("for", 0, <<d, Call(1), u, Block(<<d, u>>)>>),
          Do(Call(1), Block(<<d, Block(<<d, u>>), u>>))} : d \in Decls, u \in Uses}

-----------------------------------------------------------------------------
(* Types: z is declared with type t and used.                              *)

InitialValue(t) ==
  IF IsArithmetic(t) THEN TypedNode("literal", 1, t, <<>>) ELSE None
DeclaredTypes == {IntType, FloatType, CharType, ArrayOf(IntType, "4"), ArrayOf(IntType, Unsized)}

AddressOfX == Node("addr", 0, <<X>>)
Operations ==
  {Node(op, 0, <<Z, e>>) : op \in {"+", "*", "%", ">=", "!=", "^", "and", "=", "element"}, e \in {X, Z, AddressOfX}}
    \cup {Node(op, 0, <<e>>) : op \in {"++x", "minus", "not", "~", "deref", "addr"}, e \in {Z, AddressOfX}}
TypedUses ==
  Operations
    \cup {Assign(v, "=", e) : v \in {X, Z}, e \in Operations \cup {AddressOfX}}
    \cup {If(Z, Show), While(Assign(X, "=", Node("deref", 0, <<Z>>)), Show), Returning(Z),
          CallWith(9, <<X, Z>>), CallWith(12, <<Z>>), Node("call", 3, <<>>)}

Calls ==
  {CallWith(9, <<X>>), CallWith(1, <<X>>), Call(40), Node("call", 1, <<>>), Call(11),
   Assign(X, "=", Call(11)), Assign(X, "=", CallWith(12, <<X>>)), CallWith(20, <<X>>),
   Block(<<Decl(11, X), Call(1)>>), Returning(Call(11)), Returning(None), If(Call(11), Show)}

-----------------------------------------------------------------------------
Function(stmts, end, ret) ==
  [name |-> 30, params |-> <<IntType>>, ret |-> ret,
   body |-> Block(<<Decl(2, Call(0))>> \o stmts \o end)]

MCSources ==
  {Function(<<s>>, <<Show, Returning(X)>>, IntType) : s \in Statements \cup Calls}
    \cup {Function(<<s>>, <<Show>>, t) :
            s \in Controls({Call(1)}, {Show, Returning(X), Returning(None)}), t \in {IntType, VoidType}}
    \cup {Function(<<s, t>>, <<Returning(X)>>, IntType) :
            s \in Controls({Call(1)}, {Show}), t \in Controls({Call(2)}, {Show, Returning(Y)})}
    \cup {Function(<<s, u>>, <<Show, Returning(X)>>, IntType) :
            s \in Scopes, u \in {Assign(Z, "=", X), Decl(2, X), Decl(3, X)}}
    \cup {Function(<<Block(<<TypedNode("decl", 3, t, <<InitialValue(t)>>), u>>)>>, <<Show, Returning(X)>>, IntType) :
            t \in DeclaredTypes, u \in TypedUses}
    \cup {[name |-> 30, params |-> <<IntType>>, ret |-> IntType, body |-> None]}
=============================================================================
