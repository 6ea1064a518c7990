-------------------------------- MODULE Sema --------------------------------
(***************************************************************************)
(* Sema (lib/Sema/Sema.cpp): one operator for each visitor, from the       *)
(* analyzer's state to its state after the visit.                          *)
(*                                                                         *)
(* The state s holds the symbol table, ret (the return type of             *)
(* CurrentFunction), depth (LoopDepth), last (LastExprType), the kinds of  *)
(* errors reported, the number of variables and parameters declared in     *)
(* the function, and node, the visited node with what Sema writes in it:   *)
(* the name of a variable becomes the number of its declaration (setDecl). *)
(***************************************************************************)
EXTENDS SyntaxTree

NoSymbol == [type |-> NoType, decl |-> 0]
S == INSTANCE SymbolTable

Report(s, ok, error) == IF ok THEN s ELSE [s EXCEPT !.errors = @ \cup {error}]

PushScope(s) == [s EXCEPT !.table = S!PushScope(@)]
PopScope(s) == [s EXCEPT !.table = S!PopScope(@)]

DeclareSymbol(s, name, type, decl) ==
  [Report(s, S!CanInsert(s.table, name), "redeclaration") EXCEPT
     !.table = S!Insert(@, name, [type |-> type, decl |-> decl])]

CheckAssignment(s, target, type) == Report(s, IsCompatible(target, type), "assignment")

-----------------------------------------------------------------------------
(* Visits of the parts of a node: a holds the state, and the parts and     *)
(* their types as far as they were visited.                                *)

RECURSIVE Visit(_, _)

Parts(n, s) == [s |-> s, kids |-> n.kids, types |-> [i \in DOMAIN n.kids |-> NoType]]

VisitPart(a, i) ==
  LET v == Visit(a.kids[i], a.s)
  IN [s |-> v, kids |-> [a.kids EXCEPT ![i] = v.node], types |-> [a.types EXCEPT ![i] = v.last]]

VisitParts(n, s, order) == FoldLeft(VisitPart, Parts(n, s), order)

WithState(a, s) == [a EXCEPT !.s = s]

\* A loop's body.
VisitBody(a, i) ==
  LET b == VisitPart(WithState(a, [a.s EXCEPT !.depth = @ + 1]), i)
  IN WithState(b, [b.s EXCEPT !.depth = @ - 1])

\* A condition has scalar type, unless its type is unknown or it is not there.
VisitCondition(a, i) ==
  LET c == VisitPart(a, i)
  IN IF a.kids[i] = None THEN a
     ELSE WithState(c, Report(c.s, c.types[i] = NoType \/ IsScalar(c.types[i]), "condition"))

Visited(n, a) == [a.s EXCEPT !.node = [n EXCEPT !.kids = a.kids]]
Typed(n, a, type) == [Visited(n, a) EXCEPT !.last = type]

-----------------------------------------------------------------------------
(* Expressions.                                                            *)

VisitDeclRefExpr(n, s) ==
  LET symbol == S!Lookup(s.table, n.id)
  IN [Report(s, symbol # NoSymbol, "undeclared") EXCEPT
        !.last = symbol.type, !.node = [n EXCEPT !.id = symbol.decl]]

\* The type of a binary operation, or none if the operands do not fit.
BinaryType(op, l, r) ==
  CASE op \in {"+", "-", "*", "/"} -> IF ~(IsArithmetic(l) /\ IsArithmetic(r)) THEN NoType
                                      ELSE IF FloatType \in {l, r} THEN FloatType ELSE IntType
    [] op \in BitOperators \cup {"%"} -> IF IsInteger(l) /\ IsInteger(r) THEN IntType ELSE NoType
    [] op \in Relations -> IF IsArithmetic(l) /\ IsArithmetic(r) THEN IntType ELSE NoType
    [] op \in Equalities \cup {"and", "or"} -> IF IsScalar(l) /\ IsScalar(r) THEN IntType ELSE NoType

\* Nothing is reported of operands whose type is unknown.
CheckBinaryOp(n, s) ==
  LET a == VisitParts(n, s, <<1, 2>>)
      l == a.types[1]
      r == a.types[2]
      type == BinaryType(n.kind, l, r)
  IN IF NoType \in {l, r} THEN Typed(n, a, NoType)
     ELSE IF n.kind \in Assignments THEN Typed(n, WithState(a, CheckAssignment(a.s, l, r)), l)
     ELSE Typed(n, WithState(a, Report(a.s, type # NoType, "operands")), type)

UnaryType(op, t) ==
  CASE op \in {"plus", "minus"} -> IF IsArithmetic(t) THEN t ELSE NoType
    [] op = "not" -> IF IsScalar(t) THEN IntType ELSE NoType
    [] op = "~" -> IF IsInteger(t) THEN IntType ELSE NoType
    [] op = "addr" -> PointerTo(t)
    [] op = "deref" -> IF t.kind = "pointer" THEN ElementType(t) ELSE NoType
    [] op \in Increments -> IF IsScalar(t) THEN t ELSE NoType

CheckUnaryOp(n, s) ==
  LET a == VisitPart(Parts(n, s), 1)
      t == a.types[1]
      type == UnaryType(n.kind, t)
  IN IF t = NoType THEN Typed(n, a, NoType)
     ELSE Typed(n, WithState(a, Report(a.s, type # NoType, "operands")), type)

\* The arguments are visited only if there are as many as parameters.
CheckCallExpr(n, s) ==
  LET callee == VisitDeclRefExpr(n, s)
      type == callee.last
      params == ParamTypes(type)
      Argument(a, i) ==
        LET v == VisitPart(a, i)
        IN IF v.types[i] = NoType THEN v
           ELSE WithState(v, CheckAssignment(v.s, params[i], v.types[i]))
  IN IF type = NoType THEN Typed(n, Parts(n, callee), NoType)
     ELSE IF type.kind # "function" THEN Typed(n, Parts(n, Report(callee, FALSE, "call")), NoType)
     ELSE IF Len(n.kids) # Len(params)
       THEN Typed(n, Parts(n, Report(callee, FALSE, "call")), ReturnType(type))
     ELSE Typed(n, FoldLeft(Argument, Parts(n, callee), [i \in DOMAIN params |-> i]),
                ReturnType(type))

CheckArraySubscript(n, s) ==
  LET a == VisitParts(n, s, <<1, 2>>)
      base == a.types[1]
      ok == base.kind \in {"array", "pointer"} /\ IsInteger(a.types[2])
  IN IF NoType \in {base, a.types[2]} THEN Typed(n, a, NoType)
     ELSE Typed(n, WithState(a, Report(a.s, ok, "subscript")),
                IF ok THEN ElementType(base) ELSE NoType)

-----------------------------------------------------------------------------
(* Declarations and statements.                                            *)

\* The variable is declared before its initializer is visited.
VisitVarDecl(n, s) ==
  LET number == s.decls + 1
      declared == [DeclareSymbol(s, n.id, n.type, number) EXCEPT !.decls = number]
      a == VisitPart(Parts(n, declared), 1)
      type == a.types[1]
      checked == IF type = NoType THEN a ELSE WithState(a, CheckAssignment(a.s, n.type, type))
  IN Visited([n EXCEPT !.id = number], IF n.kids[1] = None THEN Parts(n, declared) ELSE checked)

VisitCompoundStmt(n, s) == PopScope(Visited(n, VisitParts(n, PushScope(s), [i \in DOMAIN n.kids |-> i])))

VisitReturnStmt(n, s) ==
  LET a == VisitPart(Parts(n, s), 1)
      type == a.types[1]
  IN IF n.kids[1] = None THEN Visited(n, Parts(n, Report(s, s.ret = VoidType, "return")))
     ELSE IF s.ret = VoidType THEN Visited(n, WithState(a, Report(a.s, FALSE, "return")))
     ELSE IF type = NoType THEN Visited(n, a)
     ELSE Visited(n, WithState(a, CheckAssignment(a.s, s.ret, type)))

VisitIfStmt(n, s) == Visited(n, VisitPart(VisitPart(VisitCondition(Parts(n, s), 1), 2), 3))
VisitWhileStmt(n, s) == Visited(n, VisitBody(VisitCondition(Parts(n, s), 1), 2))
VisitDoStmt(n, s) == Visited(n, VisitCondition(VisitBody(Parts(n, s), 1), 2))

\* Mutant: the scope of the loop is not left.
VisitForStmtStays(n, s) ==
  LET head == VisitCondition(VisitPart(Parts(n, PushScope(s)), 1), 2)
  IN Visited(n, VisitBody(VisitPart(head, 3), 4))

\* A scope of its own for what the initialization declares.
VisitForStmt(n, s) ==
  LET head == VisitCondition(VisitPart(Parts(n, PushScope(s)), 1), 2)
  IN PopScope(Visited(n, VisitBody(VisitPart(head, 3), 4)))

VisitJump(n, s) == [Report(s, s.depth # 0, "jump") EXCEPT !.node = n]

Visit(n, s) ==
  CASE n.kind \in {"none", "empty"} -> [s EXCEPT !.node = n]
    [] n.kind = "literal" -> [s EXCEPT !.last = n.type, !.node = n]
    [] n.kind = "var" -> VisitDeclRefExpr(n, s)
    [] n.kind \in BinaryOperators \cup Assignments \cup {"and", "or"} -> CheckBinaryOp(n, s)
    [] n.kind \in UnaryOperators \cup Increments -> CheckUnaryOp(n, s)
    [] n.kind = "call" -> CheckCallExpr(n, s)
    [] n.kind = "element" -> CheckArraySubscript(n, s)
    [] n.kind = "decl" -> VisitVarDecl(n, s)
    [] n.kind = "block" -> VisitCompoundStmt(n, s)
    [] n.kind = "return" -> VisitReturnStmt(n, s)
    [] n.kind = "if" -> VisitIfStmt(n, s)
    [] n.kind = "while" -> VisitWhileStmt(n, s)
    [] n.kind = "for" -> VisitForStmt(n, s)
    [] n.kind = "do" -> VisitDoStmt(n, s)
    [] n.kind \in {"break", "continue"} -> VisitJump(n, s)

-----------------------------------------------------------------------------
\* A function [name, params, ret, body]; params lists the types of the
\* parameters, whose names are 1, 2, ...  The body has a scope inside that of
\* the parameters.
VisitFunctionDecl(s, f) ==
  LET declared == [DeclareSymbol(s, f.name, FunctionType(f.ret, f.params), 0) EXCEPT
                     !.ret = f.ret, !.decls = 0]
      params == FoldLeft(LAMBDA t, i : [DeclareSymbol(t, i, f.params[i], i) EXCEPT !.decls = i],
                         PushScope(declared), [i \in DOMAIN f.params |-> i])
  IN [PopScope(Visit(f.body, params)) EXCEPT !.ret = s.ret]

\* The declarations of a file, in their order.
Analyze(functions) ==
  FoldLeft(VisitFunctionDecl,
           [table |-> S!NewTable, ret |-> NoType, depth |-> 0, last |-> NoType,
            errors |-> {}, decls |-> 0, node |-> None],
           functions)
=============================================================================
