------------------------------- MODULE Parser -------------------------------
(***************************************************************************)
(* Parser (lib/Parse/Parser.cpp): one operator for each parse function,    *)
(* from the parser's state to its state after the call.                    *)
(*                                                                         *)
(* The state p holds rest, the tokens from the current one on (without the *)
(* one for the end), the errors reported and nodes, the trees that are not *)
(* part of another one yet: a function puts the tree it returns at their   *)
(* end, where its caller takes it.  None is the null pointer.  A statement *)
(* that is an expression or a declaration is that expression or            *)
(* declaration.  A declared function is a node "function" with its         *)
(* parameters and its body as parts.  Where the ten functions for the      *)
(* levels of binary operators differ is only in their operators.  The      *)
(* functions call each other, and the loops go on, through one recursive   *)
(* operator, Parse.                                                        *)
(***************************************************************************)
EXTENDS SyntaxTree, TLC

Kind(p) == IF p.rest = <<>> THEN "eof" ELSE Head(p.rest).kind
TextOf(p) == IF p.rest = <<>> THEN "" ELSE Head(p.rest).value
AtEnd(p) == p.rest = <<>>

Advance(p) == [p EXCEPT !.rest = IF @ = <<>> THEN @ ELSE Tail(@)]
Error(p, expected) == [p EXCEPT !.errors = @ \cup {expected}]
Expect(p, kind) == IF Kind(p) = kind THEN p ELSE Error(p, kind)

\* Mutant: a token other than the expected one is passed over silently.
TakeAny(p, kind) == Advance(p)

\* expect, and then advance, whatever the token is.
Take(p, kind) == Advance(Expect(p, kind))
Consume(p, kind) == IF Kind(p) = kind THEN Advance(p) ELSE p

Push(p, n) == [p EXCEPT !.nodes = Append(@, n)]

\* The nodes after the first kept ones become the parts of one.
Gather(p, kept, Whole(_)) ==
  [p EXCEPT !.nodes = Append(SubSeq(@, 1, kept), Whole(SubSeq(@, kept + 1, Len(@))))]
Make(p, kind, parts) == Gather(p, Len(p.nodes) - parts, LAMBDA kids : Node(kind, "", kids))

\* The call of the function, or the next turn of the loop, that what names.
RECURSIVE Parse(_, _)
ParseE(p) == Parse(<<"expression">>, p)
ParseS(p) == Parse(<<"statement">>, p)

-----------------------------------------------------------------------------
(* Expressions.                                                            *)

\* The binary operators, from the weakest to the strongest.
Levels ==
  <<{"||"}, {"&&"}, {"|"}, {"^"}, {"&"}, {"==", "!="}, {"<", ">", "<=", ">="}, {"<<", ">>"},
    {"+", "-"}, {"*", "/", "%"}>>

PrefixKind ==
  "++" :> "++x" @@ "--" :> "--x" @@ "+" :> "plus" @@ "-" :> "minus" @@ "!" :> "not" @@ "~" :> "~"
    @@ "&" :> "addr" @@ "*" :> "deref"
BinaryKind(op) == CASE op = "||" -> "or" [] op = "&&" -> "and" [] OTHER -> op
LiteralTypes ==
  "number" :> IntType @@ "decimal" :> FloatType @@ "character" :> CharType @@ "string" :> PointerTo(CharType)

ParsePrimary(p) ==
  CASE Kind(p) \in DOMAIN LiteralTypes ->
         Push(Advance(p), TypedNode("literal", TextOf(p), LiteralTypes[Kind(p)], <<>>))
    [] Kind(p) = "name" -> Push(Advance(p), Node("var", TextOf(p), <<>>))
    [] Kind(p) = "(" -> Take(ParseE(Advance(p)), ")")
    [] OTHER -> Push(Error(p, "expression"), None)

\* A call of a named function is a node with that name.
CallNode(callee, args) ==
  IF callee.kind = "var" THEN Node("call", callee.id, args) ELSE Node("apply", "", <<callee>> \o args)

MoreArguments(p) == IF Kind(p) = "," THEN Parse(<<"arguments">>, Advance(p)) ELSE p
ParseArguments(p) == MoreArguments(ParseE(p))
ParseCallArguments(p) == IF Kind(p) = ")" THEN p ELSE Parse(<<"arguments">>, p)

\* What follows the operand p has parsed.
Postfixes(p) ==
  LET next == Advance(p)
      Call(kids) == CallNode(Head(kids), Tail(kids))
      More(q) == Parse(<<"postfixes">>, q)
  IN CASE Kind(p) = "++" -> More(Make(next, "x++", 1))
       [] Kind(p) = "--" -> More(Make(next, "x--", 1))
       [] Kind(p) = "[" -> More(Make(Take(ParseE(next), "]"), "element", 2))
       [] Kind(p) = "(" -> More(Gather(Take(ParseCallArguments(next), ")"), Len(p.nodes) - 1, Call))
       [] OTHER -> p

ParseUnary(p) ==
  IF Kind(p) \in DOMAIN PrefixKind THEN Make(Parse(<<"unary">>, Advance(p)), PrefixKind[Kind(p)], 1)
  ELSE Postfixes(ParsePrimary(p))

Operand(level, p) == Parse(<<"binary", level>>, p)

\* Mutant: the operators of a level associate to the right.
MoreOperandsRight(level, p) ==
  IF Kind(p) \notin Levels[level] THEN p
  ELSE Make(Parse(<<"operands", level>>, Operand(level + 1, Advance(p))), BinaryKind(Kind(p)), 2)

\* The operators of one level that follow the operand p has parsed.
MoreOperands(level, p) ==
  IF Kind(p) \notin Levels[level] THEN p
  ELSE Parse(<<"operands", level>>, Make(Operand(level + 1, Advance(p)), BinaryKind(Kind(p)), 2))

ParseBinary(level, p) ==
  IF level > Len(Levels) THEN ParseUnary(p) ELSE MoreOperands(level, Operand(level + 1, p))

\* An assignment takes any operand on its left.
ParseAssignment(p) == IF Kind(p) \in Assignments THEN Make(ParseE(Advance(p)), Kind(p), 2) ELSE p
ParseExpression(p) == ParseAssignment(Operand(1, p))

-----------------------------------------------------------------------------
(* Declarations.                                                           *)

Specifiers == "int" :> IntType @@ "float" :> FloatType @@ "char" :> CharType @@ "void" :> VoidType

ParseTypeSpecifier(p) ==
  IF Kind(p) \in DOMAIN Specifiers THEN [p |-> Advance(p), type |-> Specifiers[Kind(p)]]
  ELSE [p |-> Error(p, "type"), type |-> NoType]

ParseInitializer(p) == IF Kind(p) = "=" THEN ParseE(Advance(p)) ELSE Push(p, None)

ParseVariableDeclaration(type, name, p) ==
  LET sized == Advance(p)
      size == IF Kind(sized) = "number" THEN TextOf(sized) ELSE Unsized
      array == Kind(p) = "["
      declarator == IF array THEN Take(Consume(sized, "number"), "]") ELSE p
      Declared(init) == TypedNode("decl", name, IF array THEN ArrayOf(type, size) ELSE type, init)
  IN Gather(Take(ParseInitializer(declarator), ";"), Len(p.nodes), Declared)

\* A parameter without a name is not kept.
RECURSIVE ParseParameterList(_)
ParseParameterList(p) ==
  LET spec == ParseTypeSpecifier(p)
      named == Advance(spec.p)
      array == Kind(named) = "["
      end == IF array THEN Take(Advance(named), "]") ELSE named
      type == IF array THEN ArrayOf(spec.type, Unsized) ELSE spec.type
      one == IF spec.type = NoType \/ Kind(spec.p) # "name" THEN spec.p
             ELSE Push(end, TypedNode("parameter", TextOf(spec.p), type, <<>>))
  IN IF spec.type # NoType /\ Kind(one) = "," THEN ParseParameterList(Advance(one)) ELSE one

ParseParameters(p) == IF Kind(p) = ")" THEN p ELSE ParseParameterList(p)
ParseBody(p) == IF Kind(p) = "{" THEN Parse(<<"block">>, p) ELSE Push(Take(p, ";"), None)

ParseFunctionDeclaration(type, name, p) ==
  Gather(ParseBody(Take(ParseParameters(Take(p, "(")), ")")), Len(p.nodes),
         LAMBDA kids : TypedNode("function", name, type, kids))

ParseDeclaration(p) ==
  LET spec == ParseTypeSpecifier(p)
      named == Advance(spec.p)
      name == TextOf(spec.p)
  IN IF spec.type = NoType THEN Push(spec.p, None)
     ELSE IF Kind(spec.p) # "name" THEN Push(Error(spec.p, "name"), None)
     ELSE IF Kind(named) = "(" THEN ParseFunctionDeclaration(spec.type, name, named)
     ELSE ParseVariableDeclaration(spec.type, name, named)

-----------------------------------------------------------------------------
(* Statements.                                                             *)

ParseExpressionStatement(p) ==
  IF Kind(p) = ";" THEN Push(Advance(p), Empty) ELSE Take(ParseE(p), ";")

\* ( expression ), after the keyword of a statement.
ParseCondition(p) == Take(ParseE(Take(p, "(")), ")")

\* An expression that may be missing before the token end.
ParseOptional(p, end) == IF Kind(p) = end THEN Push(p, None) ELSE ParseE(p)

ParseElse(p) == IF Kind(p) = "else" THEN ParseS(Advance(p)) ELSE Push(p, None)
ParseIfStatement(p) == Make(ParseElse(ParseS(ParseCondition(Advance(p)))), "if", 3)

ParseWhileStatement(p) == Make(ParseS(ParseCondition(Advance(p))), "while", 2)

ParseForInit(p) ==
  IF Kind(p) = ";" THEN Push(Advance(p), None)
  ELSE IF Kind(p) \in {"int", "float", "char"} THEN ParseS(p)
  ELSE ParseExpressionStatement(p)
ParseForStatement(p) ==
  LET cond == Take(ParseOptional(ParseForInit(Take(Advance(p), "(")), ";"), ";")
      inc == Take(ParseOptional(cond, ")"), ")")
  IN Make(ParseS(inc), "for", 4)

ParseDoStatement(p) == Make(Take(ParseCondition(Take(ParseS(Advance(p)), "while")), ";"), "do", 2)

ParseReturnStatement(p) == Make(Take(ParseOptional(Advance(p), ";"), ";"), "return", 1)

ParseStatement(p) ==
  CASE Kind(p) = "{" -> Parse(<<"block">>, p)
    [] Kind(p) = "if" -> ParseIfStatement(p)
    [] Kind(p) = "while" -> ParseWhileStatement(p)
    [] Kind(p) = "for" -> ParseForStatement(p)
    [] Kind(p) = "do" -> ParseDoStatement(p)
    [] Kind(p) = "return" -> ParseReturnStatement(p)
    [] Kind(p) \in {"break", "continue"} -> Make(Take(Advance(p), ";"), Kind(p), 0)
    [] Kind(p) \in DOMAIN Specifiers -> ParseDeclaration(p)
    [] OTHER -> ParseExpressionStatement(p)

\* The statements up to }; one that could not be parsed is left out.
WithoutNull(p) == IF Last(p.nodes) = None THEN [p EXCEPT !.nodes = Front(@)] ELSE p
ParseStatements(p) ==
  IF AtEnd(p) \/ Kind(p) = "}" THEN p ELSE Parse(<<"statements">>, WithoutNull(ParseS(p)))

ParseCompoundStatement(p) ==
  Take(Gather(ParseStatements(Take(p, "{")), Len(p.nodes), LAMBDA kids : Node("block", "", kids)), "}")

Parse(what, p) ==
  CASE what[1] = "expression" -> ParseExpression(p)
    [] what[1] = "arguments" -> ParseArguments(p)
    [] what[1] = "postfixes" -> Postfixes(p)
    [] what[1] = "unary" -> ParseUnary(p)
    [] what[1] = "operands" -> MoreOperands(what[2], p)
    [] what[1] = "binary" -> ParseBinary(what[2], p)
    [] what[1] = "block" -> ParseCompoundStatement(p)
    [] what[1] = "statement" -> ParseStatement(p)
    [] what[1] = "statements" -> ParseStatements(p)
=============================================================================
