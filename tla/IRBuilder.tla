----------------------------- MODULE IRBuilder -----------------------------
(***************************************************************************)
(* IRBuilder (lib/CodeGen/IRBuilder.cpp): one operator for each visitor,   *)
(* from the builder's state to its state after the visit.                  *)
(*                                                                         *)
(* The builder b holds the blocks made so far, cur (CurrentBlock), last    *)
(* (LastExprValue), slots (LocalVars) and the number of temporaries.  In   *)
(* the tree it is given, Sema has put the number of its declaration for    *)
(* the name of every variable.  Types are left out.                        *)
(***************************************************************************)
EXTENDS IRFunctions, SyntaxTree

Absent(n) == n = None

-----------------------------------------------------------------------------
(* Emitting.                                                               *)

Emit(b, inst) == [b EXCEPT !.blocks[b.cur].code = Append(@, inst)]
At(b, block) == [b EXCEPT !.cur = block]
Keep(b, v) == [b EXCEPT !.last = v]      \* LastExprValue = v

\* createTemp: the builder with one more temporary, which is Temp(b.temps).
NewTemp(b) == [b EXCEPT !.temps = @ + 1]

\* Mutant: the temporary is not counted, and the next one is the same.
EmitResultUncounted(b, op, callee, args) ==
  LET r == Temp(b.temps + 1) IN Keep(Emit(b, Instruction(op, callee, r, args)), r)

\* An instruction whose result is a new temporary and becomes LastExprValue.
EmitResult(b, op, callee, args) ==
  LET r == Temp(b.temps + 1) IN Keep(Emit(NewTemp(b), Instruction(op, callee, r, args)), r)

NewBlocks(b, n) == [b EXCEPT !.blocks = @ \o [i \in 1..n |-> EmptyBlock]]
NextBlock(b) == Len(b.blocks) + 1

AddSuccessor(b, from, to) ==
  LET linked == [b EXCEPT !.blocks[from].succs = Append(@, to)]
  IN [linked EXCEPT !.blocks[to].preds = Append(@, from)]

\* A branch at the end of the current block, with the edges of block from.
Jump(b, from, to) == AddSuccessor(Emit(b, Br(to)), from, to)
Branch(b, from, v, yes, no) ==
  AddSuccessor(AddSuccessor(Emit(b, CondBr(v, yes, no)), from, yes), from, no)

\* Start a block of a loop with its label.
Enter(b, block) == Emit(At(b, block), Label)

Done(b) == Terminated(b.blocks[b.cur])
JumpUnlessDone(b, from, to) == IF Done(b) THEN b ELSE Jump(b, from, to)

-----------------------------------------------------------------------------
(* Expressions.                                                            *)

RECURSIVE Visit(_, _)

VisitDeclRefExpr(n, b) == EmitResult(b, "load", 0, <<b.slots[n.id]>>)

EmitBinaryOp(n, b) ==
  LET l == Visit(n.kids[1], b)
      r == Visit(n.kids[2], l)
  IN EmitResult(r, n.kind, 0, <<l.last, r.last>>)

\* The blocks are made before the left operand is visited.  The short-circuit
\* edge leaves the block the left operand ended in, the other edge leaves the
\* block the right operand started in.
VisitLogical(n, b) ==
  LET rhs == NextBlock(b)
      end == rhs + 1
      l == Visit(n.kids[1], NewBlocks(b, 2))
      test == IF n.kind = "and" THEN l ELSE EmitResult(l, "not", 0, <<l.last>>)
      branched == Keep(Branch(test, l.cur, test.last, rhs, end), l.last)
      r == Visit(n.kids[2], At(branched, rhs))
      joined == NewTemp(At(Jump(r, rhs, end), end))
      short == Const(IF n.kind = "and" THEN 0 ELSE 1)
  IN Keep(Emit(joined, Phi(Temp(joined.temps), <<short, r.last>>, <<l.cur, rhs>>)),
          Temp(joined.temps))

\* Assignment to anything but a variable is dropped, and the last value stays.  The
\* value loaded for a compound assignment is not the last value while the right
\* operand is visited.
EmitAssignment(n, b) ==
  IF n.kids[1].kind # "var" THEN b
  ELSE LET slot == b.slots[n.kids[1].id]
           old == EmitResult(b, "load", 0, <<slot>>)
           r == Visit(n.kids[2], IF n.kind = "=" THEN b ELSE Keep(old, b.last))
           v == IF n.kind = "=" THEN r
                ELSE EmitResult(r, OperationOf(n.kind), 0, <<old.last, r.last>>)
       IN Emit(v, Store(v.last, slot))

\* ++ and --, before and after.
VisitIncDec(n, b) ==
  LET slot == b.slots[n.kids[1].id]
      old == EmitResult(b, "load", 0, <<slot>>)
      new == EmitResult(old, OperationOf(n.kind), 0, <<old.last, Const(1)>>)
  IN IF n.kids[1].kind # "var" THEN b
     ELSE Keep(Emit(new, Store(new.last, slot)),
               IF n.kind \in {"++x", "--x"} THEN new.last ELSE old.last)

\* Address-of, dereference and ~ become a not.
VisitUnary(n, b) ==
  LET e == Visit(n.kids[1], b)
  IN CASE n.kind = "plus" -> e
       [] n.kind = "minus" -> EmitResult(e, "-", 0, <<Const(0), e.last>>)
       [] OTHER -> EmitResult(e, "not", 0, <<e.last>>)

VisitCallExpr(n, b) ==
  LET all == FoldLeft(LAMBDA s, e : LET v == Visit(e, s.b)
                                    IN [b |-> v, args |-> Append(s.args, v.last)],
                      [b |-> b, args |-> <<>>], n.kids)
  IN EmitResult(all.b, "call", n.id, all.args)

-----------------------------------------------------------------------------
(* Statements.                                                             *)

VisitVarDecl(n, b) ==
  LET slot == Temp(b.temps + 1)
      declared == [Emit(NewTemp(b), Alloca(slot)) EXCEPT !.slots = (n.id :> slot) @@ @]
      init == Visit(n.kids[1], declared)
  IN IF Absent(n.kids[1]) THEN declared ELSE Emit(init, Store(init.last, slot))

VisitCompoundStmt(n, b) == FoldLeft(LAMBDA s, e : Visit(e, s), b, n.kids)

VisitReturnStmt(n, b) ==
  IF Absent(n.kids[1]) THEN Emit(b, Ret(Null))
  ELSE LET v == Visit(n.kids[1], b) IN Emit(v, Ret(v.last))

\* The end block is made after both branches were visited, if one of them does
\* not return.  The jumps to it are put in the blocks the branches started in.
VisitIfStmt(n, b) ==
  LET hasElse == ~Absent(n.kids[3])
      c == Visit(n.kids[1], b)
      then == NextBlock(c)
      else == then + 1
      open == IF hasElse THEN Branch(NewBlocks(c, 2), c.cur, c.last, then, else)
              ELSE NewBlocks(c, 1)
      t == Visit(n.kids[2], At(open, then))
      e == IF hasElse THEN Visit(n.kids[3], At(t, else)) ELSE t
      end == NextBlock(e)
      ended == IF hasElse THEN NewBlocks(e, 1)
               ELSE Branch(At(NewBlocks(e, 1), c.cur), c.cur, c.last, then, end)
      left == IF Done(t) THEN ended ELSE Jump(At(ended, then), then, end)
      right == IF hasElse /\ ~Done(e) THEN Jump(At(left, else), else, end) ELSE left
  IN IF hasElse /\ Done(t) /\ Done(e) THEN e ELSE At(right, end)

\* Mutant: the edge back to the condition is not added.
VisitWhileStmtNoBackEdge(n, b) ==
  LET cond == NextBlock(b)
      c == Visit(n.kids[1], Enter(Jump(NewBlocks(b, 3), b.cur, cond), cond))
      s == Visit(n.kids[2], Enter(Branch(c, cond, c.last, cond + 1, cond + 2), cond + 1))
  IN Enter(IF Done(s) THEN s ELSE Emit(s, Br(cond)), cond + 2)

\* Mutant: the edge into the loop is not added.
VisitWhileStmtNotEntered(n, b) ==
  LET cond == NextBlock(b)
      c == Visit(n.kids[1], Enter(Emit(NewBlocks(b, 3), Br(cond)), cond))
      s == Visit(n.kids[2], Enter(Branch(c, cond, c.last, cond + 1, cond + 2), cond + 1))
  IN Enter(JumpUnlessDone(s, cond + 1, cond), cond + 2)

\* In the loops the branch is put in the block the condition or the body ended
\* in, and the edges are those of the block it started in.
VisitWhileStmt(n, b) ==
  LET cond == NextBlock(b)
      body == cond + 1
      end == cond + 2
      c == Visit(n.kids[1], Enter(Jump(NewBlocks(b, 3), b.cur, cond), cond))
      s == Visit(n.kids[2], Enter(Branch(c, cond, c.last, body, end), body))
  IN Enter(JumpUnlessDone(s, body, cond), end)

\* Mutant: the increment is visited before the body.
VisitForStmtIncFirst(n, b) ==
  LET i == IF Absent(n.kids[1]) THEN b ELSE Visit(n.kids[1], b)
      cond == NextBlock(i)
      start == Enter(Jump(NewBlocks(i, 3), i.cur, cond), cond)
      c == IF Absent(n.kids[2]) THEN start ELSE Visit(n.kids[2], start)
      taken == Enter(IF Absent(n.kids[2]) THEN Jump(start, cond, cond + 1)
                     ELSE Branch(c, cond, c.last, cond + 1, cond + 2), cond + 1)
      stepped == IF Absent(n.kids[3]) THEN taken ELSE Visit(n.kids[3], taken)
  IN Enter(JumpUnlessDone(Visit(n.kids[4], stepped), cond + 1, cond), cond + 2)

VisitForStmt(n, b) ==
  LET i == IF Absent(n.kids[1]) THEN b ELSE Visit(n.kids[1], b)
      cond == NextBlock(i)
      body == cond + 1
      inc == cond + 2
      end == cond + 3
      start == Enter(Jump(NewBlocks(i, 4), i.cur, cond), cond)
      c == Visit(n.kids[2], start)
      s == Visit(n.kids[4], Enter(IF Absent(n.kids[2]) THEN Jump(start, cond, body)
                                  ELSE Branch(c, cond, c.last, body, end), body))
      next == Enter(JumpUnlessDone(s, body, inc), inc)
      stepped == IF Absent(n.kids[3]) THEN next ELSE Visit(n.kids[3], next)
  IN Enter(Jump(stepped, inc, cond), end)

VisitDoStmt(n, b) ==
  LET body == NextBlock(b)
      cond == body + 1
      end == body + 2
      s == Visit(n.kids[1], Enter(Jump(NewBlocks(b, 3), b.cur, body), body))
      c == Visit(n.kids[2], Enter(JumpUnlessDone(s, body, cond), cond))
  IN Enter(Branch(c, cond, c.last, body, end), end)

\* break and continue emit nothing; an array element is the constant 0.
Visit(n, b) ==
  CASE n.kind = "literal" -> Keep(b, Const(n.id))
    [] n.kind = "element" -> Keep(b, Const(0))
    [] n.kind = "var" -> VisitDeclRefExpr(n, b)
    [] n.kind \in BinaryOperators -> EmitBinaryOp(n, b)
    [] n.kind \in {"and", "or"} -> VisitLogical(n, b)
    [] n.kind \in Assignments -> EmitAssignment(n, b)
    [] n.kind \in Increments -> VisitIncDec(n, b)
    [] n.kind \in UnaryOperators -> VisitUnary(n, b)
    [] n.kind = "call" -> VisitCallExpr(n, b)
    [] n.kind = "decl" -> VisitVarDecl(n, b)
    [] n.kind = "block" -> VisitCompoundStmt(n, b)
    [] n.kind = "return" -> VisitReturnStmt(n, b)
    [] n.kind = "if" -> VisitIfStmt(n, b)
    [] n.kind = "while" -> VisitWhileStmt(n, b)
    [] n.kind = "for" -> VisitForStmt(n, b)
    [] n.kind = "do" -> VisitDoStmt(n, b)
    [] n.kind \in {"none", "empty", "break", "continue"} -> b

-----------------------------------------------------------------------------
\* A function [params, ret, body]: every parameter is stored to a slot in the
\* entry block, and a void function ends with one more return.  A declaration
\* has no body and gets the entry block all the same.
VisitFunctionDecl(f) ==
  LET entry == [blocks |-> <<EmptyBlock>>, cur |-> 1, last |-> Null, temps |-> 0,
                slots |-> <<>>]
      Slots[i \in 0..Len(f.params)] ==
        IF i = 0 THEN entry
        ELSE LET b == NewTemp(Slots[i - 1])
                 slot == Temp(b.temps)
             IN [Emit(Emit(b, Alloca(slot)), Store(Param(i), slot)) EXCEPT !.slots = (i :> slot) @@ @]
      body == Visit(f.body, Slots[Len(f.params)])
  IN IF f.ret = VoidType THEN Emit(body, Ret(Null)) ELSE body
=============================================================================
