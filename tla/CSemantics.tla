----------------------------- MODULE CSemantics -----------------------------
(***************************************************************************)
(* What a C function does, for its syntax tree: the reference the IR made  *)
(* from it is held to.                                                     *)
(*                                                                         *)
(* The functions it calls are outside; they are given by the sequence of   *)
(* the answers they will return, and the meaning of a function is the      *)
(* sequence of the calls it makes, with their arguments, and what it       *)
(* returns.  A call for which no answer is left stops the evaluation.      *)
(* The variables are in frames, one for each block control is in: a name   *)
(* means the variable of that name in the innermost frame that has one.    *)
(***************************************************************************)
EXTENDS SyntaxTree

\* mode is "run", or why the rest is skipped: "call" (no answer is left),
\* "return", "break" or "continue".  logical tells whether the right operand of
\* some && or || was neither 0 nor 1.
Start(args, answers) ==
  [mode |-> "run", val |-> Undefined, frames |-> <<args>>, answers |-> answers,
   calls |-> <<>>, logical |-> FALSE]

Frame(s, x) == Max({i \in DOMAIN s.frames : x \in DOMAIN s.frames[i]})
ValueOf(s, x) == s.frames[Frame(s, x)][x]
Put(s, x, v) == [s EXCEPT !.frames[Frame(s, x)][x] = v]
Declare(s, x) == [s EXCEPT !.frames[Len(s.frames)] = (x :> Undefined) @@ @]

EnterScope(s) == [s EXCEPT !.frames = Append(@, <<>>)]
LeaveScope(s) == [s EXCEPT !.frames = Front(@)]

RECURSIVE Eval(_, _)

EvalCall(n, s) ==
  LET all == FoldLeft(LAMBDA a, e : LET v == Eval(e, a.s)
                                    IN [s |-> v, args |-> Append(a.args, v.val)],
                      [s |-> s, args |-> <<>>], n.kids)
      made == [all.s EXCEPT !.calls = Append(@, <<n.id, all.args>>)]
  IN IF all.s.mode # "run" THEN all.s
     ELSE IF made.answers = <<>> THEN [made EXCEPT !.mode = "call"]
     ELSE [made EXCEPT !.val = Head(made.answers), !.answers = Tail(@)]

EvalLogical(n, s) ==
  LET l == Eval(n.kids[1], s)
      r == Eval(n.kids[2], l)
  IN IF l.mode # "run" THEN l
     ELSE IF Truth(l.val) = (IF n.kind = "and" THEN 0 ELSE 1)
       THEN [l EXCEPT !.val = Truth(@)]
       ELSE IF r.mode # "run" THEN r
       ELSE [r EXCEPT !.val = Truth(@), !.logical = @ \/ r.val \notin {0, 1}]

Assigned(x, s) == IF s.mode # "run" THEN s ELSE Put(s, x, s.val)

\* One more turn of a loop: the condition, the body, and what comes after it.
RECURSIVE Loop(_, _, _, _)
Loop(cond, body, inc, s) ==
  LET c == IF cond = None THEN [s EXCEPT !.val = 1] ELSE Eval(cond, s)
      b == Eval(body, c)
      next == Eval(inc, IF b.mode = "continue" THEN [b EXCEPT !.mode = "run"] ELSE b)
  IN IF c.mode # "run" \/ c.val = 0 THEN c
     ELSE IF b.mode = "break" THEN [b EXCEPT !.mode = "run"]
     ELSE IF next.mode # "run" THEN next
     ELSE Loop(cond, body, inc, next)

Eval(n, s) ==
  IF s.mode # "run" THEN s
  ELSE LET e == Eval(n.kids[1], s)
           f == Eval(n.kids[2], e)
       IN CASE n.kind \in {"none", "empty"} -> s
            [] n.kind = "literal" -> [s EXCEPT !.val = n.id]
            [] n.kind = "var" -> [s EXCEPT !.val = ValueOf(s, n.id)]
            [] n.kind = "plus" -> e
            [] n.kind = "minus" -> [e EXCEPT !.val = Applied("-", 0, @)]
            [] n.kind = "not" -> [e EXCEPT !.val = Negated(@)]
            [] n.kind \in BinaryOperators -> [f EXCEPT !.val = Applied(n.kind, e.val, @)]
            [] n.kind \in {"and", "or"} -> EvalLogical(n, s)
            [] n.kind = "call" -> EvalCall(n, s)
            [] n.kind \in {"++x", "--x"} ->
                 Assigned(n.kids[1].id, [e EXCEPT !.val = Applied(OperationOf(n.kind), @, 1)])
            [] n.kind \in {"x++", "x--"} ->
                 Put(e, n.kids[1].id, Applied(OperationOf(n.kind), e.val, 1))
            [] n.kind = "=" -> Assigned(n.kids[1].id, Eval(n.kids[2], s))
            [] n.kind \in Assignments \ {"="} ->
                 Assigned(n.kids[1].id, [f EXCEPT !.val = Applied(OperationOf(n.kind), e.val, @)])
            [] n.kind = "decl" ->
                 IF n.kids[1] = None THEN Declare(s, n.id)
                 ELSE Assigned(n.id, Eval(n.kids[1], Declare(s, n.id)))
            [] n.kind = "block" ->
                 LeaveScope(FoldLeft(LAMBDA t, k : Eval(k, t), EnterScope(s), n.kids))
            [] n.kind = "return" -> IF e.mode = "run" THEN [e EXCEPT !.mode = "return"] ELSE e
            [] n.kind = "if" ->
                 IF e.mode # "run" THEN e
                 ELSE Eval(n.kids[IF e.val # 0 THEN 2 ELSE 3], e)
            [] n.kind = "while" -> Loop(n.kids[1], n.kids[2], None, s)
            [] n.kind = "for" ->
                 LeaveScope(Loop(n.kids[2], n.kids[4], n.kids[3], Eval(n.kids[1], EnterScope(s))))
            [] n.kind = "do" ->
                 LET first == IF e.mode = "continue" THEN [e EXCEPT !.mode = "run"] ELSE e
                 IN IF first.mode = "break" THEN [first EXCEPT !.mode = "run"]
                    ELSE IF first.mode # "run" THEN first
                    ELSE Loop(n.kids[2], n.kids[1], None, first)
            [] n.kind \in {"break", "continue"} -> [s EXCEPT !.mode = n.kind]
=============================================================================
