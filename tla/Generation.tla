----------------------------- MODULE Generation -----------------------------
(***************************************************************************)
(* A function on its way from the syntax tree to IR the verifier accepts:  *)
(* Sema analyzes it, IRBuilder makes the IR, IRVerifier checks it, and the *)
(* IR is executed, block by block, to be compared with what the source     *)
(* means.                                                                  *)
(*                                                                         *)
(* The execution follows the labels of the branches, as the backend does.  *)
(***************************************************************************)
EXTENDS IRBuilder, IRVerifier, IRSemantics, CSemantics, StaticRules

CONSTANTS
  Sources,      \* functions [name, params, ret, body]
  Prototypes,   \* the functions declared before them, without a body
  Answers,      \* what a called function may return
  MaxCalls      \* bound: the calls of an execution

VARIABLES
  source,     \* the function
  sema,       \* the errors reported, and the body with its names resolved
  ir,         \* the builder after it was visited
  phase,      \* "analyze", "refused", "generate", "verify", "rejected", "run", "done" or "stuck"
  at, from,   \* the block about to be executed, and the one before it
  env, mem,   \* the temporaries and the stack slots
  answers,    \* what the calls have returned so far
  calls,      \* the calls, with their arguments
  result      \* the returned value

vars == <<source, sema, ir, phase, at, from, env, mem, answers, calls, result>>
run == <<at, from, env, mem, answers, calls, result>>

Analyzer == INSTANCE Sema

Init ==
  /\ source \in Sources
  /\ sema = <<>>
  /\ ir = <<>>
  /\ phase = "analyze"
  /\ at = 1 /\ from = 1
  /\ env = <<>> /\ mem = <<>>
  /\ answers = <<>> /\ calls = <<>>
  /\ result = Undefined

\* No IR is made after an error.
Analyze ==
  /\ phase = "analyze"
  /\ LET s == Analyzer!Analyze(Append(Prototypes, source))
     IN sema' = [errors |-> s.errors, node |-> s.node]
  /\ phase' = IF sema'.errors = {} THEN "generate" ELSE "refused"
  /\ UNCHANGED <<source, ir, run>>

GenerateIR ==
  /\ phase = "generate"
  /\ ir' = VisitFunctionDecl([source EXCEPT !.body = sema.node])
  /\ env' = [t \in 1..ir'.temps |-> Undefined]
  /\ mem' = [t \in 1..ir'.temps |-> Undefined]
  /\ phase' = "verify"
  /\ UNCHANGED <<source, sema, at, from, answers, calls, result>>

Verify ==
  /\ phase = "verify"
  /\ phase' = IF VerifyFunction(ir.blocks, Len(source.params)) THEN "run" ELSE "rejected"
  /\ UNCHANGED <<source, sema, ir, run>>

-----------------------------------------------------------------------------
(* Execution, block after block.                                           *)

\* A block that ends without a terminator leaves the execution stuck.
RunBlock ==
  /\ phase = "run"
  /\ Len(answers) + CallsIn(ir.blocks[at].code) <= MaxCalls
  /\ \E given \in [1..CallsIn(ir.blocks[at].code) -> Answers] :
       LET s == ExecuteBlock(ir.blocks,
                  [mode |-> "next", to |-> at, from |-> from, env |-> env, entry |-> env,
                   mem |-> mem, answers |-> given, calls |-> calls, val |-> Undefined])
       IN /\ env' = s.env /\ mem' = s.mem
          /\ calls' = s.calls
          /\ answers' = answers \o given
          /\ result' = s.val
          /\ at' = s.to /\ from' = s.from
          /\ phase' = CASE s.mode = "next" -> "run" [] s.mode = "run" -> "stuck" [] OTHER -> s.mode
  /\ UNCHANGED <<source, sema, ir>>

Next == Analyze \/ GenerateIR \/ Verify \/ RunBlock

Spec == Init /\ [][Next]_vars

-----------------------------------------------------------------------------
(* Properties.                                                             *)

\* The types of the functions declared in the file.
Globals ==
  LET unit == Append(Prototypes, source)
      Declared(name) == {i \in DOMAIN unit : unit[i].name = name}
  IN [name \in {unit[i].name : i \in DOMAIN unit} |->
        LET f == unit[Min(Declared(name))] IN FunctionType(f.ret, f.params)]

\* Sema, with its stack of scopes, its count of the loops it is in and the type
\* of the last expression, all of which have to be as before after every visit
\* of a part, refuses the functions that break a rule of the language and no
\* others.  Not said of functions with a variable used in its own initializer, a
\* pointer joined by && or ||, or a value put between an array and a pointer: of
\* these the tests and comments say one thing and Sema does another.
RefusedIfIllegal ==
  phase \in {"refused", "generate"} /\ ~Contested(source, Globals) =>
    (phase = "generate" <=> Legal(source, Globals))

\* The builder's state is well formed: instructions use the temporaries made so
\* far, each made once, and branches, edges and phi nodes name blocks of the
\* function.
TypeOK ==
  /\ phase \in {"analyze", "refused", "generate", "verify", "rejected", "run", "done", "stuck"}
  /\ phase \notin {"analyze", "refused", "generate"} =>
       LET blocks == DOMAIN ir.blocks
           code == FlattenSeq([i \in blocks |-> ir.blocks[i].code])
           results == SelectSeq([k \in DOMAIN code |-> code[k].res], LAMBDA v : v # Null)
       IN /\ {ir.cur, at, from} \subseteq blocks
          /\ IsInjective(results)
          /\ \A v \in ToSet(results) : v[1] = "temp" /\ v[2] \in 1..ir.temps
          /\ \A i \in blocks :
               ToSet(ir.blocks[i].succs) \cup ToSet(ir.blocks[i].preds) \subseteq blocks
          /\ \A k \in DOMAIN code :
               /\ ToSet(code[k].to) \cup ToSet(code[k].from) \subseteq blocks
               /\ \A v \in ToSet(code[k].args) : v[1] = "temp" => v \in ToSet(results)
          /\ DOMAIN env = 1..ir.temps /\ DOMAIN mem = 1..ir.temps

\* The blocks whose branches lead to block i.
BranchingTo(i) == {j \in DOMAIN ir.blocks : i \in ToSet(Targets(ir.blocks[j]))}

\* Every block lists the targets of its branch as its successors.
EdgesExact == \A i \in DOMAIN ir.blocks : ir.blocks[i].succs = Targets(ir.blocks[i])

\* Every phi node has a value for each block control comes from.
PhisExact ==
  \A i \in DOMAIN ir.blocks : \A inst \in ToSet(ir.blocks[i].code) :
    inst.op = "phi" => ToSet(inst.from) = BranchingTo(i)

\* What the source does with the answers so far.
Meaning ==
  Eval(source.body,
       Start([x \in DOMAIN source.params |-> Argument(x)], answers))

\* The blocks the visitors of IRBuilder make, entered and left in the right
\* order, do what the source says: a function the verifier accepts makes the
\* calls of its source, in order and with the same arguments, and returns what
\* the source returns; a name that is declared again in an inner block means the
\* inner variable until the block is left.  The source has no break, continue,
\* array element or pointer (the builder drops them), no right operand of && or
\* || was other than 0 or 1 (it becomes the result as it is), and the phi nodes
\* have to be exact.
Dropped == {"break", "continue", "element", "addr", "deref", "~"}

FaithfulExecution ==
  phase \in {"run", "done", "stuck"} /\ PhisExact /\ Kinds(source.body) \cap Dropped = {} =>
    LET m == Meaning
    IN ~m.logical =>
         /\ IsPrefix(calls, m.calls)
         /\ phase = "done" =>
              /\ calls = m.calls
              /\ IF source.ret = VoidType THEN m.mode \in {"run", "return"}
                 ELSE m.mode = "return" /\ result = m.val

\* What the verifier accepts can be executed: control never falls off the end
\* of a block and no branch depends on a value that was not computed, unless
\* a phi node has no value for the block control came from.
NeverStuck == phase = "stuck" => ~PhisExact

\* Functions in which the block a visitor saved is still the current block when
\* it adds the edges: what branches or loops have in them is straight-line code,
\* and so are the conditions of loops and the right operands of && and ||.
StraightLine(n) == Kinds(n) \cap {"if", "while", "for", "do", "and", "or"} = {}
Returns(n) == "return" \in Kinds(n)

PlainNode(n) ==
  CASE n.kind \in {"and", "or"} -> StraightLine(n.kids[2])
    [] n.kind = "if" -> /\ StraightLine(n.kids[2]) /\ StraightLine(n.kids[3])
                        /\ ~(Returns(n.kids[2]) /\ Returns(n.kids[3]))
    [] n.kind = "while" -> StraightLine(n.kids[1]) /\ StraightLine(n.kids[2])
    [] n.kind = "do" -> ~Returns(n) /\ \A k \in ToSet(n.kids) : StraightLine(k)
    [] n.kind = "for" -> /\ ~Returns(n) /\ \A k \in ToSet(n.kids) : StraightLine(k)
                         /\ n.kids[2] # None
    [] n.kind = "block" ->
         \A i \in 1..Len(n.kids) - 1 : n.kids[i].kind \in {"return", "block"} => ~Returns(n.kids[i])
    [] OTHER -> TRUE

Plain(f) ==
  /\ f.body # None
  /\ \A n \in Nodes(f.body) : PlainNode(n)
  /\ IF f.ret = VoidType THEN ~Returns(f.body) ELSE Last(f.body.kids).kind = "return"

\* For these functions the IR is what the passes take it for: the verifier
\* accepts it, successor lists are the targets of the branches, and a phi node
\* has a value for each of the blocks that branch to it.
PlainFunctionsExact ==
  phase \notin {"analyze", "refused", "generate"} /\ Plain(source) => phase # "rejected" /\ EdgesExact /\ PhisExact

\* Where code cannot be reached (a condition after a body that returns, the end
\* of a loop without a condition) the builder leaves blocks nothing leads to, but
\* never a cycle of blocks nothing leads to: the walk of DominatorTree::dominates
\* up the parents, which has no other end, ends for every function, verified or
\* not.
NoRootlessCycle ==
  phase \notin {"analyze", "refused", "generate"} =>
    LET blocks == DOMAIN ir.blocks
        roots == {1} \cup {i \in blocks : ir.blocks[i].preds = <<>>}
        after == [i \in blocks |-> ToSet(ir.blocks[i].succs)]
    IN blocks \subseteq ReachedFrom(roots, after, Len(ir.blocks))
=============================================================================
