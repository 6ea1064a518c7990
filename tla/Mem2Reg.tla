------------------------------ MODULE Mem2Reg ------------------------------
(***************************************************************************)
(* Mem2RegPass (lib/CodeGen/Transforms.cpp): one alloca after the other,   *)
(* phi nodes are inserted, the blocks are renamed down the dominator tree  *)
(* and the loads' results are replaced; at the end the loads, stores and   *)
(* allocas are removed.  Then the function as it was and the function as   *)
(* it is now are executed side by side.                                    *)
(*                                                                         *)
(* An instruction loads a variable, stores to one, is a call, or is any    *)
(* other instruction; the last two are reduced to one operand they use.    *)
(* What is stored is a constant of its own or the result of a load.  An    *)
(* instruction is known by its place in its block before the pass, and     *)
(* keeps the place when others are removed.  The dominator tree is the     *)
(* exact one: module DominatorTree shows that this is what run computes    *)
(* for functions without unreachable blocks.                               *)
(***************************************************************************)
EXTENDS ControlFlowGraph, Sequences

CONSTANTS
  NumVars,     \* the allocas of the entry block, in order
  Programs     \* the functions: [graph, code]

Var == 1..NumVars

\* Values: <<"const", b, i>> is what the i-th instruction of b stores,
\* <<"load", b, i>> is what it loads, <<"phi", x, b>> the phi node for x in b.
NoValue == <<"none", 0, 0>>
Undefined == <<"undefined", 0, 0>>

Load(x) == [op |-> "load", var |-> x, val |-> NoValue]
Store(x, v) == [op |-> "store", var |-> x, val |-> v]
Use(v) == [op |-> "use", var |-> 0, val |-> v]
Call(v) == [op |-> "call", var |-> 0, val |-> v]

Value == {"none", "undefined", "const", "load", "phi"} \X Nat \X Nat
Instr == [op : {"load", "store", "use", "call"}, var : Nat, val : Value]

\* Nothing branches to the entry, as IRBuilder builds functions, and SimplifyCFG,
\* which runs right before the pass, leaves no unreachable block.  The result of a
\* load is used where the load has been executed on all paths, and not stored to
\* the variable it was loaded from (replaceLoadsAndRemoveStores would then depend
\* on the addresses of the values).
ExecutedBefore(g, d, j, b, i) == (d # b /\ Dominates(g, d, b)) \/ (d = b /\ j < i)

WellFormed(g, c) ==
  /\ g = Built(g.succs)
  /\ g.succs \in [Block -> SUBSET (Block \ {Entry})]
  /\ ReachableBlocks(g) = Block
  /\ c \in [Block -> Seq(Instr)]
  /\ \A b \in Block : \A i \in DOMAIN c[b] :
       LET inst == c[b][i]
           v == inst.val
       IN /\ inst.op \in {"load", "store"} => inst.var \in Var
          /\ inst.op # "load" => v[1] \in {"const", "load"}
          /\ inst.op # "load" /\ v[1] = "load" =>
               /\ v[2] \in Block /\ v[3] \in DOMAIN c[v[2]] /\ c[v[2]][v[3]].op = "load"
               /\ ExecutedBefore(g, v[2], v[3], b, i)
               /\ inst.op = "store" => c[v[2]][v[3]].var # inst.var

ASSUME NumVarsAssumption == NumVars \in Nat \ {0}

ASSUME ProgramsAssumption == \A p \in Programs : WellFormed(p.graph, p.code)

VARIABLES
  graph,         \* the blocks and their edges
  source,        \* the instructions of the blocks before the pass
  code,          \* the instructions now
  phase,         \* "insert", "rename", "replace", "remove" or "run"
  var,           \* the alloca in work
  phiBlocks,     \* the blocks with a phi node for each variable
  incoming,      \* the incoming values of the phi nodes
  worklist,      \* Worklist of insertPhiNodes
  visited,       \* Visited of insertPhiNodes
  currentDef,    \* CurrentDef; NoValue where it has no entry
  renamed,       \* Visited of renameInBlock
  replacements,  \* Replacements: pairs of a load and its new value
  at,            \* execution: the block, the next instruction of it
  mem,           \* execution of source: the contents of the variables
  loaded,        \* execution of source: the results of the loads
  phiValue,      \* execution of code: the values of the phi nodes
  seen,          \* what the last instruction with an operand saw in source ...
  seenNow        \* ... and in code

pass == <<var, phiBlocks, incoming, worklist, visited, currentDef, renamed, replacements>>
run == <<at, mem, loaded, phiValue, seen, seenNow>>
vars == <<graph, source, code, phase, pass, run>>

-----------------------------------------------------------------------------
(* The function.                                                           *)

\* computeDefBlocks: the blocks with a store.
DefBlocks(x) ==
  {b \in Block : \E i \in DOMAIN source[b] :
     source[b][i].op = "store" /\ source[b][i].var = x}

StrictlyDominates(d, b) == d # b /\ Dominates(graph, d, b)

\* The parent in the dominator tree; none for the entry.
IDoms(b) ==
  {d \in Block : /\ StrictlyDominates(d, b)
                 /\ \A e \in Block : StrictlyDominates(e, b) => Dominates(graph, e, d)}

Accesses(b) == {i \in DOMAIN code[b] : code[b][i].op \in {"load", "store"} /\ code[b][i].var = var}

Init ==
  /\ \E p \in Programs : graph = p.graph /\ source = p.code /\ code = p.code
  /\ phase = "insert"
  /\ var = 1
  /\ phiBlocks = [x \in Var |-> {}]
  /\ incoming = [x \in Var |-> [b \in Block |-> [p \in Block |-> NoValue]]]
  /\ worklist = DefBlocks(1)
  /\ visited = DefBlocks(1)
  /\ currentDef = [b \in Block |-> NoValue]
  /\ renamed = {}
  /\ replacements = {}
  /\ at = [block |-> Entry, next |-> 1]
  /\ mem = [x \in Var |-> Undefined]
  /\ loaded = [b \in Block |-> [i \in DOMAIN source[b] |-> Undefined]]
  /\ phiValue = [x \in Var |-> [b \in Block |-> Undefined]]
  /\ seen = Undefined
  /\ seenNow = Undefined

-----------------------------------------------------------------------------
(* insertPhiNodes.                                                         *)

\* computeDominanceFrontier({b}): of the successors of b only.
Frontier(b) == {s \in graph.succs[b] : ~Dominates(graph, b, s)}

\* Mutant: Visited.insert is missing.
VisitedForgotten(b) == visited

MarkVisited(b) == visited \cup Frontier(b)

InsertPhis(b) ==
  /\ phase = "insert"
  /\ IsNext(b, worklist)
  /\ phiBlocks' = [phiBlocks EXCEPT ![var] = @ \cup Frontier(b)]
  /\ worklist' = (worklist \ {b}) \cup (Frontier(b) \ (visited \cup phiBlocks[var]))
  /\ visited' = MarkVisited(b)
  /\ UNCHANGED <<graph, source, code, phase, var, incoming, currentDef, renamed,
                 replacements, run>>

StartRenaming ==
  /\ phase = "insert"
  /\ worklist = {}
  /\ phase' = "rename"
  /\ UNCHANGED <<graph, source, code, pass, run>>

-----------------------------------------------------------------------------
(* renameInBlock.                                                          *)

\* The value the block begins with: its phi node, or what its parent in the
\* tree ended with.
ValueAtStart(b) ==
  IF b \in phiBlocks[var] THEN <<"phi", var, b>>
  ELSE IF \E d \in IDoms(b) : TRUE THEN currentDef[CHOOSE d \in IDoms(b) : TRUE]
  ELSE NoValue

\* The value of the variable just before instruction i of block b.
ValueBefore(b, i) ==
  LET stores == {j \in Accesses(b) : j < i /\ code[b][j].op = "store"}
  IN IF stores = {} THEN ValueAtStart(b)
     ELSE code[b][CHOOSE j \in stores : \A k \in stores : k <= j].val

End(b) == Len(source[b]) + 1

ValueAtEnd(b) == ValueBefore(b, End(b))

\* Mutant: the phi nodes are given the value the block began with.
IncomingFromStart(b) ==
  [s \in Block |-> IF s \in graph.succs[b] \cap phiBlocks[var]
                     THEN [incoming[var][s] EXCEPT ![b] = ValueAtStart(b)]
                     ELSE incoming[var][s]]

\* Mutant: back edges are forgotten.
IncomingForwardOnly(b) ==
  [s \in Block |-> IF s \in (graph.succs[b] \cap phiBlocks[var]) \ renamed
                     THEN [incoming[var][s] EXCEPT ![b] = ValueAtEnd(b)]
                     ELSE incoming[var][s]]

\* The phi nodes of the successors get the value the block ends with.
Incoming(b) ==
  [s \in Block |-> IF s \in graph.succs[b] \cap phiBlocks[var]
                     THEN [incoming[var][s] EXCEPT ![b] = ValueAtEnd(b)]
                     ELSE incoming[var][s]]

\* A block is renamed after its parent in the tree.  The code fills in the phi
\* nodes after it has visited the children, which does not change CurrentDef
\* of the block.
RenameInBlock(b) ==
  /\ phase = "rename"
  /\ b \notin renamed
  /\ IDoms(b) \subseteq renamed
  /\ \A c \in Block \ renamed : IDoms(c) \subseteq renamed => b <= c
  /\ currentDef' = [currentDef EXCEPT ![b] = ValueAtEnd(b)]
  /\ replacements' = replacements \cup
       {r \in {<<<<"load", b, i>>, ValueBefore(b, i)>> :
                i \in {j \in Accesses(b) : code[b][j].op = "load"}} : r[2] # NoValue}
  /\ incoming' = [incoming EXCEPT ![var] = Incoming(b)]
  /\ renamed' = renamed \cup {b}
  /\ UNCHANGED <<graph, source, code, phase, var, phiBlocks, worklist, visited, run>>

StartReplacing ==
  /\ phase = "rename"
  /\ \A b \in Block \ renamed : ~(IDoms(b) \subseteq renamed)
  /\ phase' = "replace"
  /\ UNCHANGED <<graph, source, code, pass, run>>

-----------------------------------------------------------------------------
(* replaceLoadsAndRemoveStores and the end of run.                         *)

Replaced(v) ==
  IF \E r \in replacements : r[1] = v
    THEN (CHOOSE r \in replacements : r[1] = v)[2] ELSE v

\* Mutant: the operands of stores are the only ones replaced.
ReplacedInStores(inst) ==
  IF inst.op = "store" THEN [inst EXCEPT !.val = Replaced(inst.val)] ELSE inst

\* Loads, stores and allocas themselves are skipped, and so are the arguments
\* of calls ("would need setArg").
ReplacedIn(inst) ==
  IF inst.op = "use" THEN [inst EXCEPT !.val = Replaced(inst.val)] ELSE inst

\* All uses of the loads' results are replaced, except in stores; then the
\* next alloca follows.
ReplaceLoads ==
  /\ phase = "replace"
  /\ code' = [b \in Block |-> [i \in DOMAIN code[b] |-> ReplacedIn(code[b][i])]]
  /\ incoming' = [x \in Var |-> [b \in Block |-> [p \in Block |->
                     Replaced(incoming[x][b][p])]]]
  /\ IF var < NumVars
       THEN /\ phase' = "insert"
            /\ var' = var + 1
            /\ worklist' = DefBlocks(var + 1)
            /\ visited' = DefBlocks(var + 1)
            /\ currentDef' = [b \in Block |-> NoValue]
            /\ renamed' = {}
            /\ replacements' = {}
       ELSE phase' = "remove" /\ UNCHANGED <<var, worklist, visited, currentDef, renamed,
                                             replacements>>
  /\ UNCHANGED <<graph, source, phiBlocks, run>>

\* Loads, stores and allocas are removed; then the program starts.
RemoveInstructions ==
  /\ phase = "remove"
  /\ code' = [b \in Block |->
                 [i \in {j \in DOMAIN code[b] : code[b][j].op \in {"use", "call"}} |-> code[b][i]]]
  /\ phase' = "run"
  /\ UNCHANGED <<graph, source, pass, run>>

-----------------------------------------------------------------------------
(* Execution.                                                              *)

\* A value of the function as it was.
ResultOf(v) == IF v[1] = "load" THEN loaded[v[2]][v[3]] ELSE v

\* A value of the transformed function: no load is left.
ValueNow(v) ==
  IF v[1] = "phi" THEN phiValue[v[2]][v[3]]
  ELSE IF v[1] = "const" THEN v ELSE Undefined

InstructionIs(ops) ==
  /\ phase = "run"
  /\ at.next \in DOMAIN source[at.block]
  /\ source[at.block][at.next].op \in ops

Instruction == source[at.block][at.next]

ExecuteLoad ==
  /\ InstructionIs({"load"})
  /\ loaded' = [loaded EXCEPT ![at.block][at.next] = mem[Instruction.var]]
  /\ at' = [at EXCEPT !.next = @ + 1]
  /\ UNCHANGED <<graph, source, code, phase, pass, mem, phiValue, seen, seenNow>>

ExecuteStore ==
  /\ InstructionIs({"store"})
  /\ mem' = [mem EXCEPT ![Instruction.var] = ResultOf(Instruction.val)]
  /\ at' = [at EXCEPT !.next = @ + 1]
  /\ UNCHANGED <<graph, source, code, phase, pass, loaded, phiValue, seen, seenNow>>

\* What is not removed is executed in both functions.
ExecuteUse ==
  /\ InstructionIs({"use", "call"})
  /\ seen' = ResultOf(Instruction.val)
  /\ seenNow' = ValueNow(code[at.block][at.next].val)
  /\ at' = [at EXCEPT !.next = @ + 1]
  /\ UNCHANGED <<graph, source, code, phase, pass, mem, loaded, phiValue>>

\* The phi nodes of the next block take the values of the edge, all at once.
EnterBlock(b) ==
  /\ phase = "run"
  /\ at.next = End(at.block)
  /\ b \in graph.succs[at.block]
  /\ at' = [block |-> b, next |-> 1]
  /\ phiValue' = [x \in Var |-> IF b \in phiBlocks[x]
                     THEN [phiValue[x] EXCEPT ![b] = ValueNow(incoming[x][b][at.block])]
                     ELSE phiValue[x]]
  /\ UNCHANGED <<graph, source, code, phase, pass, mem, loaded, seen, seenNow>>

Next ==
  \/ \E b \in Block : InsertPhis(b) \/ RenameInBlock(b) \/ EnterBlock(b)
  \/ StartRenaming
  \/ StartReplacing
  \/ ReplaceLoads
  \/ RemoveInstructions
  \/ ExecuteLoad
  \/ ExecuteStore
  \/ ExecuteUse

Spec == Init /\ [][Next]_vars

-----------------------------------------------------------------------------
(* Properties.                                                             *)

\* The blocks where two definitions of x can meet: the iterated dominance
\* frontier of the blocks that store to it.
DominanceFrontier(b) ==
  {j \in Block : \E p \in graph.preds[j] : Dominates(graph, b, p) /\ ~StrictlyDominates(b, j)}
JoinsOf(x) ==
  ReachedFrom(UNION {DominanceFrontier(b) : b \in DefBlocks(x)},
              [b \in Block |-> DominanceFrontier(b)], NumBlocks)

TypeOK ==
  /\ phase \in {"insert", "rename", "replace", "remove", "run"}
  /\ var \in Var
  /\ phiBlocks \in [Var -> SUBSET Block]
  /\ incoming \in [Var -> [Block -> [Block -> Value]]]
  /\ worklist \subseteq visited /\ visited \subseteq Block
  /\ currentDef \in [Block -> Value]
  /\ renamed \subseteq Block
  /\ \A r \in replacements : r[1] \in Value /\ r[1][1] = "load" /\ r[2] \in Value \ {NoValue}
  /\ at \in [block : Block, next : Nat] /\ at.next \in 1..End(at.block)
  /\ mem \in [Var -> Value]
  /\ phiValue \in [Var -> [Block -> Value]]
  /\ seen \in Value /\ seenNow \in Value

\* If every variable is stored to in the entry block, then every phi node ends
\* with one value for each predecessor, wherever it was inserted: what the
\* verifier asks of it.
PhisComplete ==
  phase = "remove" =>
    \A x \in Var : Entry \in DefBlocks(x) =>
      \A b \in phiBlocks[x] : \A p \in Block :
        incoming[x][b][p] # NoValue <=> p \in graph.preds[b]

\* Renaming is right: whenever the phi nodes are where definitions meet, every
\* use sees on every path what it saw before the pass.
PhisPlaced == \A x \in Var : phiBlocks[x] = JoinsOf(x)
RenamingPreservesMeaning == seen = seenNow \/ ~PhisPlaced

\* "Working SSA transformations" (README): every use sees on every path what
\* it saw before the pass.
MeaningPreserved == seen = seenNow

\* What the pass can do all of: no call is passed a loaded value, and a variable is
\* assigned the value of another one only if the alloca of that one comes later.
Replaceable(c) ==
  \A b \in Block : \A i \in DOMAIN c[b] :
    LET inst == c[b][i]
        v == inst.val
    IN v[1] = "load" => /\ inst.op # "call"
                        /\ inst.op = "store" => inst.var < c[v[2]][v[3]].var

\* Every load comes after a store to its variable on all paths.
StoredFirst(g, c) ==
  \A b \in Block : \A i \in DOMAIN c[b] : c[b][i].op = "load" =>
    \E d \in Block : \E j \in DOMAIN c[d] :
      /\ c[d][j].op = "store" /\ c[d][j].var = c[b][i].var
      /\ ExecutedBefore(g, d, j, b, i)

\* The comment in replaceLoadsAndRemoveStores, "replace all uses of loaded
\* values with their SSA values": nothing in the transformed function is the
\* result of a removed load, neither an operand nor an incoming value of a phi.
NoUseOfRemovedLoad ==
  phase = "run" =>
    /\ \A b \in Block : \A i \in DOMAIN code[b] : code[b][i].val[1] # "load"
    /\ \A x \in Var, b, p \in Block : incoming[x][b][p][1] # "load"
=============================================================================
