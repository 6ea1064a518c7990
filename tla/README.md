# Verification of the YAC compiler

YAC (Yet Another C Compiler) translates a subset of C to x86-64 assembly: a
lexer, a recursive-descent parser, semantic analysis, an IR in SSA style with a
verifier, a pass manager with eight optimisation passes, a linear scan register
allocator, an assembly printer and a driver. It is a sequential program; what is hard about it is
state that is kept across steps while other steps change what it describes:
analyses that are cached while passes edit the IR, predecessor lists while
blocks are erased, a saved block while a subtree is visited, live intervals
while registers change hands, errors that have to stop everything after them.

This directory holds TLA+ models of these parts, translated from the source,
the TLC configurations that check them on small instances, and TLAPS proofs of
the properties that matter most for instances of any size.

    tlc -config MCDriver.cfg MCDriver        # one of the runs below
    tlapm DriverProofs.tla                   # one of the proof modules

## Inventory

Paths are relative to the repository. "Modelled" is explained module by module
in the next section.

| Component | State it keeps | Operations | What is hard, and what makes it correct |
|---|---|---|---|
| Driver, `tools/yac/main.cpp` | options, the diagnostic engine's error flag, IR module, output files | the stages in order, each may stop the compilation | errors of any stage stop every later one; with `--verify` nothing is written from IR the verifier refuses; two outputs may share a file. **Modelled** |
| Lexer, tokens, `lib/Parse/Lexer.cpp`, `Token.h` | position in the text | `tokenize`, one function per kind of token | the longest word is taken everywhere; every turn of the loop gets on, at the end of the text inside a literal or a comment, too. **Modelled** |
| Parser, `lib/Parse/Parser.cpp` | token list and position | one function per grammar rule, recovery after an error in `parseTranslationUnit` | precedence and associativity of ten functions that call each other; `expect` reports and its callers advance whatever it said; recovery must get on. **Modelled** |
| AST, `AST/AST.h`, `ASTVisitor` | the tree | visitors | data only. The trees are **modelled** as the input of IRBuilder |
| Types, `Type/Type.h` | type objects owned by a context | queries, comparison | which types may be assigned to which. **Modelled** |
| Sema and symbol table, `lib/Sema` | scopes, current function, loop depth | a visitor per node, enter and exit scope | scopes and loop depth balanced on every path, the type of the last expression never stale, lookups find the innermost declaration; exactly the illegal functions are refused. **Modelled** |
| Diagnostics, `lib/Basic` | list of messages | `report`, `hasErrors` | shared by all stages: part of the driver's model |
| IR, `CodeGen/IR.h` | functions, blocks with instructions, successor and predecessor lists | insertion, removal, edges | labels in branches and pointers in edge lists are two descriptions of one graph. **Modelled** as far as others use it |
| IRBuilder, `lib/CodeGen/IRBuilder.cpp` | `CurrentBlock`, `LastExprValue`, `LocalVars`, counters | one visitor per node | a block saved before a subtree is visited is not the block the builder is in afterwards. **Modelled** |
| IRVerifier, `lib/CodeGen/IRVerifier.cpp` | list of errors | one function per check | what it accepts must be executable and have the graph the passes read. **Modelled** |
| Pass manager, analysis manager, `Pass.cpp`, `Pass.h` | passes, cached analyses, changed flags | `run(F)`, `run(M)`, `get`, `invalidate` | no analysis outlives the IR it describes; edits and rejections are reported. **Modelled, proved** |
| Dominator tree, `Pass.cpp` | dominator sets, tree nodes | `run`, `dominates` | fixpoint iteration over a graph that may have dangling predecessors. **Modelled, proved** |
| Loop info, `Pass.cpp` | loops, latches, preheaders | `run`, `populateLoop` | recursion over cycles; a preheader must guard its loop. **Modelled, proved** |
| Liveness analysis, `Pass.cpp` | live sets | `run` | no pass asks for it. Not modelled |
| SimplifyCFG, `Transforms.cpp` | worklist, list of blocks | removal of unreachable blocks | the list is erased from while it is walked. **Modelled, proved** |
| Mem2Reg, `Transforms.cpp` | phi nodes, incoming definitions, replacement lists | insert, rename, replace, remove, alloca by alloca | what one alloca's promotion leaves behind is the input of the next. **Modelled, proved** |
| LICM, `Transforms.cpp` | invariants of a loop, instructions to hoist | find, hoist, loop by loop | order of hoisting, loops that contain other loops' preheaders. **Modelled, proved** |
| DCE, constant and copy propagation, GVN, `Transforms.cpp` | worklists and maps of expressions and values | `run` | an expression computed in another block must not be used; what is folded must be what is computed. **Modelled, proved** except for copy propagation, which has nothing to do |
| SCCP, `Transforms.cpp` | lattice values, two worklists | `run` | computes a lattice and discards it. Not modelled beyond what the pass manager sees |
| Inlining, loop unrolling | - | stubs | in no pipeline. Not modelled |
| Register allocator, `RegisterAllocator.cpp` | active intervals, free registers, two maps | `allocate` and what it calls | three structures that move together. **Modelled, proved** |
| x86-64 backend, `X86_64Backend.cpp` | output text, the allocation | one emitter per instruction | moves for phi nodes on the edges, `rax` as scratch register, calls. **Modelled, proved** for functions without parameters |
| Legacy headers `AsmUtils.h`, `LexUtils.h`, `CompilerGlobals.h` | - | - | nothing includes them. Not modelled |

How they interact: the driver calls the stages one after the other, and each
hands the next one a data structure (tokens, AST, module). The pass manager
calls the passes of a pipeline on one function after the other; a pass asks the
analysis manager for analyses, which keep pointers into the IR the pass edits;
the pass reports what it preserves by two flags and a Boolean, and the pass
manager drops analyses and calls the verifier on the strength of these. The
backend asks the register allocator for the place of every value it prints.
There are no threads and nothing is persisted; the only files are the outputs.

## Modules

| Module | Models | State and actions in the code's terms |
|---|---|---|
| `RegisterAllocator` | `RegisterAllocator::allocate` | `pending`, `active`, `freeRegs`, `valueToReg`, `valueToStackSlot`, `spillSlotCount` are the members of the same names. `VisitInstruction` is one step of `computeLiveness`, `ComputeLiveIntervals` builds the intervals; `AllocateRegister`, `SpillCandidate`, `SpillCurrent` are the three outcomes for the next interval, each with the expiry of old intervals before it |
| `RegisterAssignment` | what the backend may rely on | the abstract specification: a value is placed where nothing interferes, and may be displaced once, to a slot |
| `Lexer` | `Lexer.cpp` | an operator per function, from a place of the text to the token read there, the errors and the place behind it |
| `Parser` | `Parser.cpp` | an operator per parse function, from the parser's state (`rest`, `errors`, and `nodes`, the trees no caller has taken yet) to its state after the call |
| `SourceText` | what the words of C are, and how a tree is written | the reference: a word is a set of strings, a gap another; the words of a tree are put together with the precedences of C |
| `FrontEnd` | a file on its way to a tree | `LexToken` is one turn of `tokenize`, `ParseNext` one of `parseTranslationUnit` with the recovery after an error |
| `LiveValues` | liveness over the flow of control | a reference definition, to compare the textual intervals with: `LiveAt` goes back from the uses of a value over positions that do not define it |
| `IRSemantics` | what instructions do when they are executed | the reference for everything that changes IR: a function runs block by block, with any answers of the functions it calls |
| `ScalarPasses` | `GVNPass`, `ConstantPropagationPass`, `DCEPass` | an operator per pass on the blocks of a function, and one for each map or set the pass fills, as a function of the position it is asked at; constants are compared as the pointers they are |
| `Backend` | `X86_64Backend.cpp` | a function goes through the passes, `Allocate` runs the allocator step by step, `GenerateAssembly` is `generateFunction`, and `ExecuteBlock` executes the function before the passes, after them, and its assembly on a small machine, side by side. `Gaps` says what in a function the backend does not cater for |
| `Cleanup` | `SimplifyCFG` and the analyses behind it | the function the pass leaves, erased predecessors and all, is what the dominator tree and the loops are computed for |
| `PassManager` | `PassManager::run`, `AnalysisManager`, the eight passes as far as the manager sees them | an action per decision: start a function, start a pass, an edit inside a pass, and three ways a pass ends (no change, change accepted, change rejected). A pass is described by its `preserves` flags, the analyses it gets, what it may edit and what it may return |
| `Driver` | `main` | one action per stage and outcome; while the passes run, the actions of `PassManager` |
| `Reaching` | what can be reached in a finite graph | the one reference definition by recursion that reachability, liveness and dominance frontiers are instances of |
| `ControlFlowGraph` | blocks and edges, and reachability, dominance and natural loops as reference notions | - |
| `SimplifyCFG` | `SimplifyCFGPass` | `Pop` is an iteration of the search; `Erase` and `Keep` are the two branches of the erasing loop. The queue is taken in any order |
| `DominatorTree` | `DominatorTree::run`, `dominates` | `Visit` is one block of a sweep, `SweepAgain` and `Converge` the test of `Changed`, `SetIDom` one block of the last loop |
| `LoopInfo` | `LoopInfo::run` | headers in any order (the code has them in a map keyed by address); a call of `populateLoop` is an action |
| `Mem2Reg` | `Mem2RegPass::run` | phi insertion at the frontier of a block, renaming of a block and the replacement of an alloca's loads are actions; afterwards the old and the new function are executed side by side, one instruction per action |
| `LICM` | `LICMPass::run` | finding an invariant instruction and hoisting one are actions; loops in any order. A block is the sequence of its instructions, and an instruction is found by its place |
| `SyntaxTree`, `IRFunctions` | `AST.h`, `Type.h` with `Type.cpp`, and `IR.h` as Sema and IRBuilder use them | trees, values, instructions, blocks; a type is its kind and the types it is made from |
| `Arithmetic` | `BinaryOperatorKind` and what the operators compute | an operator of the language is applied to integers; bit operations are said bit by bit. The source's semantics, the IR's and the machine's share it |
| `SymbolTable` | `Scope` and `SymbolTable` | all scopes ever made and the current one; an operator per method, without recursive operators so that it can be proved about |
| `Sema` | `Sema.cpp` | an operator per visitor, from the analyzer's state (`table`, `depth`, `last` are `SymTab`, `LoopDepth`, `LastExprType`) to its state after the visit; a name becomes the number of its declaration, as `setDecl` does |
| `StaticRules` | which functions are legal | a reference definition: rules said of places (paths) in the tree, with no table and no order of visits |
| `IRBuilder` | `IRBuilder.cpp` | an operator per visitor, from the builder's state to its state after the visit |
| `IRVerifier` | `IRVerifier::verifyFunction` | an operator per check |
| `CSemantics` | the meaning of a function | a reference evaluator of syntax trees; called functions are the sequence of their answers |
| `Generation` | a function from tree to execution | `Analyze` (Sema, after the prototypes of the file), `GenerateIR` (IRBuilder), `Verify` (IRVerifier), `RunBlock` (executes a block with `IRSemantics`, with any answers of the calls in it) |
| `...Proofs` | - | theorems about the module whose name they carry and about what it extends: `CleanupProofs` is about `SimplifyCFG`, `DominatorTree` and `LoopInfo`, too, `DriverProofs` about `PassManager`, `RegisterAllocatorProofs` about `LiveValues`, `FaithfulProofs` about `Backend` |
| `MC...` | - | the functions, graphs and options TLC is given |

`Driver` extends `PassManager` and runs it as part of a compilation.
`LiveValues` extends `RegisterAllocator`, which implements `RegisterAssignment`
(`KeepsPromise`, with the place of a value read off the two maps as refinement
mapping); `Backend` extends it with the passes in front of it (`ScalarPasses`) and
the emitter behind it. `LoopInfo` extends `DominatorTree`, and `Cleanup`
extends both and puts an instance of `SimplifyCFG` in front. `Mem2Reg` and
`LICM` use exact dominators and natural loops: the code's analyses compute them
on functions whose blocks are all reachable (`TreeAnswersDominance`,
`LoopsAreTheNaturalOnes`; `MCCleanup` checks the same on a small instance). `FrontEnd`
composes `Lexer` and `Parser` and compares them with `SourceText`. `Generation`
composes `Sema`, `IRBuilder` and `IRVerifier` and compares them with
`StaticRules` and `CSemantics`: the builder is given the tree Sema resolved, the
reference semantics the tree with the names of the source.

Definitions with a name like `FreedForgetful` or `VisitForStmtIncFirst`, marked
"Mutant" in their comment, are plausible bugs of the definition they precede.
They are in no specification; replacing the definition by one of them makes TLC
report the property that PROJECT.json pairs with it.

## Runs

Every passing run explores its state space completely.

| Run | Instance | Shows |
|---|---|---|
| `MCFrontEnd` (225,071 states) | functions of `MCPrograms`, declarations with every pair of operators in both orders, all with spaces and with comments or nothing between the words, with few and with all parentheses; five sentences with a word missing, added or replaced; all short texts over six small alphabets; numbers that fit, just fit and do not | `LongestWords` (a text is split into the longest words, or refused), `RoundTrip` (the tree of a text is the one it was written for), `NothingSkipped` (what is accepted has every token in its tree), `EveryTurnAdvances` |
| `MCGeneration` (105,499) | 2462 functions: every kind of statement and expression with control flow, in, beside and after every other; names declared again in inner scopes; pointers, arrays, `float` and calls with prototypes; 1145 of them break a rule, 239 are contested (below); calls answer 0, 1 or 2 | `RefusedIfIllegal` (of the functions that are not contested, Sema reports an error for the illegal ones and for no others), `FaithfulExecution`, `NeverStuck`, `PlainFunctionsExact`, `NoRootlessCycle` (no cycle of blocks nothing leads to: the walk of `dominates` ends) |
| `MCDriver` (502,064) | all options at levels 0 to 3, two functions, every outcome of every stage and pass | `HeldAnalysesFresh`, `PassesSeeVerifiedIR`, `EditsReported`, `RejectedUntouched`, `FailuresStopOutput`, `VerifiedOutput`, `ClaimedOutputsKept` |
| `MCCleanup` (389,987) | SimplifyCFG on functions of 4 blocks, then the analyses; the analyses of all connected functions of 4 blocks; of 3 blocks with arbitrary predecessor lists | `SurvivorsLeastClosed` (exactly the reachable blocks survive), `GreatestSolution`, `TreeExact` (the tree answers "does a dominate b" for all a, b, on connected functions), `LoopsAreNatural`, `PreheaderGuardsLoop`, `AllReturn` (liveness) |
| `MCMem2Reg` (711,578) | one variable, read and assigned anywhere, in all functions of 4 blocks the entry of which is not branched to; two variables, one copied to the other, in a branch; all of them functions of which the theorems say something (`Replaceable`, `StoredFirst`) | `PhisComplete`, `RenamingPreservesMeaning`, `NoUseOfRemovedLoad` |
| `MCLICM` (11,175) | three instructions in any block of nested, consecutive and doubly entered loops | `MovedUpOnly`, `OperandsDefinedFirstIfOutside`; that no instruction is lost or duplicated is part of `MovedUpOnly` |
| `MCBackend` (335,829) | functions of the IR with arithmetic, calls, a variable in a stack slot, diamonds, one-armed branches with two phi nodes, loops and blocks nothing leads to, from the passes to the execution of the assembly; sequences of 4 instructions over 4 values and SSA functions of 5 instructions for the allocator alone; 3 registers, `r10`, `rax` and `rdi` | `PlacesUnshared`, `RegistersConserved`, `SpillsMinimal` (no allocation could keep more values in registers), `NoClobber` (no instruction overwrites a register another value still needs, by the flow of control), `KeepsPromise` (implements `RegisterAssignment`), `PassesKeepMeaning` (DCE, GVN, DCE: same calls, stack slots, control flow and result), `FaithfulCode` (a function without gaps runs as its IR does) |
| `MCMem2RegLoopCondition` | `while (x = x - 1)` | **violated** `MeaningPreserved` |
| `MCMem2RegCopiesFromEarlier` | `int x; int y = x;` | **violated** `NoUseOfRemovedLoad` |
| `MCLICMCountingLoop` | `while (i < 10) i = i + 1;` | **violated** `OperandsDefinedFirst` |
| `MCCleanupStaleEdges` | the functions of `MCCleanup` | **violated** `CleanedTreeExact` |
| `MCBackendLoops` | `while (i) { i = i - n; j = n - 2; }` | **violated** `LoopsFaithful` |

The five violations are disagreements between a comment or the README and the
code, found while modelling:

- `computeDominanceFrontier` looks at the successors of a block that it does
  not dominate, so a loop header that redefines a variable itself gets no phi
  node: the loop subtracts from the initial value for ever (`Transforms.cpp:137`).
- The result of a load that is removed stays the value of a store, and through
  it of the phi nodes of another variable, if that variable was declared later
  (`Transforms.cpp:355`). Copies in the other direction are right, which is what
  `NoUseOfRemovedLoad` in `MCMem2Reg` says.
- `isLoopInvariant` takes every left operand for invariant (`Transforms.cpp:1230`),
  so an addition to a loop variable is moved above the phi node it reads.
- SimplifyCFG leaves the erased block in the predecessor lists of its successors
  (`Transforms.cpp:545`). The dominator tree looks such a predecessor up, gets an
  empty set, and takes the block to be dominated by itself only, although
  `Pass.h:171` says of `dominates` "Check if A dominates B":
  `do { return 1; } while (c);` at `-O1`.
- The interval of a value ends where the text mentions it last
  (`RegisterAllocator.cpp:134`), although `RegisterAllocator.h:16` says "Last
  instruction index where value is live". What a phi node takes around a back
  edge is mentioned last where it is computed; an instruction after that is given
  its register before the branch back reads it.

Verified functions of the builder can have a control flow graph that differs from
their branches: IRBuilder adds the edges to the block a branch or loop body
*started* in and the branch to the block it *ended* in, and the verifier does not
compare the two, although a comment announces it (`IRVerifier.cpp:155`). Every
analysis reads the former. `PlainFunctionsExact` says in which functions they
agree.

### Bounds

- *Front end.* Two operators in both orders decide every pair of precedences and
  every associativity; parse functions are called from few places, and one level
  of nesting reaches each from each. `MaxInteger` = 99 stands for the largest
  `int64_t` and `MaxOrder` = 20 for the orders of magnitude of a `double` (308), so that
  short texts are out of range. Texts of 3 to 5 characters over an alphabet contain every token of
  that kind, complete and cut off.
- *Driver.* Two functions are needed for a rejection of one to meet the other;
  longer pipelines than those of `main` do not exist. Proved for any number of
  functions and any pipelines over the eight passes.
- *Graphs of 4 blocks* with at most two successors each contain diamonds,
  nested, self, irreducible and doubly entered loops, several latches, and
  unreachable cycles. The functions for SimplifyCFG are those in which nothing
  branches to the entry, as the builder makes them; block 2 is one the entry leads
  to. The consistency of predecessor lists is dropped only for 3 blocks, where the
  number of graphs is otherwise out of reach.
- *Mem2Reg.* The side-by-side execution has no bound: it keeps the last value of
  each variable and of each instruction, so its states are finitely many, and
  every walk of every length through the graph is explored. One variable is enough for the placement of
  phi nodes, which goes variable by variable; two are needed for what one
  promotion leaves to the next.
- *Generation.* `MaxCalls` = 4 lets loops turn twice and more. Arithmetic stays
  far below the width of integers.
- *Backend.* Three registers make pressure, spilling of the candidate, spilling
  of the current interval, and reuse of an expired register happen within four
  intervals; one of them is the scratch register and one the first register for
  arguments, so that every conflict the emitters can have with the allocation
  occurs. The allocator's properties are proved for any number of values and
  registers. `MaxBlocks` = 8 lets the loops turn three times; the first call
  answers 0, 1 or 3, so that they turn as often or less. Longer executions are
  not looked at.

### Fairness and deadlock

`WF_allVars(CleanupNext)` is assumed where `AllReturn` is checked: the modelled
functions are plain calls of a single thread, which run until they return. No
other fairness is assumed; the order of a set or map keyed by addresses is
unfair on purpose (any order, every time). That the lexer and the parser return
is the safety property `EveryTurnAdvances` (every turn takes something from a
finite text), which needs no fairness. All specifications stop when the
modelled call has returned or the program has exited, so `CHECK_DEADLOCK FALSE`
is set.

## Proofs

| Module | Theorems | Inductive invariant, and why it is needed |
|---|---|---|
| `ControlFlowGraphProofs` | none of its own: the lemmas on paths | see below |
| `RegisterAllocatorProofs` | `TypeCorrect`, `NothingShared`, `RegistersDisjoint`, `Conservation`, `SlotsDisjoint`, `LocationUnique`, `Settled`, `Implementation`, `PlacesConsistent` | `IInv`. That overlapping intervals have different registers is not inductive: a value keeps its entry in `ValueToReg` after it left `Active`, and its register is given away. `Past` adds why this is harmless (such an interval ended before every interval still to come starts), which in turn needs that intervals are scanned by their start and that `Active` contains every other holder of a register. `Implementation` is then proved step by step: every action is a step of `RegisterAssignment` or a stutter under the refinement mapping |
| | `RangesRecorded`, `NothingIsClobbered` | `Recorded`: the live ranges are exactly the positions read so far that mention the value. Where control only goes forward in the text, a value that is live after a position is mentioned further down, and, if it is not live at the entry, further up: its interval contains the position, and `NoRegisterConflict` does the rest |
| | `FewestAreSpilled` | `SpillInv`. That no allocation keeps more values in registers is not inductive: at a spill one must know that the choice will not be regretted. `Fewest` says so for every moment `t` still to come: whatever set of scanned intervals relieves the pressure, at least as many members of it have ended by `t` as of the spilled ones. Spilling the interval that ends last keeps this: any relieving set contains one of those that are live here, and none of them ends later |
| `DriverProofs` | `ManagerTypeCorrect`, `AnalysesFresh`, `CacheAlwaysCoherent`, `VerifyEachKeepsPromise`, `EditsAlwaysReported`, `RejectedStaysUntouched` | `IInv`. `CacheOK`: what is stale has read something the running pass edits, and the mask of that pass covers all of that (lemma `MaskCovers`); `VerifiedOK` and `ReportOK` carry a broken or edited function from the pass that made it so to the end of `run(M)` |
| | `DriverTypeCorrect`, `OutputVerified`, `ErrorsStop`, `RejectionStops`, `FailuresStop`, `AnnouncedFilesKept` | `DInv`, which is `IInv` of the pass manager plus what has been verified before the stages that write; `ClaimOK` follows a file from its announcement to the end: what is written later goes to another file or is announced too |
| `CleanupProofs` | `SimplifyTypeCorrect`, `SurvivorsAreReachable`, `ResultIsExact`, `BranchesStayInside` | `PassInv`, for the pass alone. Reachability is stated without recursion: the survivors are the least set that contains the entry and is closed under branching. `PassSearch` is the usual invariant of a worklist |
| | `DominatorTypeCorrect`, `SweepsStopAtSolution`, `SolutionIsGreatest`, `DomsOnlyShrink` | `Inv`. `AboveAllSupported` says that no visit removes what belongs to a solution, or to sets each equation of which gives at least what is there (it uses that `NewDoms` is monotone); `Settled` that the blocks visited since the last change satisfy their equations; at the end the two meet |
| | `TreeAnswersDominance` | the same invariant; `Parents` says that a parent is one of the candidates of the final sets. Adding to every set the dominators of its members keeps the equations satisfied, so the greatest solution is transitive even where blocks are unreachable; where every block is reached from the entry or from a block without predecessors (`Rooted`), two blocks do not dominate each other, and every walk up the tree ends, and in connected functions it meets exactly the dominators, as paths define them |
| | `CleanupInvariant`, `CleanupTypeCorrect`, `SurvivorsStayReachable`, `SolutionIsGreatestAfterCleanup`, `TreeAnswersDominanceAfterCleanup` | the invariants of the pass and of the analyses, put together: the pass takes no step after its return (`PassStep`), the analyses leave the function alone, and when the pass returns the entry is among the blocks that are left, which is all `Started` asks of a function. `TreeExactAfterPass`: if no block that was erased branched to one that was kept, and the edges were entered at both ends before, what is left is connected (`LeftConnected`), so the answers of `dominates` are exact; `MCCleanupStaleEdges` shows that they need not be otherwise. `Blank`: nothing of the analyses exists before they start |
| | `LoopsAreLeastAfterCleanup`, `LoopsAreTheNaturalOnes`, `PreheadersAreOnlyWaysInAfterCleanup`, `PreheadersGuardLoops` | `LoopInv`. `Closing` says that what a loop still lacks is among the calls of `populateLoop` still to be made, `Needed` that every set closed under predecessors contains what is found and what is pending; at the end nothing is pending and the loop is the least such set, whatever the order of headers and calls. `Identified` ties loops to headers and latches to back edges, which exact dominance makes natural loops. `Preheaders` gives a finished loop its one predecessor outside, if there is one and no other (`PreheadersFound`: if and only if); it dominates the header because every path from the entry to it ends with that edge |
| `Mem2RegProofs` | `Mem2RegTypeCorrect`, `PhisEndComplete` | `Inv`, around a value that the execution of the pass does not change: `Before(x, b, i)`, what `x` holds before instruction `i` of `b`: the last value stored in the block, or its phi node, or what the lowest dominator that has one of both ends with. Renaming is shown to compute it in the replacement list and in the incoming values of every successor. A phi node has all its incoming values because a definition in the entry reaches every predecessor |
| | `LoadsAreReplaced`, `RemovedLoadsAreUnused` | `LoadsGone` (what is left of a value when the variables up to the current one are done). An operand loaded from a variable that is promoted already would be passed on (the second violation above); under `Replaceable` it cannot be, and under `StoredFirst` each load has a value to be replaced by |
| | `RenamedFunctionMeansTheSame` | `Holding`: during the two executions every variable of the old one holds what `Before` stands for in the new one, and every load made so far gave that. `StandsFor` follows an operand through the replacements of one alloca after the other. On an edge to a block without a phi node, no definition may differ between the two: the closure of the dominance frontier (`JoinsOf`) gives that the nearest dominators with a definition are the same |
| `LICMProofs` | `OnlyMovesUp` | `IInv`. An instruction is in one place (`Owned`), in a block that dominates the one it was written in (`Upwards`: the preheader dominates the loop); one outside of all loops stays (`OutsideStays`) |
| | `OperandsStayFirst` | `InWork`: what waits to be hoisted stands behind the operand that made it invariant, and what is invariant and no longer waits is in the preheader. So a right operand is hoisted before its user (`InOrder`), and a left operand outside of all loops dominates the preheader of every loop its user is in |
| `BackendProofs` | `PassesKeepMeaningTheorem` | `BackendInv`: while the executions run, the one before the passes and the one after them are in equal states (`SideBySide`), stack slots included, and `AgreeAll`: a redundant instruction and the one it is replaced by hold the same value (none, before their block is executed). That the two executions agree is not inductive without it, and `AgreeAll` holds between blocks only: inside a block `Midway` says which pairs agree already, and what was computed still is (`Held`), because results are unique and both instructions are in one block, so nothing redefines what they read. No use of a replaced value comes between the two: `CheckDefBeforeUse` looks at the text of a block (`DefinedEarlier`). That dead code elimination erases nothing (`DCEKeeps`) is proved from its test as it is written. `Constants` follows the values that constant propagation has recorded (`Justified`, by induction over the rounds) |
| | `BackendAllocates`, `BackendInherits` | none of its own: with the passes in front and the emitter behind, every step is a step of the allocator or leaves it alone, so all that `RegisterAllocatorProofs` shows holds of the compiled functions, the refinement of `RegisterAssignment` included |
| `FaithfulProofs` | `FaithfulTheorem`, `ScalarPassesAndMachineAlike` | `FaithfulInv`: the text is that of the allocation, and in a function with none of the gaps (`NoGaps`) the execution of the IR and the machine are `InStep` whenever a block has been executed. What that is inside of a block is the subject of the next section |

### From the IR to the machine

`FaithfulCode` compares two executions at the ends of blocks, and what the machine
does in between is a run over lines of text. `BackendProofs` ends with what is
needed of such runs: what one line does (`SumStep` to `RetStep`), that a run over
joined texts is one run after the other (`RanThen`, `FlattenJoins`), and that a
jump that was taken skips to its label and no further (`RanSkipping`). `FaithfulProofs`
goes on:

1. GVN leaves a function a function (`NumberedFunction`), so that every operand
   of the compiled function is still defined before it in the text.
2. `Placed` collects what is known of the places: they are the allocator's, and
   the intervals come from this text (`Recorded`, `IInv` of `RegisterAllocatorProofs`).
   A value without a slot that is mentioned has a register and needs no load
   (`OperandPlace`).
3. `Holds` relates the two inside of a block: every value that is live behind the
   last executed instruction is in its register, and a phi node that is still to
   be executed has its operand in the register of its result, where the moves of
   the block before have put it. `LivingAtStarts` is the least solution of the liveness
   equations (`ReachedIsLeast`), which gives what `Living` loses from one instruction to the next
   (`LivingStep`) and to the next block (`LivingEnd`).
4. An instruction keeps this: its result goes to a register no other live value is
   in, either because the intervals are none of the gaps, or because
   there is no loop and every value that is live is defined further up and used
   further down, so that its interval contains the instruction
   (`NothingOverwritten`). Each gap is used by the lemma of the emitter it belongs
   to (`Catered`): `BinaryLinked` for `scratch`, `CallLinked` for `arguments` and
   `calls`, and so on (`InstructionLinked`).
5. The moves of an edge, one after the other, do what the phi nodes do at once,
   because none writes what a later one reads (`MovesArrive`), also behind the
   label of a conditional branch (`ConditionLinked`). So a whole block keeps the two
   in step (`InStepNext`).

With `PassesKeepMeaningTheorem` it follows that the machine does what the function
meant before DCE, GVN and DCE (`ScalarPassesAndMachineAlike`). This says nothing of
a whole pipeline of `main.cpp`: SimplifyCFG, Mem2Reg and LICM are no part of it
(Mem2Reg and LICM change what some functions compute, as the violations show), and
since stack slots are one of the gaps, the function has no variables left.

### The lemmas on paths

`ControlFlowGraphProofs` is where the induction is. The prover cannot use the
induction theorems of the library that take a predicate as a parameter, so the
module goes over sets: `LeastNumber` (a non-empty set of numbers has a least
one) and `CountingUp` (a set of numbers with 0 and the successor of each member
is all of them) follow from the theorem on minimal elements of well-founded
relations. With them `ReachedIsLeast`: the recursive
function `ReachedFrom`, with as many rounds as there are blocks, is the least set that contains the start
and is closed under the step (a round that adds nothing is the last that can,
and each round before it adds a member of a finite set). All that is said of
paths, in any module, is this least set. The rest of the
module is the theory of dominance the proofs above need: it is a partial order with the
entry on top, the dominators of a block are in line (`DominatorsInLine`), a
natural loop is the least set closed under predecessors and its header
dominates it.

Assumptions are the named `ASSUME`s of the modules and nothing else: there are
finitely many values and registers, registers are positive numbers (for the backend,
ranks of the nine the constructor of the allocator names, `RegistersAssumption`), a branch of
an allocated function leads to an instruction of it, a function has a positive
number of blocks, graphs are
well-formed records whose list of blocks contains the entry (predecessor lists
are arbitrary for the dominator tree), pipelines consist of the eight passes,
command lines are options. For `Mem2Reg` and `LICM` all blocks are reachable,
edges are entered at both ends, and an instruction has one place; for `Mem2Reg`
nothing branches to the entry, and a loaded value is used where its load has been
executed on every path, as the builder makes it. For `Backend` the functions are
what the builder makes and the verifier lets pass (`IsFunction`): operands and
targets as the instruction's class has them (`WellFormed`), no two instructions
with one result, stores go to stack slots, every block control may enter ends in a
terminator and has no other, and operands are defined before they are used as the
verifier checks it (`Verified` uses the operators of `IRVerifier`); and the allocator
is asked for each of them (`CompiledAssumption`). TLC evaluates
each of them in the runs. Where a theorem states a property of a run, the run
checks the same definition.

Some theorems ask more of a function, as a hypothesis in their statement:
`RemovedLoadsAreUnused` and `RenamedFunctionMeansTheSame` that it is `Replaceable`
(no loaded value is a call's argument, and none is assigned to a variable
declared after the one it was loaded from), the former that a store comes before every load
(`StoredFirst`), and `NothingIsClobbered` that control only goes forward and
definitions come before uses on every path. Each is what the code needs: the
violations above, and *Call arguments* and *Intervals* below, are what happens
without. The functions of `MCMem2Reg` satisfy the first two
(`MCProgramsAssumption`); the last is a premise of the property itself, and
the functions of `MCBackend` contain many that meet it.

Only model-checked, and why:

- `AllReturn`: liveness under fairness is beyond the prover. (That loops of the
  code get on is in part safety, and proved: `DomsOnlyShrink`, and the walks of `dominates`
  in `TreeExact`.)
- The invariants of `MCFrontEnd` and `MCGeneration`: the parse functions and the
  visitors recurse over texts and syntax trees, so `Lexer`, `Parser`, `SourceText`,
  `FrontEnd`, `Sema`, `StaticRules`, `IRBuilder`, `CSemantics` and `Generation`
  declare recursive operators or use modules that do, and are for TLC only.

Proved under premises that the property itself states: `FaithfulCode` is about
functions with none of the gaps below, and `NoClobber` about those that only jump
forwards. That these premises are met by functions with diamonds, calls, phi
nodes and (for `FaithfulCode`) loops is seen in `MCBackend`.

## What the checks leave out

Preconditions that carry weight, and what happens outside of them:

- *Literals the lexer should refuse.* `LongestWords` leaves texts out in which
  `1e` or `''` is taken for a literal (`Overlooked`). Its reference follows the
  lexer where C knows more: `'\"'` and `"\'"` are refused, and a numeral that
  begins with 0 is decimal.
- *Parameters without a name* are dropped by the parser and so from
  `NothingSkipped`. After an error the parser goes on behind the next semicolon,
  which may be inside of a function.
- *Gaps of the backend.* `FaithfulCode` is about functions with none of these:
  `operations`, an instruction that emits nothing (`%`, `&`, `|`, `^`, loads,
  stores) or something else (`!x`, which is `x xor 1`, of an `x` that no
  comparison has computed); `operands`, an instruction the assembler does not know
  (a constant where `cmp`, `test`, `mul` or `div` takes none); `scratch`, a value
  kept in `rax` or `rdx` where a multiplication or division needs it; `arguments`,
  more than six of them, or one moved to a register a later one is read from;
  `calls`, a value in a register across a call (no register is saved); `spills`, a
  spilled value (its result is never stored to its slot); `intervals`, a result in
  the register of a value that is still live; `moves`, moves for phi nodes that
  overwrite each other's operands, or that are not made (a phi node behind another
  instruction, or one that does not name the block control comes from). The
  intervals may not be blamed for a function without a loop that defines on every
  way what it uses (`DefinedOnEveryWay`): there they suffice, and it is part of
  the theorem that they do. A value that is not defined on some way to a use is live
  further up than any text mentions it, and another value may have its register there.
- *Parameters* are never moved in from the registers they are passed in, although
  `README.md:30` announces the calling convention; the functions of `MCBackend`
  have none.
- *Intervals.* `NoClobber` is about functions that jump forwards and define on
  every path what they use. Around a loop it fails (last violation above).
- *Connected functions.* `TreeExact`, `LoopsAreNatural`, `PreheaderGuardsLoop`,
  `Mem2Reg` and `LICM` are about functions whose blocks are all reachable and
  whose edges are entered at both ends. What SimplifyCFG leaves need not be such a
  function; what is proved of it in `CleanupProofs` holds all the same.
- *Phi placement.* `RenamingPreservesMeaning` holds if the phi nodes are where
  definitions meet; the dominance frontier of the code does not always put them
  there (first violation above).
- *Call arguments.* Mem2Reg and GVN do not replace a value that is a call's
  argument (`Transforms.cpp:341`): `return g(x)` uses a removed load. The model has
  this case (`Call`), the runs keep it out.
- *Logical operators.* The result of `a && b` is the value of `b`, not 0 or 1.
  `FaithfulExecution` is about executions in which it is 0 or 1. It also leaves
  `break`, `continue`, array elements, `&` and `*` out, which the builder ignores or turns into
  something else (`IRBuilder.cpp:384`, `IRBuilder.cpp:609`),
  and functions with a phi node that names the wrong block (`a && (b && c)`, which the verifier
  accepts).
- *Rules of the language.* `StaticRules` follows the code where it is more
  lenient than C without keeping state: a parameter may be declared again in the
  body's own block, and what is assigned to need not be a variable (`1 = 2` is
  accepted, and dropped by the builder).
  A function is declared once: a prototype followed by its definition is
  refused as a redeclaration (`Sema.cpp:105`).
- *Contested functions.* In three matters the repository says one thing and the
  code does another. `test/fixtures/semantic_errors.c` calls it an error that a
  variable is used in its own initializer (line 3) and that a string is an operand
  of `&&` (line 4); the analyzer accepts both (the fixture is refused for its line 2).
  The comment at `Type.cpp:28` says that an array decays to a pointer where one is
  assigned to the other; the code converts in the other direction, so `p = a` is refused and
  `a = p` accepted. `StaticRules` is not bent to the code in any of them:
  `RefusedIfIllegal` leaves out the functions for which one of the three decides
  (`Contested`: `UsesItself`, `JoinsPointers`, `Decays`), and says nothing about them.
- *The documented language.* The README of the repository lists `int*` and `char*`
  declarations and multi-dimensional arrays. The parser has neither: after a type
  specifier it wants a name, and after a name at most one pair of brackets
  (`Parser.cpp:106`, `Parser.cpp:131`). They are not in the model either; pointers
  come from string literals, `&` and arrays.
- *Nested control.* `PlainFunctionsExact` lists in which functions the builder
  and the verifier are exact. An `if` in an `if` is refused by the verifier, a
  function declared without a body is too (its entry block has no terminator),
  and so is `void f() { return; }` (two returns in a block).

Other things seen while reading that no run is about: `std::stoll` and
`std::stod` throw for a literal that does not fit (too large; a decimal that is too
small, too), and nothing catches (phase `aborted` of `FrontEnd`); `for (void ...` is refused where other types are
accepted; `DCEPass` tests `!isInstructionDead`, which is true only of
instructions that are live anyway, so it removes nothing (`Transforms.cpp:463`);
constant propagation records what it finds and returns true without changing the
IR; the pass manager prints "No changes" after a rejection; `-emit-ir -S -o f`
writes both outputs to `f`; `--verify` checks the generated IR at `-O0` only;
`-fsyntax-only` is read and not used; the declaration of a global variable makes
the builder ask a null function for a temporary (`IRBuilder.cpp:22`);
`getFunctionType` compares a function type with a return type and never finds the
one it has made (`Type.cpp:74`); the numbers of temporaries restart after the
parameters' slots, so two temporaries of a function print the same name; labels
are numbered from 0 in every function, so two functions with a branch define one
label twice.

## Not modelled

- *Liveness analysis* (`Pass.cpp`): no pass asks for it; the backend has its own.
- *SCCP*: its result is discarded. Its lattice is not one: `ret` marks its value
  overdefined, and the visit of a phi node may lower it again, although
  `markConstant` says that there is no way back.
- *Copy propagation*: it looks for `IRMoveInst`, which nothing creates.
- *Inlining, loop unrolling*: stubs that return false.
- *Global variables* in Sema and IRBuilder: the builder fails on their
  declaration.
- *Printing* of IR, diagnostics, source ranges and the timing of passes.
- *Legacy headers*: nothing includes them.

## Plan

1. Register allocator, its promise, liveness: done, proved (with the least
   number of spills).
2. Pass manager, analysis manager, driver: done, proved.
3. SimplifyCFG, dominator tree and loops, alone and one after the other: done,
   proved.
4. Mem2Reg, LICM: done, proved. Next: that what LICM leaves computes the same
   where left operands are outside of the loops.
5. IRBuilder and IRVerifier, composed with a reference semantics: done, checked.
6. GVN, constant propagation and DCE with an execution before and after: done,
   proved. Next: SCCP's values, and that its worklists run dry all the same.
7. Backend on a small machine: done, proved. Next: the prologue and parameters.
8. Sema and the symbol table against rules said of places: done, checked. Next:
   global variables, and proofs about `SymbolTable` (a pop undoes a push, a
   lookup finds the innermost declaration).
9. Lexer and parser against words and texts: done, checked.

Modules to be proved about keep recursion in recursive functions and their
invariants as named conjuncts.
