------------------------------ MODULE Backend ------------------------------
(***************************************************************************)
(* X86_64Backend (lib/CodeGen/X86_64Backend.cpp) on top of the passes and  *)
(* the register allocator, up to the execution of the assembly it emits.   *)
(*                                                                         *)
(* A function goes through the passes over instructions (GVN and DCE, not  *)
(* SimplifyCFG, Mem2Reg or LICM), allocate() gives its values places,      *)
(* generateFunction emits the instructions of each block, and the assembly *)
(* is executed next to the IR, block by block.  The temporary t of the IR  *)
(* is the value t of the allocator; the functions have no parameters.  A   *)
(* register is the rank of its name, as in module RegisterAllocator.       *)
(***************************************************************************)
EXTENDS LiveValues, SequencesExt

CONSTANTS
  Functions,    \* functions of the IR, as sequences of blocks
  Answers,      \* what a called function may return
  MaxBlocks     \* bound: the blocks an execution goes through

IR == INSTANCE ScalarPasses
Verifier == INSTANCE IRVerifier

-----------------------------------------------------------------------------
(* What the passes are given: any function the verifier lets pass, with    *)
(* variables or after Mem2Reg.                                             *)

Temporaries == {"temp"} \X Value
Operands == Temporaries \cup ({"const"} \X Int) \cup ({"const"} \X Int \X Int)
Opcodes ==
  IR!BinaryOperators \cup {"not", "load", "store", "alloca", "phi", "call", "label", "ret", "br", "condbr"}
IRInstruction(f) ==
  [op : Opcodes, callee : Nat, res : Temporaries \cup {IR!Null}, args : Seq(Operands),
   to : Seq(DOMAIN f), from : Seq(DOMAIN f)]

\* An instruction has the operands, the targets and the result of its class.
WellFormed(inst) ==
  /\ inst.op \in IR!BinaryOperators \cup {"store"} => Len(inst.args) = 2
  /\ inst.op \in {"not", "load", "condbr"} => Len(inst.args) = 1
  /\ inst.op = "br" => Len(inst.to) = 1
  /\ inst.op = "condbr" => Len(inst.to) = 2
  /\ inst.op = "phi" => Len(inst.args) = Len(inst.from)
  /\ inst.op \in IR!BinaryOperators \cup {"not", "load", "alloca", "phi", "call"}
       <=> inst.res # IR!Null

\* No two instructions have the same result (IRBuilder::createTemp), and what is
\* stored to is a stack slot.
SingleDefinitions(f) ==
  \A p, q \in IR!Positions(f) :
    IR!At(f, p).res = IR!At(f, q).res /\ IR!At(f, p).res # IR!Null => p = q
StoresToSlots(f) ==
  \A p \in IR!Positions(f) : IR!At(f, p).op = "store" =>
    \E q \in IR!Positions(f) : IR!At(f, q).op = "alloca" /\ IR!At(f, q).res = IR!At(f, p).args[2]

\* The entry, and what a branch leads to.
Enterable(f) ==
  {b \in DOMAIN f : b = 1 \/ \E p \in IR!Positions(f) : b \in IR!ToSet(IR!At(f, p).to)}

\* IRVerifier lets the function pass, and a block without a terminator is one that
\* no branch leads to.
Verified(f) ==
  /\ \A b \in DOMAIN f : Verifier!CheckBlockTerminator(f, b)
  /\ \A b \in Enterable(f) : IR!Terminated(f[b])
  /\ Verifier!CheckDefBeforeUse(f, 0)

IsFunction(f) ==
  /\ f # <<>>
  /\ f \in Seq([code : Seq(IRInstruction(f)), succs : Seq(Nat), preds : Seq(Nat)])
  /\ \A p \in IR!Positions(f) : WellFormed(IR!At(f, p))
  /\ SingleDefinitions(f) /\ StoresToSlots(f) /\ Verified(f)

ASSUME FunctionsAssumption == \A f \in Functions : IsFunction(f)
ASSUME MaxBlocksAssumption == MaxBlocks \in Nat

VARIABLES
  source,     \* the function before the passes; <<>> if only allocate is of interest
  blocks,     \* and after them
  asm,        \* the assembly, a sequence of instructions for each block
  gaps,       \* what in the function the backend does not cater for
  run         \* the executions of source, of blocks and of asm, side by side

backend == <<source, blocks, asm, gaps, run>>

\* The ranks of r10, r11, r8, r9, rax, rcx, rdi, rdx and rsi are 1 to 9.
Registers == 1..9
Rax == 5
Rdx == 8
ArgRegs == <<7, 9, 8, 6, 3, 4>>

Relations == {"<", "<=", ">", ">=", "==", "!="}

Temps(vs) == {v[2] : v \in {w \in IR!ToSet(vs) : w[1] = "temp"}}
Result(inst) == Temps(<<inst.res>>)

\* What computeLiveness sees of a function.
Compiled(bs) ==
  LET text == IR!Text(bs)
  IN [n \in DOMAIN text |-> [defs |-> Result(text[n]), uses |-> Temps(text[n].args), succ |-> {}]]

ASSUME RegistersAssumption == Reg \subseteq Registers

\* The allocator is asked for every function that comes out of the passes.
ASSUME CompiledAssumption == {Compiled(IR!Optimized(f)) : f \in Functions} \subseteq Programs

-----------------------------------------------------------------------------
(* Operands.  An operand of an instruction is a register, a number or a    *)
(* stack slot.                                                             *)

Register(r) == <<"register", r>>
Number(n) == <<"number", n>>
Slot(k) == <<"slot", k>>

Mov(to, operand) == <<"mov", to, operand>>

IsSpilled(v) == v[1] = "temp" /\ valueToReg[v[2]] = NoReg

\* getOperand: the operand, and the load it emits for a spilled value.
GetOperand(v) ==
  IF IR!IsConstant(v) THEN Number(v[2])
  ELSE Register(IF IsSpilled(v) THEN Rax ELSE valueToReg[v[2]])
LoadSpilled(v) ==
  IF IsSpilled(v) /\ valueToStackSlot[v[2]] # NoSlot
    THEN <<Mov(Rax, Slot(valueToStackSlot[v[2]]))>> ELSE <<>>

\* allocResult: rax for a spilled value, which nothing stores afterwards.
AllocResult(v) == IF IsSpilled(v) THEN Rax ELSE valueToReg[v[2]]

-----------------------------------------------------------------------------
(* Emission.                                                               *)

EmitOperation(inst, res, l, r) ==
  CASE inst.op \in {"+", "-"} -> <<Mov(res, l), <<inst.op, res, r>>>>
    [] inst.op = "*" -> <<Mov(Rax, l), <<"imul", Rax, r>>, Mov(res, Register(Rax))>>
    [] inst.op = "/" -> <<Mov(Rax, l), <<"cqo", Rdx, l>>, <<"idiv", Rax, r>>,
                          Mov(res, Register(Rax))>>
    \* xor res, res; cmp l, r; setcc res
    [] inst.op \in Relations -> <<Mov(res, Number(0)), <<"cmp", l, r>>, <<"set", res, inst.op>>>>
    [] OTHER -> <<>>

EmitBinary(inst) ==
  LET l == inst.args[1]
      r == inst.args[2]
  IN LoadSpilled(l) \o LoadSpilled(r)
       \o EmitOperation(inst, AllocResult(inst.res), GetOperand(l), GetOperand(r))

\* mov res, operand; xor res, 1
EmitNot(inst) ==
  LoadSpilled(inst.args[1])
    \o <<Mov(AllocResult(inst.res), GetOperand(inst.args[1])), <<"flip", AllocResult(inst.res)>>>>

EmitRet(inst) ==
  IF inst.args = <<>> THEN <<<<"ret", FALSE>>>>
  ELSE LoadSpilled(inst.args[1]) \o <<Mov(Rax, GetOperand(inst.args[1])), <<"ret", TRUE>>>>

\* The phi nodes at the start of a block, up to the first other instruction.
LeadingPhis(b) ==
  {i \in DOMAIN blocks[b].code : \A j \in 1..i : blocks[b].code[j].op = "phi"}

Incoming(phi, b) == phi.args[IR!EntryFor(phi, b)]

\* The move for the i-th instruction of block to, if it is one of them and names b.
PhiMove(b, to, i) ==
  LET phi == blocks[to].code[i]
  IN IF i \in LeadingPhis(to) /\ b \in IR!ToSet(phi.from)
       THEN LoadSpilled(Incoming(phi, b)) \o <<Mov(AllocResult(phi.res), GetOperand(Incoming(phi, b)))>>
       ELSE <<>>

\* emitPhiMoves: one mov after the other, in the order of the phi nodes.
EmitPhiMoves(b, to) == FlattenSeq([i \in DOMAIN blocks[to].code |-> PhiMove(b, to, i)])

JumpTo(b, to) == EmitPhiMoves(b, to) \o <<<<"jmp", to>>>>

\* Mutant: the moves of both ways come before the jump.
EmitCondBrMovesFirst(inst, b) ==
  LoadSpilled(inst.args[1])
    \o EmitPhiMoves(b, inst.to[1]) \o EmitPhiMoves(b, inst.to[2])
    \o <<<<"jz", GetOperand(inst.args[1])>>, <<"jmp", inst.to[1]>>,
         <<"label">>, <<"jmp", inst.to[2]>>>>

\* test cond, cond; jz to the label: each way has its own moves and its own jump.
EmitCondBr(inst, b) ==
  LoadSpilled(inst.args[1]) \o <<<<"jz", GetOperand(inst.args[1])>>>>
    \o JumpTo(b, inst.to[1]) \o <<<<"label">>>> \o JumpTo(b, inst.to[2])

\* Arguments beyond the sixth are dropped.
ArgMove(inst, i) ==
  IF i > Len(ArgRegs) THEN <<>>
  ELSE LoadSpilled(inst.args[i]) \o <<Mov(ArgRegs[i], GetOperand(inst.args[i]))>>
EmitCall(inst) ==
  FlattenSeq([i \in DOMAIN inst.args |-> ArgMove(inst, i)])
    \o <<<<"call", inst.callee, Len(inst.args)>>, Mov(AllocResult(inst.res), Register(Rax))>>

\* Loads, stores, allocas and phi nodes are left to comments in the assembly.
Emit(inst, b) ==
  CASE inst.op \in IR!BinaryOperators -> EmitBinary(inst)
    [] inst.op = "not" -> EmitNot(inst)
    [] inst.op = "ret" -> EmitRet(inst)
    [] inst.op = "br" -> JumpTo(b, inst.to[1])
    [] inst.op = "condbr" -> EmitCondBr(inst, b)
    [] inst.op = "call" -> EmitCall(inst)
    [] OTHER -> <<>>

GenerateFunction ==
  [b \in DOMAIN blocks |->
     FlattenSeq([i \in DOMAIN blocks[b].code |-> Emit(blocks[b].code[i], b)])]

-----------------------------------------------------------------------------
(* The machine.  What a register holds that was not written is Undefined;  *)
(* a call leaves its answer in rax and nothing in the other registers,     *)
(* all of which belong to the caller.  Behind a jump that was taken the    *)
(* machine skips to the label.                                             *)

Read(m, operand) ==
  CASE operand[1] = "register" -> m.regs[operand[2]]
    [] operand[1] = "number" -> operand[2]
    [] operand[1] = "slot" -> IR!Undefined    \* no slot is ever stored to

Write(m, r, v) == [m EXCEPT !.regs[r] = v]

\* The last bit inverted.
Flipped(v) == IF v = IR!Undefined THEN v ELSE v + 1 - 2 * (v % 2)

AfterCall(m, callee, n) ==
  IF m.answers = <<>> THEN [m EXCEPT !.mode = "stuck"]
  ELSE [m EXCEPT !.answers = Tail(@),
                 !.calls = Append(@, <<callee, [i \in 1..n |-> IF i > Len(ArgRegs) THEN IR!Undefined
                                                               ELSE m.regs[ArgRegs[i]]]>>),
                 !.regs = [r \in Registers |-> IF r = Rax THEN Head(m.answers)
                                               ELSE IR!Undefined]]

AfterTest(m, cond) ==
  IF cond = IR!Undefined THEN [m EXCEPT !.mode = "stuck"]
  ELSE IF cond = 0 THEN [m EXCEPT !.mode = "skip"] ELSE m

Performed(m, i) ==
  CASE i[1] = "mov" -> Write(m, i[2], Read(m, i[3]))
    [] i[1] \in {"+", "-"} -> Write(m, i[2], IR!Applied(i[1], m.regs[i[2]], Read(m, i[3])))
    [] i[1] = "flip" -> Write(m, i[2], Flipped(m.regs[i[2]]))
    [] i[1] = "imul" -> Write(Write(m, Rax, IR!Applied("*", m.regs[Rax], Read(m, i[3]))),
                              Rdx, IR!Undefined)
    [] i[1] = "cqo" -> Write(m, Rdx, IR!Undefined)
    [] i[1] = "idiv" -> Write(Write(m, Rax, IR!Applied("/", m.regs[Rax], Read(m, i[3]))),
                              Rdx, IR!Undefined)
    [] i[1] = "cmp" -> [m EXCEPT !.flags = <<Read(m, i[2]), Read(m, i[3])>>]
    [] i[1] = "set" -> Write(m, i[2], IR!Applied(i[3], m.flags[1], m.flags[2]))
    [] i[1] = "call" -> AfterCall(m, i[2], i[3])
    [] i[1] = "jz" -> AfterTest(m, Read(m, i[2]))
    [] i[1] = "label" -> m
    [] i[1] = "jmp" -> [m EXCEPT !.mode = "next", !.to = i[2]]
    [] i[1] = "ret" -> [m EXCEPT !.mode = "done",
                                 !.val = IF i[2] THEN m.regs[Rax] ELSE IR!Undefined]

Step(m, i) ==
  IF m.mode = "run" THEN Performed(m, i)
  ELSE IF m.mode = "skip" /\ i[1] = "label" THEN [m EXCEPT !.mode = "run"]
  ELSE m

\* After[n] is the state after the first n lines.
Ran(m, lines) ==
  LET After[n \in 0..Len(lines)] == IF n = 0 THEN m ELSE Step(After[n - 1], lines[n])
  IN After[Len(lines)]

RunAsm(m) == Ran([m EXCEPT !.mode = "run"], asm[m.to])

-----------------------------------------------------------------------------
(* Liveness over the flow of control, with the operands of a phi node read *)
(* at the end of the blocks they come from.                                *)

Block == DOMAIN blocks
UsedBy(inst) == IF inst.op = "phi" THEN {} ELSE Temps(inst.args)

\* What an instruction of block b behind the i-th uses before one of them defines
\* it, and what none of them defines.
UsedAfter(b, i) ==
  {v \in Value : \E j \in DOMAIN blocks[b].code :
     /\ i < j /\ v \in UsedBy(blocks[b].code[j])
     /\ \A k \in i + 1..j - 1 : v \notin Result(blocks[b].code[k])}
KeptAfter(b, i) ==
  {v \in Value : \A k \in i + 1..Len(blocks[b].code) : v \notin Result(blocks[b].code[k])}

\* What the phi nodes of the blocks it leads to read at the end of block b.
Successors(b) == IR!ToSet(IR!Targets(blocks[b]))
ReadByPhis(b) ==
  {v \in Value : \E to \in Successors(b) : \E i \in LeadingPhis(to) :
     /\ b \in IR!ToSet(blocks[to].code[i].from)
     /\ v \in Temps(<<Incoming(blocks[to].code[i], b)>>)}

\* What is live at the start of each block: what it uses or its successors' phi
\* nodes read, and what is live at the start of one of them.
LivingAtStarts ==
  LET ends(v) == {b \in Block : v \in UsedAfter(b, 0) \cup (ReadByPhis(b) \cap KeptAfter(b, 0))}
      before(v) == [to \in Block |-> {b \in Block : to \in Successors(b) /\ v \in KeptAfter(b, 0)}]
      starts(v) == ReachedFrom(ends(v), before(v), Len(blocks))
      startsOf == [v \in Value |-> starts(v)]
  IN [b \in Block |-> {v \in Value : b \in startsOf[v]}]

\* What is live at the end of block b, and behind its i-th instruction.
LivingOut(starts, b) == ReadByPhis(b) \cup UNION {starts[to] : to \in Successors(b)}
Living(starts, b, i) == UsedAfter(b, i) \cup (LivingOut(starts, b) \cap KeptAfter(b, i))

-----------------------------------------------------------------------------
(* The gaps: what generateInstruction takes no notice of.  living is what  *)
(* is live after the instruction.                                          *)

RegsOf(vs) == {valueToReg[v] : v \in vs} \ {NoReg}

\* Instructions for which nothing, or the wrong thing, is emitted: xor with 1
\* is the negation of 0 and 1 only.
Truths == UNION {Result(IR!At(blocks, p)) : p \in {q \in IR!Positions(blocks) : IR!At(blocks, q).op \in Relations}}
Untranslated(inst) ==
  \/ inst.op \in {"%", "load", "store", "alloca"} \cup IR!BitOperators
  \/ inst.op = "not" /\ ~(Temps(inst.args) # {} /\ Temps(inst.args) \subseteq Truths)

\* The assembler takes no number where the backend puts the constant.
NotEncodable(inst) ==
  \/ inst.op \in Relations \cup {"condbr"} /\ IR!IsConstant(inst.args[1])
  \/ inst.op \in {"*", "/"} /\ IR!IsConstant(inst.args[2])

\* mul and div go through rax and rdx, whoever else is in them.
ScratchTaken(inst, living) ==
  /\ inst.op \in {"*", "/"}
  /\ \/ RegsOf(living \ Result(inst)) \cap {Rax, Rdx} # {}
     \/ RegsOf(Temps(<<inst.args[2]>>)) \cap (IF inst.op = "*" THEN {Rax} ELSE {Rax, Rdx}) # {}

\* An argument is not passed, or still to be read from a register that an earlier
\* one is in.
ArgumentOverwritten(inst) ==
  /\ inst.op = "call"
  /\ \/ Len(inst.args) > Len(ArgRegs)
     \/ \E i, j \in DOMAIN inst.args :
          i < j /\ GetOperand(inst.args[j]) = Register(ArgRegs[i])

\* A call saves no register.
LostInCall(inst, living) == inst.op = "call" /\ living \ Result(inst) # {}

\* The register of the result is that of another value that is still live.
Overwrites(inst, living) ==
  \E w \in Result(inst), v \in living \ Result(inst) :
    valueToReg[v] # NoReg /\ valueToReg[v] = valueToReg[w]

\* A phi node gets no move: it is not at the start of its block, or does not know
\* the block control comes from.
Misplaced(p) == IR!At(blocks, p).op = "phi" /\ p[2] \notin LeadingPhis(p[1])
MoveMissing(b, to) == \E i \in LeadingPhis(to) : b \notin IR!ToSet(blocks[to].code[i].from)

\* The moves of an edge overwrite what a later one reads.
MovesClash(b, to) ==
  \E i, j \in LeadingPhis(to) :
    /\ i < j
    /\ GetOperand(Incoming(blocks[to].code[j], b)) = Register(AllocResult(blocks[to].code[i].res))

Gaps ==
  LET starts == LivingAtStarts
      living(p) == Living(starts, p[1], p[2])
      some(P(_)) == \E p \in IR!Positions(blocks) : P(p)
      inst(p) == IR!At(blocks, p)
  IN {g \in {"operations", "operands", "scratch", "arguments", "calls", "spills",
             "intervals", "moves"} :
        \/ g = "operations" /\ some(LAMBDA p : Untranslated(inst(p)))
        \/ g = "operands" /\ some(LAMBDA p : NotEncodable(inst(p)))
        \/ g = "scratch" /\ some(LAMBDA p : ScratchTaken(inst(p), living(p)))
        \/ g = "arguments" /\ some(LAMBDA p : ArgumentOverwritten(inst(p)))
        \/ g = "calls" /\ some(LAMBDA p : LostInCall(inst(p), living(p)))
        \/ g = "spills" /\ \E v \in Value : valueToStackSlot[v] # NoSlot
        \/ g = "intervals" /\ some(LAMBDA p : Overwrites(inst(p), living(p)))
        \/ g = "moves" /\ \/ some(Misplaced)
                          \/ \E b \in Block : \E to \in Successors(b) :
                               MoveMissing(b, to) \/ MovesClash(b, to)}

-----------------------------------------------------------------------------
Execution(answers) ==
  [mode |-> "next", to |-> 1, from |-> 0, env |-> [v \in Value |-> IR!Undefined],
   entry |-> <<>>, mem |-> [v \in Value |-> IR!Undefined],
   answers |-> answers, calls |-> <<>>, val |-> IR!Undefined]
Machine(answers) ==
  [mode |-> "next", to |-> 1, regs |-> [r \in Registers |-> IR!Undefined],
   flags |-> <<0, 0>>, answers |-> answers, calls |-> <<>>, val |-> IR!Undefined]

NotRunning == [turns |-> 0]

BackendInit ==
  /\ \/ /\ source \in Functions
        /\ blocks = IR!Optimized(source)
        /\ code = Compiled(blocks)
     \/ /\ source = <<>> /\ blocks = <<>>
        /\ code \in Programs
  /\ Fresh
  /\ asm = <<>>
  /\ gaps = {}
  /\ run = NotRunning

Allocate == Next /\ UNCHANGED backend

GenerateAssembly ==
  /\ phase = "done"
  /\ source # <<>> /\ asm = <<>>
  /\ asm' = GenerateFunction
  /\ gaps' = Gaps
  /\ UNCHANGED <<source, blocks, run, vars>>

\* The assembler accepts the text, and the functions that are called will give
\* these answers.
Execute ==
  /\ asm # <<>> /\ "operands" \notin gaps
  /\ run = NotRunning
  /\ \E answers \in Answers :
       run' = [turns |-> 1, source |-> Execution(answers), ir |-> Execution(answers),
               machine |-> Machine(answers)]
  /\ UNCHANGED <<source, blocks, asm, gaps, vars>>

\* Each of the three executions goes through a block, unless it is over.
Advanced(s, Through(_)) == IF s.mode = "next" THEN Through(s) ELSE s

ExecuteBlock ==
  /\ run.turns \in 1..MaxBlocks
  /\ \E s \in {run.source, run.ir, run.machine} : s.mode = "next"
  /\ run' = [turns |-> run.turns + 1,
             source |-> Advanced(run.source, LAMBDA s : IR!ExecuteBlock(source, s)),
             ir |-> Advanced(run.ir, LAMBDA s : IR!ExecuteBlock(blocks, s)),
             machine |-> Advanced(run.machine, RunAsm)]
  /\ UNCHANGED <<source, blocks, asm, gaps, vars>>

BackendNext == Allocate \/ GenerateAssembly \/ Execute \/ ExecuteBlock

BackendSpec == BackendInit /\ [][BackendNext]_<<vars, backend>>

-----------------------------------------------------------------------------
(* Properties.                                                             *)

Running == run.turns # 0

\* Two executions that cannot be told apart from outside so far.
Same(s, t) ==
  /\ s.mode = t.mode
  /\ s.calls = t.calls
  /\ s.mode = "next" => s.to = t.to
  /\ s.mode = "done" => s.val = t.val

\* GVN and DCE change neither the calls a function makes nor what it has in its
\* stack slots between two blocks nor what it returns, and a temporary that
\* constant propagation takes for a constant has that value whenever it was
\* computed.
PassesKeepMeaning ==
  Running =>
    /\ Same(run.source, run.ir) /\ run.source.mem = run.ir.mem
    /\ LET known == IR!ConstantValues(source)
       IN \A v \in DOMAIN known : run.source.env[v[2]] \in {known[v], IR!Undefined}

Loops == \E b \in Block : \E s \in Successors(b) : s <= b

\* No temporary is live at the entry: each is defined on every way to a use.
DefinedOnEveryWay == LivingAtStarts[1] = {}

\* A function with none of the gaps runs as its IR does.  The intervals, which
\* are positions in the text, are no gap in a function without a loop that
\* defines on every way what it uses.
FaithfulCode ==
  Running /\ (IF Loops \/ ~DefinedOnEveryWay THEN gaps ELSE gaps \ {"intervals"}) = {}
    => Same(run.ir, run.machine)

\* And with a loop, if the backend supports loops and an interval is where the
\* value is live.
LoopsFaithful ==
  Running /\ gaps \subseteq {"intervals"} => Same(run.ir, run.machine)
=============================================================================
