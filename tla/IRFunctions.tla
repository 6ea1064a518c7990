---------------------------- MODULE IRFunctions ----------------------------
(***************************************************************************)
(* IR functions (include/yac/CodeGen/IR.h) as IRBuilder makes them and     *)
(* IRVerifier reads them: a sequence of basic blocks, the entry first, each *)
(* with its instructions and the lists of its successors and predecessors. *)
(*                                                                         *)
(* A block is its position in the function.  Branches name their targets   *)
(* by label and the lists hold block pointers; a label belongs to one block *)
(* (every label gets a number of its own), so both are positions here, but *)
(* nothing makes the lists agree with the branches.                        *)
(***************************************************************************)
EXTENDS Integers, Sequences, SequencesExt

\* Values are compared as pointers: every constant, temporary and parameter is
\* an IRValue of its own.
Const(n) == <<"const", n>>
Temp(n) == <<"temp", n>>
Param(i) == <<"param", i>>
Null == <<"null", 0>>        \* nullptr

IsConstant(v) == v[1] = "const"

\* to holds the targets of a branch, from the blocks of the incoming values args
\* of a phi node.
Instruction(op, callee, res, args) ==
  [op |-> op, callee |-> callee, res |-> res, args |-> args, to |-> <<>>, from |-> <<>>]

Alloca(res) == Instruction("alloca", 0, res, <<>>)
Store(v, slot) == Instruction("store", 0, Null, <<v, slot>>)
Label == Instruction("label", 0, Null, <<>>)
Ret(v) == Instruction("ret", 0, Null, IF v = Null THEN <<>> ELSE <<v>>)
Br(target) == [Instruction("br", 0, Null, <<>>) EXCEPT !.to = <<target>>]
CondBr(v, yes, no) == [Instruction("condbr", 0, Null, <<v>>) EXCEPT !.to = <<yes, no>>]
Phi(res, vs, bs) == [Instruction("phi", 0, res, vs) EXCEPT !.from = bs]

IsTerminator(inst) == inst.op \in {"ret", "br", "condbr"}

EmptyBlock == [code |-> <<>>, succs |-> <<>>, preds |-> <<>>]

\* getTerminator() # nullptr
Terminated(block) == block.code # <<>> /\ IsTerminator(Last(block.code))

\* The labels the terminator names.
Targets(block) == IF Terminated(block) THEN Last(block.code).to ELSE <<>>
=============================================================================
