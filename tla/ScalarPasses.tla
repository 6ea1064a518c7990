---------------------------- MODULE ScalarPasses ----------------------------
(***************************************************************************)
(* The passes over single instructions (lib/CodeGen/Transforms.cpp) as     *)
(* operators on the blocks of a function: global value numbering, constant *)
(* propagation and dead code elimination.                                  *)
(*                                                                         *)
(* All of them compare values as pointers.  A constant is                  *)
(* <<"const", n, id>> here: two constants with the same n are one IRValue  *)
(* only if their ids agree.                                                *)
(***************************************************************************)
EXTENDS IRSemantics, FiniteSets

Positions(blocks) == UNION {{<<b, i>> : i \in DOMAIN blocks[b].code} : b \in DOMAIN blocks}
At(blocks, p) == blocks[p[1]].code[p[2]]

\* The instructions block after block.
Text(blocks) == FlattenSeq([b \in DOMAIN blocks |-> blocks[b].code])

\* The function with the instructions code[b] in each block b.  (It is itself from
\* the first block to the last; SubSeq has TLC compute it once.)
Rewritten(blocks, code) ==
  SubSeq([b \in DOMAIN blocks |-> [blocks[b] EXCEPT !.code = code[b]]], 1, Len(blocks))

-----------------------------------------------------------------------------
(* Value numbering.                                                        *)

\* The instructions the pass looks at, and what createExpression makes of one.
IsPure(inst) == inst.op \in BinaryOperators \cup {"not"}
Expression(inst) == <<inst.op, inst.args>>

\* Mutant: what was computed in the blocks before still counts.
EarlierInText(blocks, p) ==
  {q \in Positions(blocks) : q[1] < p[1] \/ (q[1] = p[1] /\ q[2] < p[2])}

\* The instructions ExpressionMap may know of at p: it is cleared at the start of
\* each block.
Earlier(blocks, p) == {q \in Positions(blocks) : q[1] = p[1] /\ q[2] < p[2]}

\* Those that have computed what p computes; the first of them is in ExpressionMap.
Computed(blocks, p) ==
  {q \in Earlier(blocks, p) : /\ IsPure(At(blocks, q))
                              /\ Expression(At(blocks, q)) = Expression(At(blocks, p))}
FindExisting(blocks, p) ==
  CHOOSE q \in Computed(blocks, p) : \A r \in Computed(blocks, p) : q[2] <= r[2]

Redundant(blocks) ==
  {p \in Positions(blocks) : IsPure(At(blocks, p)) /\ Computed(blocks, p) # {}}

\* The map of this name: the result of a redundant instruction to the result of
\* the one that exists.
Replacements(blocks) ==
  LET redundant == Redundant(blocks)
      defining(v) == CHOOSE p \in redundant : At(blocks, p).res = v
  IN [v \in {At(blocks, p).res : p \in redundant} |->
        At(blocks, FindExisting(blocks, defining(v))).res]

\* replaceAllUsesWith: the arguments of calls and the addresses of loads stay.
\* No replacement is itself replaced, so the order of the map does not matter.
ReplaceUses(inst, replaced) ==
  IF inst.op \in {"call", "load"} THEN inst
  ELSE [inst EXCEPT !.args = [i \in DOMAIN @ |-> IF @[i] \in DOMAIN replaced
                                                   THEN replaced[@[i]] ELSE @[i]]]

GVN(blocks) ==
  LET replaced == Replacements(blocks)
  IN Rewritten(blocks, [b \in DOMAIN blocks |->
       [i \in DOMAIN blocks[b].code |-> ReplaceUses(blocks[b].code[i], replaced)]])

-----------------------------------------------------------------------------
(* Constant propagation.                                                   *)

ConstantOrKnown(v, known) == IsConstant(v) \/ v \in DOMAIN known
ConstantIn(v, known) == IF IsConstant(v) THEN v[2] ELSE known[v]

\* tryFoldBinary refuses a division by zero, which Applied leaves undefined.
Folded(inst, known) ==
  Applied(inst.op, ConstantIn(inst.args[1], known), ConstantIn(inst.args[2], known))
CanFold(inst, known) ==
  /\ inst.op \in BinaryOperators
  /\ \A i \in DOMAIN inst.args : ConstantOrKnown(inst.args[i], known)
  /\ Folded(inst, known) # Undefined

\* ConstantValues after one more round.  What is known stays, so the order within
\* a round does not matter to what the last one leaves.
Fold(blocks, known) ==
  LET new == {p \in Positions(blocks) : /\ At(blocks, p).res \notin DOMAIN known
                                        /\ CanFold(At(blocks, p), known)}
      defining(v) == CHOOSE p \in new : At(blocks, p).res = v
  IN [v \in DOMAIN known \cup {At(blocks, p).res : p \in new} |->
        IF v \in DOMAIN known THEN known[v] ELSE Folded(At(blocks, defining(v)), known)]

\* ConstantValues when nothing changes any more; every round but the last adds
\* one value at least.  The pass records them and replaces nothing.
ConstantValues(blocks) ==
  LET rounds == Cardinality(Positions(blocks))
      Known[n \in 0..rounds] == IF n = 0 THEN <<>> ELSE Fold(blocks, Known[n - 1])
  IN Known[rounds]

-----------------------------------------------------------------------------
(* Dead code elimination.                                                  *)

IsInstructionDead(inst) == ~(IsTerminator(inst) \/ inst.op \in {"store", "call"})

\* What has an effect.
CollectLiveInstructions(blocks) ==
  {p \in Positions(blocks) : \/ IsTerminator(At(blocks, p))
                             \/ At(blocks, p).op \in {"store", "call"}}

\* The instructions that define an operand of a live one are live.
MarkOperands(blocks, live) ==
  live \cup {p \in Positions(blocks) :
               /\ At(blocks, p).res # Null
               /\ \E q \in live : At(blocks, p).res \in ToSet(At(blocks, q).args)}
LiveInstructions(blocks) ==
  LET rounds == Cardinality(Positions(blocks))
      Live[n \in 0..rounds] == IF n = 0 THEN CollectLiveInstructions(blocks)
                               ELSE MarkOperands(blocks, Live[n - 1])
  IN Live[rounds]

\* An instruction is erased if it is not live and isInstructionDead denies that
\* it is dead: no instruction is.
Erased(blocks, live, p) == p \notin live /\ ~IsInstructionDead(At(blocks, p))

\* What is left of block b; Kept[i] of its first i instructions.
WithoutErased(blocks, live, b) ==
  LET code == blocks[b].code
      Kept[i \in 0..Len(code)] ==
        IF i = 0 THEN <<>>
        ELSE IF Erased(blocks, live, <<b, i>>) THEN Kept[i - 1]
        ELSE Append(Kept[i - 1], code[i])
  IN Kept[Len(code)]

DCE(blocks) ==
  LET live == LiveInstructions(blocks)
  IN Rewritten(blocks, [b \in DOMAIN blocks |-> WithoutErased(blocks, live, b)])

\* What -O2 does to the instructions from its first DCE to its last one: copy and
\* constant propagation and SCCP leave the IR alone, and the SimplifyCFG among them
\* has nothing to erase where the entry leads to every block.  SimplifyCFG and
\* Mem2Reg come before, LICM and SimplifyCFG after, and are no part of it.
Optimized(blocks) == DCE(GVN(DCE(blocks)))
=============================================================================
