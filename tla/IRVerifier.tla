----------------------------- MODULE IRVerifier -----------------------------
(***************************************************************************)
(* IRVerifier::verifyFunction (lib/CodeGen/IRVerifier.cpp): the checks of a *)
(* function, one operator each.  A function is the sequence of its blocks. *)
(***************************************************************************)
EXTENDS IRFunctions, Reaching

\* Mutant: a block that does not end with a terminator is let through.
CheckBlockTerminatorLenient(ir, i) ==
  \A k \in 1..Len(ir[i].code) - 1 : ~IsTerminator(ir[i].code[k])

\* A block ends with its only terminator.  One that does not is let through if
\* nothing leads to it.
CheckBlockTerminator(ir, i) ==
  LET code == ir[i].code
  IN /\ code # <<>>
     /\ IF IsTerminator(Last(code))
          THEN \A k \in 1..Len(code) - 1 : ~IsTerminator(code[k])
          ELSE i # 1 /\ ir[i].preds = <<>>

\* Successor and predecessor lists agree; the targets of the terminator are not
\* compared with them.
CheckCFGConsistency(ir, i) ==
  Terminated(ir[i]) =>
    /\ \A s \in ToSet(ir[i].succs) : i \in ToSet(ir[s].preds)
    /\ \A p \in ToSet(ir[i].preds) : i \in ToSet(ir[p].succs)

CheckPhiNodes(ir, i) ==
  \A k \in 1..Len(ir[i].code) :
    LET inst == ir[i].code[k]
    IN inst.op = "phi" =>
         /\ \A j \in 1..k : ir[i].code[j].op = "phi"
         /\ Len(inst.from) = Len(ir[i].preds)
         /\ IsInjective(inst.from)
         /\ ToSet(inst.from) \subseteq ToSet(ir[i].preds)

\* What is defined when instruction k of block i is checked: blocks are taken in
\* the order of the function, whatever way control takes.
DefinedBefore(ir, params, i, k) ==
  {Param(p) : p \in 1..params}
    \cup (UNION {{ir[j].code[m].res : m \in 1..Len(ir[j].code)} : j \in 1..i - 1})
    \cup {ir[i].code[m].res : m \in 1..k - 1}

CheckDefBeforeUse(ir, params) ==
  \A i \in 1..Len(ir) : \A k \in 1..Len(ir[i].code) :
    ir[i].code[k].op = "phi" \/
      \A v \in ToSet(ir[i].code[k].args) :
        IsConstant(v) \/ v \in DefinedBefore(ir, params, i, k)

CheckNoOrphanedBlocks(ir) ==
  ReachedFrom({1}, [i \in DOMAIN ir |-> ToSet(ir[i].succs)], Len(ir)) = 1..Len(ir)

VerifyBasicBlock(ir, i) ==
  CheckBlockTerminator(ir, i) /\ CheckCFGConsistency(ir, i) /\ CheckPhiNodes(ir, i)

VerifyFunction(ir, params) ==
  /\ ir # <<>>
  /\ \A i \in 1..Len(ir) : VerifyBasicBlock(ir, i)
  /\ CheckDefBeforeUse(ir, params)
  /\ CheckNoOrphanedBlocks(ir)
=============================================================================
