-------------------------- MODULE ControlFlowGraph --------------------------
(***************************************************************************)
(* Control flow graphs of IR functions (include/yac/CodeGen/IR.h) and the  *)
(* reference notions the analyses and transformations are held to.         *)
(*                                                                         *)
(* A block is its position in the function when it was built, so that the  *)
(* list F->getBlocks() is the set of blocks in increasing order, before    *)
(* and after blocks are erased.  Successors and Predecessors are sets: no  *)
(* reader of them depends on their order or on repetitions.  A predecessor *)
(* outside graph.blocks is the address of an erased block.                 *)
(***************************************************************************)
EXTENDS Integers, FiniteSets, Reaching

CONSTANT NumBlocks

ASSUME NumBlocksAssumption == NumBlocks \in Nat \ {0}

Block == 1..NumBlocks
Entry == 1      \* F->getBlocks()[0]

Graph == [blocks : SUBSET Block, succs : [Block -> SUBSET Block],
          preds : [Block -> SUBSET Block]]

\* The graph addSuccessor builds: it enters each edge at both ends.
Built(succs) ==
  [blocks |-> Block, succs |-> succs,
   preds |-> [b \in Block |-> {p \in Block : b \in succs[p]}]]

\* The next block of a range-based for over the blocks still to be visited.
IsNext(b, todo) == b \in todo /\ \A c \in todo : b <= c

-----------------------------------------------------------------------------
(* Reference notions.                                                      *)

\* The blocks control can reach from the entry without passing through d.
ReachableAvoiding(g, d) ==
  ReachedFrom({Entry} \ {d}, [b \in Block |-> g.succs[b] \ {d}], NumBlocks)

ReachableBlocks(g) == ReachableAvoiding(g, 0)

\* d dominates b: every path from the entry to b passes through d.
Dominates(g, d, b) == b \notin ReachableAvoiding(g, d)

\* The natural loop of a header: the header and the blocks that reach one of
\* its back edges without passing through it.
BackEdgeSources(g, h) ==
  {b \in ReachableBlocks(g) : h \in g.succs[b] /\ Dominates(g, h, b)}

NaturalLoop(g, h) ==
  LET before == [b \in Block |-> {p \in Block \ {h} : b \in g.succs[p]}]
  IN {h} \cup (ReachedFrom(BackEdgeSources(g, h) \ {h}, before, NumBlocks)
                 \cap ReachableBlocks(g))
=============================================================================
