----------------------------- MODULE MCCleanup -----------------------------
(***************************************************************************)
(* Functions for SimplifyCFG, the dominator tree and the loops.            *)
(***************************************************************************)
EXTENDS Cleanup

Few(S) == {s \in SUBSET S : Cardinality(s) <= 2}

\* Every function without unreachable blocks; the blocks end in a return, a jump
\* or a two-way branch.
ConnectedGraphs ==
  {g \in {Built(succs) : succs \in [Block -> Few(Block)]} : ReachableBlocks(g) = Block}

\* Any of the first three blocks, and up to two predecessors each, erased ones
\* included.  The dominator tree reads neither the successors nor the
\* predecessors of the entry.
ArbitraryGraphs ==
  {[blocks |-> bs \cup {Entry}, succs |-> [b \in Block |-> {}], preds |-> ps] :
     bs \in SUBSET (2..3), ps \in {f \in [Block -> Few(1..3)] : f[Entry] = {} /\ f[4] = {}}}

MCGraphs == ConnectedGraphs \cup ArbitraryGraphs

\* Functions in which nothing branches to the entry, as IRBuilder builds them,
\* with unreachable blocks or without.  SimplifyCFG does not look at the numbers of
\* the blocks: one the entry leads to is block 2.
MCUncleaned ==
  {Built(succs) : succs \in {f \in [Block -> Few(Block \ {Entry})] : f[Entry] = {} \/ 2 \in f[Entry]}}
=============================================================================
