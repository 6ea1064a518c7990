---------------------------- MODULE SimplifyCFG ----------------------------
(***************************************************************************)
(* SimplifyCFGPass (lib/CodeGen/Transforms.cpp): the blocks the entry      *)
(* cannot reach are erased.  Merging blocks is a TODO in the code.         *)
(*                                                                         *)
(* The worklist is a queue in the code; here any of its blocks may be      *)
(* taken next, so what is shown does not depend on the order.              *)
(***************************************************************************)
EXTENDS ControlFlowGraph

VARIABLES
  before,      \* the function as the pass found it
  graph,       \* the function as it is now
  phase,       \* "find", "erase" or "done"
  reachable,   \* Reachable
  worklist,    \* Worklist
  todo,        \* the blocks the erasing loop has not looked at
  changed      \* Changed

\* The functions the pass may be run on: no block branches out of the function.
Functions ==
  {g \in Graph : Entry \in g.blocks /\ \A b \in g.blocks : g.succs[b] \subseteq g.blocks}

vars == <<before, graph, phase, reachable, worklist, todo, changed>>

Init ==
  /\ before \in Functions
  /\ graph = before
  /\ phase = "find"
  /\ reachable = {Entry}
  /\ worklist = {Entry}
  /\ todo = {}
  /\ changed = FALSE

\* The successors of b that have not been reached before.
NewSuccessors(b) == graph.succs[b] \ reachable

Marked(b) == reachable \cup NewSuccessors(b)

\* One iteration of the search.
Pop(b) ==
  /\ phase = "find"
  /\ b \in worklist
  /\ reachable' = Marked(b)
  /\ worklist' = (worklist \ {b}) \cup NewSuccessors(b)
  /\ UNCHANGED <<before, graph, phase, todo, changed>>

StartErasing ==
  /\ phase = "find"
  /\ worklist = {}
  /\ phase' = "erase"
  /\ todo' = graph.blocks
  /\ UNCHANGED <<before, graph, reachable, worklist, changed>>

\* Mutant: the block that slides into the place of an erased one is skipped
\* (++it after erase).
AfterErasingSkips(b) ==
  {c \in todo : c > b /\ \E d \in todo : b < d /\ d < c}

\* it = Blocks.erase(it) stays at the next block.
AfterErasing(b) == todo \ {b}

\* An unreachable block is erased.  The Predecessors of the blocks it branched
\* to are left alone.
Erase(b) ==
  /\ phase = "erase"
  /\ IsNext(b, todo)
  /\ b \notin reachable
  /\ graph' = [graph EXCEPT !.blocks = @ \ {b}]
  /\ todo' = AfterErasing(b)
  /\ changed' = TRUE
  /\ UNCHANGED <<before, phase, reachable, worklist>>

Keep(b) ==
  /\ phase = "erase"
  /\ IsNext(b, todo)
  /\ b \in reachable
  /\ todo' = todo \ {b}
  /\ UNCHANGED <<before, graph, phase, reachable, worklist, changed>>

Finish ==
  /\ phase = "erase"
  /\ todo = {}
  /\ phase' = "done"
  /\ UNCHANGED <<before, graph, reachable, worklist, todo, changed>>

Next ==
  \/ \E b \in Block : Pop(b) \/ Erase(b) \/ Keep(b)
  \/ StartErasing
  \/ Finish

Spec == Init /\ [][Next]_vars

-----------------------------------------------------------------------------
(* Properties.                                                             *)

TypeOK ==
  /\ before \in Graph
  /\ graph \in Graph
  /\ phase \in {"find", "erase", "done"}
  /\ reachable \subseteq Block
  /\ worklist \subseteq reachable
  /\ todo \subseteq Block
  /\ changed \in BOOLEAN

\* What is left is what the entry reaches: the surviving blocks contain the
\* entry, are closed under branching, and every such set contains them.
ClosedUnderSuccessors(S) == \A b \in S : before.succs[b] \subseteq S
SurvivorsLeastClosed ==
  phase = "done" =>
    /\ Entry \in graph.blocks
    /\ ClosedUnderSuccessors(graph.blocks)
    /\ \A S \in SUBSET Block :
         Entry \in S /\ ClosedUnderSuccessors(S) => graph.blocks \subseteq S

\* The result of run tells whether a block was erased: the pass manager keeps
\* the dominator tree of a function on the strength of it.
ReturnsWhetherErased ==
  phase = "done" => (changed <=> graph.blocks # before.blocks)

\* No branch of a block that is kept leads to a block that is erased, at any
\* moment of the erasing.
NoBranchIntoErased ==
  \A b \in graph.blocks \cap reachable :
    phase # "find" => graph.succs[b] \subseteq graph.blocks
=============================================================================
