------------------------------ MODULE LoopInfo ------------------------------
(***************************************************************************)
(* LoopInfo (lib/CodeGen/Pass.cpp): the natural loops of a function, found *)
(* with the dominator tree run computes first.                             *)
(*                                                                         *)
(* The headers come in the order of the addresses of their blocks, and the *)
(* recursion of populateLoop is a worklist here: both in any order.  Both  *)
(* analyses are computed for every function; what is said of loops is said *)
(* of the functions without unreachable blocks.                            *)
(***************************************************************************)
EXTENDS DominatorTree

VARIABLES
  loopPhase,    \* "tree", "headers", "populate" or "found"
  header,       \* the loop being built
  toAdd,        \* the calls of populateLoop still to be made for it
  loopBlocks,   \* Blocks of the loops by their header; {} for other blocks
  latches,      \* Latches
  preheader     \* Preheader; NoBlock where it is null

loopVars == <<loopPhase, header, toAdd, loopBlocks, latches, preheader>>

\* Mutant: every edge backwards in the list of blocks is a back edge.
BackEdgesByPosition(h) == {b \in graph.blocks : h \in graph.succs[b] /\ h <= b}

\* BackEdges[h]: the sources of the edges to h that h dominates.
BackEdges(h) == {b \in graph.blocks : h \in graph.succs[b] /\ TreeDominates(h, b)}

Headers == {h \in graph.blocks : BackEdges(h) # {}}

LoopsNotFound ==
  /\ loopPhase = "tree"
  /\ header = NoBlock
  /\ toAdd = {}
  /\ loopBlocks = [h \in Block |-> {}]
  /\ latches = [h \in Block |-> {}]
  /\ preheader = [h \in Block |-> NoBlock]

LoopInit == Init /\ LoopsNotFound

\* DT.run(F), step by step.
BuildTree == Next /\ UNCHANGED loopVars

\* identifyLoops, called with the finished tree.
StartLoops ==
  /\ phase = "done"
  /\ loopPhase = "tree"
  /\ loopPhase' = "headers"
  /\ UNCHANGED <<vars, header, toAdd, loopBlocks, latches, preheader>>

InitialBody(h) == {h}

\* Mutant: only one of the latches is followed.
FirstCallsOfOne(h) == {CHOOSE b \in BackEdges(h) : TRUE}

FirstCalls(h) == BackEdges(h)

\* createLoop, with the header as its first block.
CreateLoop(h) ==
  /\ loopPhase = "headers"
  /\ h \in Headers
  /\ loopBlocks[h] = {}
  /\ header' = h
  /\ loopBlocks' = [loopBlocks EXCEPT ![h] = InitialBody(h)]
  /\ latches' = [latches EXCEPT ![h] = BackEdges(h)]
  /\ toAdd' = FirstCalls(h)
  /\ loopPhase' = "populate"
  /\ UNCHANGED <<vars, preheader>>

\* Mutant: only the header ends the recursion.
StopAtHeader(b) == b = header

StopAt(b) == b = header \/ b \in loopBlocks[header]

\* One call of populateLoop: a new block brings its predecessors along.
PopulateLoop(b) ==
  /\ loopPhase = "populate"
  /\ b \in toAdd
  /\ IF StopAt(b)
       THEN /\ toAdd' = toAdd \ {b}
            /\ UNCHANGED loopBlocks
       ELSE /\ toAdd' = (toAdd \ {b}) \cup graph.preds[b]
            /\ loopBlocks' = [loopBlocks EXCEPT ![header] = @ \cup {b}]
  /\ UNCHANGED <<vars, loopPhase, header, latches, preheader>>

OutsidePreds == graph.preds[header] \ loopBlocks[header]

\* Mutant: any predecessor outside of the loop will do.
PreheaderAny ==
  IF OutsidePreds = {} THEN NoBlock ELSE CHOOSE p \in OutsidePreds : TRUE

PreheaderOf ==
  IF Cardinality(OutsidePreds) = 1 THEN CHOOSE p \in OutsidePreds : TRUE ELSE NoBlock

FinishLoop ==
  /\ loopPhase = "populate"
  /\ toAdd = {}
  /\ preheader' = [preheader EXCEPT ![header] = PreheaderOf]
  /\ loopPhase' = "headers"
  /\ UNCHANGED <<vars, header, toAdd, loopBlocks, latches>>

FinishLoops ==
  /\ loopPhase = "headers"
  /\ \A h \in Headers : loopBlocks[h] # {}
  /\ loopPhase' = "found"
  /\ UNCHANGED <<vars, header, toAdd, loopBlocks, latches, preheader>>

LoopNext ==
  \/ BuildTree
  \/ StartLoops
  \/ \E b \in Block : CreateLoop(b) \/ PopulateLoop(b)
  \/ FinishLoop
  \/ FinishLoops

-----------------------------------------------------------------------------
(* Properties.                                                             *)

LoopTypeOK ==
  /\ TypeOK
  /\ loopPhase \in {"tree", "headers", "populate", "found"}
  /\ header \in Block \cup {NoBlock}
  /\ toAdd \subseteq Block
  /\ loopBlocks \in [Block -> SUBSET Block]
  /\ \A h \in Block : latches[h] \subseteq loopBlocks[h] \cup toAdd
  /\ preheader \in [Block -> Block \cup {NoBlock}]

\* The loops are the natural loops of the function, whatever order the blocks
\* are visited in, and blocks that are no header have none.
LoopsAreNatural ==
  loopPhase = "found" /\ Connected(graph) =>
    \A h \in Block :
      loopBlocks[h] = IF BackEdgeSources(graph, h) = {} THEN {} ELSE NaturalLoop(graph, h)

\* In any function, with unreachable or erased blocks or without: a loop is the
\* least set that contains its header and its latches and with each other block
\* all predecessors of it.
ClosedBackwards(S, h) ==
  h \in S /\ latches[h] \subseteq S /\ \A b \in S \ {h} : graph.preds[b] \subseteq S
LoopsLeastClosed ==
  loopPhase = "found" =>
    \A h \in Block : loopBlocks[h] # {} =>
      /\ ClosedBackwards(loopBlocks[h], h)
      /\ \A S \in SUBSET Block : ClosedBackwards(S, h) => loopBlocks[h] \subseteq S

\* The preheader is outside of the loop, and no other block outside of it
\* branches into it.
OnlyWayIn(h) ==
  /\ preheader[h] \notin loopBlocks[h]
  /\ \A p \in graph.blocks \ loopBlocks[h] :
       graph.succs[p] \cap loopBlocks[h] # {} => p = preheader[h]
PreheadersAreOnlyWaysIn ==
  loopPhase = "found" /\ EdgesAtBothEnds(graph) =>
    \A h \in Block : preheader[h] # NoBlock => OnlyWayIn(h)

\* Every way into a loop that has a preheader leads over the preheader and is
\* outside the loop until then: code moved there runs before the loop does.
PreheaderGuardsLoop ==
  loopPhase = "found" /\ Connected(graph) =>
    \A h \in Block : preheader[h] # NoBlock =>
      OnlyWayIn(h) /\ \A b \in loopBlocks[h] : Dominates(graph, preheader[h], b)
=============================================================================
