--------------------------- MODULE DominatorTree ---------------------------
(***************************************************************************)
(* DominatorTree::run and dominates (lib/CodeGen/Pass.cpp): the iterative  *)
(* dominator algorithm, block by block, and the immediate dominators found *)
(* from its result.                                                        *)
(*                                                                         *)
(* Doms is a std::map: looking up a predecessor that is not a block of the *)
(* function any more makes an empty entry, so doms is {} outside of        *)
(* graph.blocks.                                                           *)
(***************************************************************************)
EXTENDS ControlFlowGraph

CONSTANT Graphs     \* the functions the analysis is computed for

ASSUME GraphsAssumption == \A g \in Graphs : g \in Graph /\ Entry \in g.blocks

VARIABLES
  graph,     \* the function
  phase,     \* "sweep", "idoms" or "done"
  doms,      \* Doms
  todo,      \* the blocks the current loop over the function has not visited
  changed,   \* Changed
  idom       \* IDom of the tree nodes; NoBlock where it is null

vars == <<graph, phase, doms, todo, changed, idom>>

NoBlock == 0

Others == graph.blocks \ {Entry}

\* The entry dominates itself; the others start with every block.
InitialDoms(b) ==
  IF b = Entry THEN {Entry} ELSE IF b \in graph.blocks THEN graph.blocks ELSE {}

Init ==
  /\ graph \in Graphs
  /\ phase = "sweep"
  /\ doms = [b \in Block |-> InitialDoms(b)]
  /\ todo = Others
  /\ changed = FALSE
  /\ idom = [b \in Block |-> NoBlock]

-----------------------------------------------------------------------------
\* NewDoms: the block and what dominates all of its predecessors.
NewDoms(sets, b) ==
  {b} \cup {d \in Block : /\ graph.preds[b] # {}
                          /\ \A p \in graph.preds[b] : d \in sets[p]}

\* Mutant: the flag is overwritten, not accumulated.
ChangedByLast(b) == NewDoms(doms, b) # doms[b]

ChangedBy(b) == changed \/ NewDoms(doms, b) # doms[b]

\* One block of a sweep.
Visit(b) ==
  /\ phase = "sweep"
  /\ IsNext(b, todo)
  /\ doms' = [doms EXCEPT ![b] = NewDoms(doms, b)]
  /\ changed' = ChangedBy(b)
  /\ todo' = todo \ {b}
  /\ UNCHANGED <<graph, phase, idom>>

\* while (Changed)
SweepAgain ==
  /\ phase = "sweep"
  /\ todo = {}
  /\ changed
  /\ changed' = FALSE
  /\ todo' = Others
  /\ UNCHANGED <<graph, phase, doms, idom>>

Converge ==
  /\ phase = "sweep"
  /\ todo = {}
  /\ ~changed
  /\ phase' = "idoms"
  /\ todo' = Others
  /\ UNCHANGED <<graph, doms, changed, idom>>

\* Mutant: the dominator all others dominate is looked for upside down.
IDomCandidatesFarthest(b) ==
  {d \in doms[b] \ {b} : \A e \in doms[b] \ {b, d} : d \in doms[e]}

\* The strict dominators of b that every other one dominates.
IDomCandidates(b) ==
  {d \in doms[b] \ {b} : \A e \in doms[b] \ {b, d} : e \in doms[d]}

\* The first candidate in the order of the addresses: any of them.
SetIDom(b) ==
  /\ phase = "idoms"
  /\ IsNext(b, todo)
  /\ IF IDomCandidates(b) = {} THEN idom' = idom
     ELSE \E d \in IDomCandidates(b) : idom' = [idom EXCEPT ![b] = d]
  /\ todo' = todo \ {b}
  /\ UNCHANGED <<graph, phase, doms, changed>>

Finish ==
  /\ phase = "idoms"
  /\ todo = {}
  /\ phase' = "done"
  /\ UNCHANGED <<graph, doms, todo, changed, idom>>

Next ==
  \/ \E b \in Block : Visit(b) \/ SetIDom(b)
  \/ SweepAgain
  \/ Converge
  \/ Finish

Spec == Init /\ [][Next]_vars

-----------------------------------------------------------------------------
\* The blocks on the walk from b up the tree (getIDom, dominates).
Ancestors(b) == ReachedFrom({b}, [c \in Block |-> {idom[c]} \ {NoBlock}], NumBlocks)

\* DominatorTree::dominates, when the walk ends.
TreeDominates(a, b) ==
  a = b \/ (a \in graph.blocks /\ b \in graph.blocks /\ a \in Ancestors(b))

-----------------------------------------------------------------------------
(* Properties.                                                             *)

TypeOK ==
  /\ graph \in Graph
  /\ phase \in {"sweep", "idoms", "done"}
  /\ doms \in [Block -> SUBSET graph.blocks]
  /\ todo \subseteq graph.blocks \ {Entry}
  /\ changed \in BOOLEAN
  /\ idom \in [Block -> graph.blocks \cup {NoBlock}]

\* The equations Doms is to satisfy.
IsSolution(sets) ==
  /\ sets[Entry] = {Entry}
  /\ \A b \in Block \ graph.blocks : sets[b] = {}
  /\ \A b \in graph.blocks \ {Entry} :
       sets[b] = {b} \cup {d \in graph.blocks :
                             graph.preds[b] # {} /\ \A p \in graph.preds[b] : d \in sets[p]}

\* The sweeps stop only at a solution of the equations, whatever order the
\* blocks come in and however malformed the graph is.
StopsAtSolution == phase # "sweep" => IsSolution(doms)

\* The last loop of run is over; what it leaves does not change any more.
Returning == phase = "idoms" /\ todo = {}

\* Of all solutions, run returns the greatest one: whatever satisfies the
\* equations is below it (the entry has a set of its own, erased blocks none).
AboveSolutions ==
  \A others \in [graph.blocks \ {Entry} -> SUBSET graph.blocks] :
    LET sets == [b \in Block |-> IF b = Entry THEN {Entry}
                                 ELSE IF b \in graph.blocks THEN others[b] ELSE {}]
    IN IsSolution(sets) => \A b \in Block : sets[b] \subseteq doms[b]

GreatestSolution == Returning => IsSolution(doms) /\ AboveSolutions

\* Doms only shrinks, which is why the sweeps end.
OnlyShrinks == [][\A b \in Block : doms'[b] \subseteq doms[b]]_vars

\* Every edge is entered at both ends, and no erased block is listed.
EdgesAtBothEnds(g) == \A b \in g.blocks : g.preds[b] = {p \in g.blocks : b \in g.succs[p]}

\* And every block is reached.
Connected(g) == ReachableBlocks(g) = g.blocks /\ EdgesAtBothEnds(g)

\* Every block is reached from the entry or from a block that none leads to (an
\* erased block that is still listed leads nowhere either).
Rooted(g) ==
  LET roots == {b \in g.blocks : g.preds[b] = {} \/ ~(g.preds[b] \subseteq g.blocks)}
      after == [b \in Block |-> {c \in g.blocks : b \in g.preds[c]}]
  IN g.blocks \subseteq ReachedFrom({Entry} \cup roots, after, NumBlocks)

\* "Check if A dominates B" (Pass.h): in a connected function the walk up the
\* finished tree finds a iff every path from the entry to b passes through a,
\* although it sees single parents only.  The walk has no other end than a null
\* parent: parents form no cycle unless a cycle of the function is reached from
\* nowhere.
TreeExact ==
  Returning =>
    /\ Connected(graph) =>
         \A a, b \in graph.blocks : TreeDominates(a, b) <=> Dominates(graph, a, b)
    /\ Rooted(graph) =>
         \A b \in graph.blocks : idom[b] # NoBlock => b \notin Ancestors(idom[b])
=============================================================================
