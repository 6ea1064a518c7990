--------------------------- MODULE CleanupProofs ---------------------------
(***************************************************************************)
(* Proofs about DominatorTree, LoopInfo and Cleanup for functions of any   *)
(* size and shape, erased blocks among the predecessors included.          *)
(*                                                                         *)
(* The dominator tree: the sweeps only ever lose dominators, never lose    *)
(* one that some solution of the equations has, and stop only at a         *)
(* solution.  In a function without unreachable blocks that is dominance,  *)
(* and the tree has it.                                                    *)
(*                                                                         *)
(* The loops, in whatever order the headers and the calls of populateLoop  *)
(* come: a loop is the least set closed under predecessors, and its        *)
(* preheader the only way in.                                              *)
(*                                                                         *)
(* What is shown of SimplifyCFG, of the dominator tree and of the loops    *)
(* alone holds of them together: the analyses do not disturb what the pass *)
(* left, and the pass leaves a function the analyses can start with,       *)
(* erased predecessors and all.                                            *)
(***************************************************************************)
EXTENDS Cleanup, ControlFlowGraphProofs

-----------------------------------------------------------------------------
(* The dominator tree.                                                     *)

\* What Doms holds for the entry and for blocks that are not in the function.
Frame ==
  /\ Entry \in graph.blocks
  /\ doms[Entry] = {Entry}
  /\ \A b \in Block \ graph.blocks : doms[b] = {}

\* Visiting a block again can only remove dominators.
Shrinking == \A b \in Others : NewDoms(doms, b) \subseteq doms[b]

\* While no visit of this sweep has changed anything, the visited blocks
\* satisfy their equations; after the last sweep all do.
Settled ==
  /\ phase = "sweep" /\ changed = FALSE =>
       \A b \in Others \ todo : doms[b] = NewDoms(doms, b)
  /\ phase # "sweep" => \A b \in Others : doms[b] = NewDoms(doms, b)

\* Sets in which every block has only dominators its equation gives it again.
Supported(sets) ==
  /\ sets[Entry] \subseteq {Entry}
  /\ \A b \in Block \ graph.blocks : sets[b] = {}
  /\ \A b \in Others : sets[b] \subseteq NewDoms(sets, b)

\* No visit ever removes a dominator that is in such sets.
AboveAllSupported ==
  \A sets \in [Block -> SUBSET graph.blocks] :
    Supported(sets) => \A b \in Block : sets[b] \subseteq doms[b]

\* Parents are looked for in the final sets; those still to be visited have none.
Parents ==
  /\ \A b \in Block : b \notin Others \/ phase = "sweep" \/ b \in todo => idom[b] = NoBlock
  /\ phase # "sweep" => \A b \in Others \ todo :
       IF IDomCandidates(b) = {} THEN idom[b] = NoBlock ELSE idom[b] \in IDomCandidates(b)
  /\ phase = "done" => todo = {}

Inv == TypeOK /\ Frame /\ Shrinking /\ Settled /\ AboveAllSupported /\ Parents

LEMMA EntryInBlock == Entry \in Block
  BY NumBlocksAssumption DEF Entry, Block

\* NewDoms stays inside the function and is monotone.
LEMMA NewDomsType ==
  ASSUME graph \in Graph, doms \in [Block -> SUBSET graph.blocks], NEW b \in Others
  PROVE  NewDoms(doms, b) \subseteq graph.blocks
<1>1. b \in graph.blocks /\ b \in Block /\ graph.preds[b] \subseteq Block
  BY DEF Others, Graph
<1> QED
  BY <1>1 DEF NewDoms

LEMMA NewDomsMonotone ==
  ASSUME NEW low, NEW high, NEW b, graph.preds[b] \subseteq Block,
         \A p \in Block : low[p] \subseteq high[p]
  PROVE  NewDoms(low, b) \subseteq NewDoms(high, b)
  BY DEF NewDoms

\* The equation of IsSolution is that of NewDoms.
LEMMA SolutionBelow ==
  ASSUME graph \in Graph, NEW sets \in [Block -> SUBSET graph.blocks], NEW b \in Others,
         IsSolution(sets)
  PROVE  sets[b] = NewDoms(sets, b)
<1>1. b \in graph.blocks \ {Entry} /\ b \in Block /\ graph.preds[b] \subseteq Block
  BY DEF Others, Graph
<1>2. sets[b] = {b} \cup {d \in graph.blocks :
                   graph.preds[b] # {} /\ \A p \in graph.preds[b] : d \in sets[p]}
  BY <1>1 DEF IsSolution
<1>3. graph.blocks \subseteq Block
  BY DEF Graph
<1> QED
  BY <1>1, <1>2, <1>3 DEF NewDoms

\* The state run starts with, whatever the function.
Started ==
  /\ graph \in Graph /\ Entry \in graph.blocks
  /\ phase = "sweep"
  /\ doms = [b \in Block |-> InitialDoms(b)]
  /\ todo = Others
  /\ changed = FALSE
  /\ idom = [b \in Block |-> NoBlock]

LEMMA StartInv == Started => Inv
<1> SUFFICES ASSUME Started PROVE Inv
  OBVIOUS
<1>1. graph \in Graph /\ Entry \in graph.blocks /\ graph.blocks \subseteq Block
  BY DEF Started, Graph
<1>2. \A b \in Block : doms[b] = InitialDoms(b)
  BY DEF Started
<1>3. doms \in [Block -> SUBSET graph.blocks]
  BY <1>1 DEF Started, InitialDoms
<1>4. TypeOK
  BY <1>1, <1>3 DEF Started, TypeOK, Others
<1>5. Frame
  BY <1>1, <1>2, EntryInBlock DEF Frame, InitialDoms
<1>6. Shrinking
  <2>1. ASSUME NEW b \in Others PROVE NewDoms(doms, b) \subseteq doms[b]
    <3>1. doms[b] = graph.blocks
      BY <1>1, <1>2 DEF InitialDoms, Others
    <3> QED
      BY <1>1, <1>3, <3>1, NewDomsType
  <2> QED
    BY <2>1 DEF Shrinking
<1>7. Settled
  BY DEF Started, Settled
<1>8. AboveAllSupported
  <2>1. ASSUME NEW sets \in [Block -> SUBSET graph.blocks], Supported(sets), NEW b \in Block
        PROVE  sets[b] \subseteq doms[b]
    BY <1>2, <2>1 DEF Supported, InitialDoms
  <2> QED
    BY <2>1 DEF AboveAllSupported
<1>9. Parents
  BY DEF Started, Parents
<1> QED
  BY <1>4, <1>5, <1>6, <1>7, <1>8, <1>9 DEF Inv

LEMMA InitInv == Init => Inv
<1> SUFFICES ASSUME Init PROVE Started
  BY StartInv
<1> QED
  BY GraphsAssumption DEF Init, Started

\* A visit replaces one set by a smaller one.
LEMMA VisitShrinks ==
  ASSUME Inv, NEW b \in Block, Visit(b)
  PROVE  /\ b \in Others /\ graph' = graph
         /\ NewDoms(doms, b) \subseteq graph.blocks
         /\ \A c \in Block : doms'[c] = IF c = b THEN NewDoms(doms, b) ELSE doms[c]
         /\ \A c \in Block : doms'[c] \subseteq doms[c]
<1>1. b \in Others /\ graph' = graph
  BY DEF Inv, TypeOK, Visit, IsNext, Others
<1>2. doms \in [Block -> SUBSET graph.blocks] /\ doms' = [doms EXCEPT ![b] = NewDoms(doms, b)]
  BY DEF Inv, TypeOK, Visit
<1>3. NewDoms(doms, b) \subseteq graph.blocks
  BY <1>1, <1>2, NewDomsType DEF Inv, TypeOK
<1>4. \A c \in Block : doms'[c] = IF c = b THEN NewDoms(doms, b) ELSE doms[c]
  BY <1>2
<1>5. NewDoms(doms, b) \subseteq doms[b]
  BY <1>1 DEF Inv, Shrinking
<1> QED
  BY <1>1, <1>3, <1>4, <1>5

LEMMA VisitInv ==
  ASSUME Inv, NEW b \in Block, Visit(b)
  PROVE  Inv'
<1>1. /\ b \in Others /\ graph' = graph
      /\ NewDoms(doms, b) \subseteq graph.blocks
      /\ \A c \in Block : doms'[c] = IF c = b THEN NewDoms(doms, b) ELSE doms[c]
      /\ \A c \in Block : doms'[c] \subseteq doms[c]
  BY VisitShrinks
<1>2. doms' = [doms EXCEPT ![b] = NewDoms(doms, b)] /\ doms \in [Block -> SUBSET graph.blocks]
  BY DEF Visit, Inv, TypeOK
<1>3. graph \in Graph /\ \A c \in Others : graph.preds[c] \subseteq Block /\ c \in Block
  BY DEF Inv, TypeOK, Others, Graph
<1>4. b \in graph.blocks /\ b # Entry /\ Others' = Others
  BY <1>1 DEF Others
<1>5. changed \in BOOLEAN /\ changed' = ChangedBy(b) /\ todo' = todo \ {b} /\ phase' = "sweep"
  BY DEF Visit, Inv, TypeOK
<1>6. TypeOK'
  <2>1. doms' \in [Block -> SUBSET graph.blocks]
    BY <1>1, <1>2
  <2>2. changed' \in BOOLEAN
    BY <1>5, Zenon DEF ChangedBy
  <2> QED
    BY <1>1, <2>1, <2>2 DEF Inv, TypeOK, Visit
<1>7. Frame'
  BY <1>1, <1>4, EntryInBlock DEF Inv, Frame
<1>8. \A sets, c : (NewDoms(sets, c))' = NewDoms(sets', c)
  BY <1>1 DEF NewDoms
<1>9. \A sets, c : (graph.preds[c])' = graph.preds[c]
  BY <1>1
<1>10. Shrinking'
  <2>1. ASSUME NEW c \in Others PROVE NewDoms(doms', c) \subseteq doms'[c]
    <3>1. NewDoms(doms', c) \subseteq NewDoms(doms, c)
      BY <1>1, <1>3, NewDomsMonotone
    <3>2. NewDoms(doms, c) \subseteq doms[c]
      BY DEF Inv, Shrinking
    <3> QED
      BY <1>1, <1>3, <3>1, <3>2
  <2> QED
    BY <1>1, <1>4, <2>1 DEF Shrinking, NewDoms
<1>11. Settled'
  <2>1. CASE changed = TRUE
    <3>1. changed' = TRUE
      BY <1>5, <2>1, Zenon DEF ChangedBy
    <3> QED
      BY <1>5, <3>1 DEF Settled
  <2>2. CASE NewDoms(doms, b) # doms[b]
    <3>1. changed' = TRUE
      BY <1>5, <2>2, Zenon DEF ChangedBy
    <3> QED
      BY <1>5, <3>1 DEF Settled
  <2>3. CASE changed = FALSE /\ NewDoms(doms, b) = doms[b]
    <3>1. doms' = doms
      BY <1>2, <2>3
    <3>2. \A c \in Others \ todo : doms[c] = NewDoms(doms, c)
      BY <2>3 DEF Inv, Settled, Visit
    <3> QED
      BY <1>1, <1>4, <1>5, <2>3, <3>1, <3>2 DEF Settled, NewDoms
  <2> QED
    BY <1>5, <2>1, <2>2, <2>3
<1>12. AboveAllSupported'
  <2>1. ASSUME NEW sets \in [Block -> SUBSET graph.blocks], Supported(sets), NEW c \in Block
        PROVE  sets[c] \subseteq doms'[c]
    <3>1. \A p \in Block : sets[p] \subseteq doms[p]
      BY <2>1 DEF Inv, AboveAllSupported
    <3>2. sets[b] \subseteq NewDoms(sets, b)
      BY <1>1, <2>1 DEF Supported
    <3>3. NewDoms(sets, b) \subseteq NewDoms(doms, b)
      BY <1>1, <1>3, <3>1, NewDomsMonotone
    <3> QED
      BY <1>1, <3>1, <3>2, <3>3
  <2>2. \A sets : Supported(sets)' => Supported(sets)
    BY <1>1, <1>4, <1>8 DEF Supported
  <2> QED
    BY <1>1, <2>1, <2>2 DEF AboveAllSupported
<1>13. Parents'
  BY <1>4, <1>5 DEF Visit, Inv, Parents
<1> QED
  BY <1>6, <1>7, <1>10, <1>11, <1>12, <1>13 DEF Inv

\* The steps that leave the sets alone.
LEMMA SameDoms ==
  ASSUME Inv, TypeOK', Settled', Parents', graph' = graph, doms' = doms
  PROVE  Inv'
<1>1. Frame'
  BY DEF Inv, Frame
<1>2. Shrinking'
  BY DEF Inv, Shrinking, Others, NewDoms
<1>3. AboveAllSupported'
  BY DEF Inv, AboveAllSupported, Supported, Others, NewDoms
<1> QED
  BY <1>1, <1>2, <1>3 DEF Inv

LEMMA SweepAgainInv == Inv /\ SweepAgain => Inv'
<1> SUFFICES ASSUME Inv, SweepAgain PROVE Inv'
  OBVIOUS
<1>1. TypeOK'
  BY DEF Inv, TypeOK, SweepAgain, Others
<1>2. Settled'
  BY DEF Inv, Settled, SweepAgain, Others
<1>3. Parents'
  BY DEF Inv, Parents, SweepAgain
<1> QED
  BY <1>1, <1>2, <1>3, SameDoms DEF SweepAgain

LEMMA ConvergeInv == Inv /\ Converge => Inv'
<1> SUFFICES ASSUME Inv, Converge PROVE Inv'
  OBVIOUS
<1>1. TypeOK'
  BY DEF Inv, TypeOK, Converge, Others
<1>2. changed = FALSE /\ phase = "sweep" /\ todo = {}
  BY Zenon DEF Inv, TypeOK, Converge
<1>3. Settled'
  BY <1>2 DEF Inv, Settled, Converge, Others, NewDoms
<1>4. Parents'
  BY <1>2 DEF Inv, Parents, Converge, Others
<1> QED
  BY <1>1, <1>3, <1>4, SameDoms DEF Converge

LEMMA SetIDomInv ==
  ASSUME Inv, NEW b \in Block, SetIDom(b)
  PROVE  Inv'
<1>1. doms[b] \subseteq graph.blocks /\ todo' = todo \ {b} /\ phase = "idoms"
  BY DEF Inv, TypeOK, SetIDom
<1>2. idom' \in [Block -> graph.blocks \cup {NoBlock}]
  <2>1. CASE idom' = idom
    BY <2>1 DEF Inv, TypeOK
  <2>2. ASSUME NEW d \in IDomCandidates(b), idom' = [idom EXCEPT ![b] = d]
        PROVE  idom' \in [Block -> graph.blocks \cup {NoBlock}]
    BY <1>1, <2>2 DEF Inv, TypeOK, IDomCandidates
  <2> QED
    BY <2>1, <2>2 DEF SetIDom
<1>3. TypeOK'
  BY <1>1, <1>2 DEF Inv, TypeOK, SetIDom
<1>4. Settled'
  BY <1>1 DEF Inv, Settled, SetIDom, Others, NewDoms
<1>5. Parents'
  <2>1. b \in todo /\ b \in Others /\ phase' = "idoms" /\ doms' = doms /\ Others' = Others
    BY DEF Inv, TypeOK, SetIDom, IsNext, Others
  <2>2. \A c : IDomCandidates(c)' = IDomCandidates(c)
    BY <2>1 DEF IDomCandidates
  <2>3. \A c \in Block \ {b} : idom'[c] = idom[c]
    BY DEF Inv, TypeOK, SetIDom
  <2>4. IF IDomCandidates(b) = {} THEN idom'[b] = NoBlock ELSE idom'[b] \in IDomCandidates(b)
    BY <2>1 DEF Inv, TypeOK, Parents, SetIDom
  <2>5. \A c \in Others' \ todo' : c = b \/ (c \in Others \ todo /\ c \in Block \ {b})
    <3>1. Others \subseteq Block
      BY DEF Inv, TypeOK, Others, Graph
    <3> QED
      BY <1>1, <2>1, <3>1
  <2> QED
    BY <1>1, <2>1, <2>2, <2>3, <2>4, <2>5 DEF Inv, Parents
<1> QED
  BY <1>3, <1>4, <1>5, SameDoms DEF SetIDom

LEMMA FinishInv == Inv /\ Finish => Inv'
<1> SUFFICES ASSUME Inv, Finish PROVE Inv'
  OBVIOUS
<1>1. TypeOK'
  BY DEF Inv, TypeOK, Finish
<1>2. Settled'
  BY DEF Inv, Settled, Finish, Others, NewDoms
<1>3. Parents'
  BY DEF Inv, Parents, Finish, Others, IDomCandidates
<1> QED
  BY <1>1, <1>2, <1>3, SameDoms DEF Finish

\* The invariant is inductive.
LEMMA StepInv == Inv /\ [Next]_vars => Inv'
<1> SUFFICES ASSUME Inv, [Next]_vars PROVE Inv'
  OBVIOUS
<1>1. ASSUME NEW b \in Block, Visit(b) \/ SetIDom(b) PROVE Inv'
  BY <1>1, VisitInv, SetIDomInv
<1>2. CASE SweepAgain
  BY <1>2, SweepAgainInv
<1>3. CASE Converge
  BY <1>3, ConvergeInv
<1>4. CASE Finish
  BY <1>4, FinishInv
<1>5. CASE UNCHANGED vars
  <2>1. TypeOK' /\ Settled'
    BY <1>5 DEF vars, Inv, TypeOK, Settled, Others, NewDoms
  <2>2. Parents'
    BY <1>5 DEF vars, Inv, Parents, Others, IDomCandidates
  <2> QED
    BY <1>5, <2>1, <2>2, SameDoms DEF vars
<1> QED
  BY <1>1, <1>2, <1>3, <1>4, <1>5 DEF Next

\* The sweeps never remove a dominator that belongs to a solution, and the last one
\* leaves a solution from which parents are taken, for any graph and any order of blocks.
THEOREM DominatorInvariant == Spec => []Inv
<1>1. Init => Inv
  BY InitInv
<1>2. Inv /\ [Next]_vars => Inv'
  BY StepInv
<1> QED
  BY <1>1, <1>2, PTL DEF Spec

-----------------------------------------------------------------------------
(* The properties.                                                         *)

\* The state stays well typed: no set holds a block outside of the function.
THEOREM DominatorTypeCorrect == Spec => []TypeOK
<1>1. Inv => TypeOK
  BY DEF Inv
<1> QED
  BY <1>1, DominatorInvariant, PTL

\* What the invariant says after the last sweep.
LEMMA SweptIsSolution == Inv => StopsAtSolution
<1> SUFFICES ASSUME Inv, phase # "sweep" PROVE IsSolution(doms)
  BY DEF StopsAtSolution
<1>1. ASSUME NEW b \in graph.blocks \ {Entry}
      PROVE  doms[b] = {b} \cup {d \in graph.blocks :
               graph.preds[b] # {} /\ \A p \in graph.preds[b] : d \in doms[p]}
  <2>1. b \in Others /\ doms[b] = NewDoms(doms, b)
    BY DEF Inv, Settled, Others
  <2>2. doms[b] \subseteq graph.blocks /\ graph.blocks \subseteq Block
    BY DEF Inv, TypeOK, Graph
  <2> QED
    BY <2>1, <2>2 DEF NewDoms
<1> QED
  BY <1>1 DEF Inv, Frame, IsSolution

\* The sweeps stop only at a solution of the dominator equations.
THEOREM SweepsStopAtSolution == Spec => []StopsAtSolution
  BY SweptIsSolution, DominatorInvariant, PTL

LEMMA ResultIsGreatest == Inv => GreatestSolution
<1>1. Inv => AboveSolutions
  <2> SUFFICES ASSUME Inv, NEW others \in [graph.blocks \ {Entry} -> SUBSET graph.blocks]
               PROVE  LET sets == [b \in Block |-> IF b = Entry THEN {Entry}
                                     ELSE IF b \in graph.blocks THEN others[b] ELSE {}]
                      IN IsSolution(sets) => \A b \in Block : sets[b] \subseteq doms[b]
    BY DEF AboveSolutions
  <2> DEFINE sets == [b \in Block |-> IF b = Entry THEN {Entry}
                        ELSE IF b \in graph.blocks THEN others[b] ELSE {}]
  <2>1. Entry \in graph.blocks
    BY DEF Inv, Frame
  <2>2. ASSUME NEW b \in Block
        PROVE  (IF b = Entry THEN {Entry} ELSE IF b \in graph.blocks THEN others[b] ELSE {})
                 \subseteq graph.blocks
    BY <2>1
  <2>3. sets \in [Block -> SUBSET graph.blocks]
    BY <2>2
  <2>4. ASSUME IsSolution(sets) PROVE Supported(sets)
    <3> HIDE DEF sets
    <3>1. graph \in Graph
      BY DEF Inv, TypeOK
    <3>2. \A b \in Others : sets[b] = NewDoms(sets, b)
      BY <2>3, <2>4, <3>1, SolutionBelow
    <3> QED
      BY <2>4, <3>2 DEF Supported, IsSolution
  <2> QED
    BY <2>3, <2>4 DEF Inv, AboveAllSupported
<1> QED
  BY <1>1, SweptIsSolution DEF GreatestSolution, Returning, StopsAtSolution

\* The result is a solution, and no solution is above it.
THEOREM SolutionIsGreatest == Spec => []GreatestSolution
  BY ResultIsGreatest, DominatorInvariant, PTL

\* No step of run adds a dominator.
THEOREM DomsOnlyShrink == Spec => OnlyShrinks
<1>1. Inv /\ [Next]_vars => \A b \in Block : doms'[b] \subseteq doms[b]
  <2> SUFFICES ASSUME Inv, [Next]_vars PROVE \A b \in Block : doms'[b] \subseteq doms[b]
    OBVIOUS
  <2>1. ASSUME NEW b \in Block, Visit(b) PROVE \A c \in Block : doms'[c] \subseteq doms[c]
    BY <2>1, VisitShrinks
  <2>2. CASE ~ \E b \in Block : Visit(b)
    BY <2>2 DEF Next, vars, SetIDom, SweepAgain, Converge, Finish
  <2> QED
    BY <2>1, <2>2
<1> QED
  BY <1>1, DominatorInvariant, PTL DEF Spec, OnlyShrinks

-----------------------------------------------------------------------------
(* The final sets are dominance.                                           *)

LEMMA FinalSets ==
  ASSUME Inv, phase # "sweep"
  PROVE  /\ graph \in Graph /\ graph.blocks \subseteq Block /\ Entry \in graph.blocks
         /\ doms \in [Block -> SUBSET graph.blocks]
         /\ doms[Entry] = {Entry} /\ \A b \in Block \ graph.blocks : doms[b] = {}
         /\ \A b \in Others : b \in Block /\ b # Entry /\ doms[b] = NewDoms(doms, b)
         /\ \A b \in graph.blocks : b \in doms[b]
<1>1. /\ graph \in Graph /\ graph.blocks \subseteq Block /\ Entry \in graph.blocks
      /\ doms \in [Block -> SUBSET graph.blocks]
      /\ doms[Entry] = {Entry} /\ \A b \in Block \ graph.blocks : doms[b] = {}
  BY DEF Inv, TypeOK, Frame, Graph
<1>2. \A b \in Others : b \in Block /\ b # Entry /\ doms[b] = NewDoms(doms, b)
  BY <1>1 DEF Inv, Settled, Others
<1>3. \A b \in graph.blocks : b \in doms[b]
  BY <1>1, <1>2 DEF Others, NewDoms
<1> QED
  BY <1>1, <1>2, <1>3

\* Whatever the graph: the dominators of a dominator of a block are its own.
LEMMA SetsTransitive ==
  ASSUME Inv, phase # "sweep", NEW b \in Block, NEW e \in doms[b], NEW d \in doms[e]
  PROVE  d \in doms[b]
<1> DEFINE sets == [c \in Block |-> {x \in graph.blocks : \E y \in doms[c] : x \in doms[y]}]
<1>1. /\ graph.blocks \subseteq Block /\ Entry \in graph.blocks
      /\ doms \in [Block -> SUBSET graph.blocks]
      /\ doms[Entry] = {Entry} /\ \A c \in Block \ graph.blocks : doms[c] = {}
      /\ \A c \in Others : c \in Block /\ c # Entry /\ doms[c] = NewDoms(doms, c)
      /\ \A c \in graph.blocks : c \in doms[c]
  BY FinalSets
<1>2. sets[Entry] \subseteq {Entry} /\ \A c \in Block \ graph.blocks : sets[c] = {}
  BY <1>1, EntryInBlock
<1>3. ASSUME NEW c \in Others, NEW x \in sets[c] PROVE x \in NewDoms(sets, c)
  <2>1. PICK y \in doms[c] : x \in doms[y]
    BY <1>1, <1>3
  <2>2. c \in Block /\ c \in graph.blocks /\ x \in graph.blocks /\ x \in Block /\ graph.preds[c] \subseteq Block
    BY <1>1, <1>3 DEF Others, Inv, TypeOK, Graph
  <2>3. x = c \/ (graph.preds[c] # {} /\ \A p \in graph.preds[c] : x \in sets[p])
    <3>1. CASE y = c
      <4>1. x \in NewDoms(doms, c)
        BY <1>1, <2>1, <3>1
      <4>2. x = c \/ (graph.preds[c] # {} /\ \A p \in graph.preds[c] : x \in doms[p])
        BY <4>1 DEF NewDoms
      <4>3. \A p \in Block : x \in doms[p] => x \in sets[p]
        BY <1>1, <2>2
      <4> HIDE DEF sets
      <4> QED
        BY <2>2, <4>2, <4>3
    <3>2. CASE y # c
      <4>1. y \in NewDoms(doms, c)
        BY <1>1, <2>1
      <4>2. graph.preds[c] # {} /\ \A p \in graph.preds[c] : y \in doms[p]
        BY <3>2, <4>1 DEF NewDoms
      <4>3. \A p \in graph.preds[c] : x \in sets[p]
        BY <2>1, <2>2, <4>2
      <4> QED
        BY <4>2, <4>3
    <3> QED
      BY <3>1, <3>2
  <2> HIDE DEF sets
  <2> QED
    BY <2>2, <2>3 DEF NewDoms
<1>4. sets \in [Block -> SUBSET graph.blocks]
  OBVIOUS
<1>5. d \in sets[b]
  BY <1>1
<1> HIDE DEF sets
<1>6. Supported(sets)
  BY <1>2, <1>3 DEF Supported
<1> QED
  BY <1>4, <1>5, <1>6 DEF Inv, AboveAllSupported

\* Where every block is reached from the entry or from a block without predecessors,
\* two blocks do not dominate each other.
LEMMA SetsAntisymmetric ==
  ASSUME Inv, phase # "sweep", Rooted(graph), NEW d \in Block, NEW e \in Block,
         d \in doms[e], e \in doms[d]
  PROVE  d = e
<1> SUFFICES ASSUME d # e PROVE FALSE
  OBVIOUS
<1> DEFINE roots == {b \in graph.blocks : graph.preds[b] = {} \/ ~(graph.preds[b] \subseteq graph.blocks)}
           start == {Entry} \cup roots
           after == [b \in Block |-> {c \in graph.blocks : b \in graph.preds[c]}]
           S == {b \in Block : d \notin doms[b]}
<1>1. /\ graph \in Graph /\ graph.blocks \subseteq Block /\ Entry \in graph.blocks
      /\ doms \in [Block -> SUBSET graph.blocks]
      /\ doms[Entry] = {Entry} /\ \A c \in Block \ graph.blocks : doms[c] = {}
      /\ \A c \in Others : c \in Block /\ c # Entry /\ doms[c] = NewDoms(doms, c)
      /\ \A c \in graph.blocks : c \in doms[c]
  BY FinalSets
<1>2. \A b \in Block : d \in doms[b] <=> e \in doms[b]
  BY SetsTransitive
<1>3. ASSUME NEW b \in graph.blocks, d \in doms[b]
      PROVE  /\ b \in Others
             /\ \E x \in {d, e} : /\ graph.preds[b] # {}
                                  /\ \A p \in graph.preds[b] : p \in Block /\ x \in doms[p]
  <2>1. e \in doms[b] /\ b \in Block
    BY <1>1, <1>2, <1>3
  <2>2. b \in Others
    BY <1>1, <1>3, <2>1 DEF Others
  <2>3. d \in NewDoms(doms, b) /\ e \in NewDoms(doms, b)
    BY <1>1, <1>3, <2>1, <2>2
  <2>4. graph.preds[b] \subseteq Block
    BY <1>1, <2>1 DEF Graph
  <2> QED
    BY <2>2, <2>3, <2>4 DEF NewDoms
<1>4. start \subseteq S
  <2>1. Entry \in S
    BY <1>1, <1>3, EntryInBlock DEF Others
  <2>2. ASSUME NEW b \in roots, d \in doms[b] PROVE FALSE
    <3>1. PICK x \in {d, e} : graph.preds[b] # {} /\ \A p \in graph.preds[b] : p \in Block /\ x \in doms[p]
      BY <1>3, <2>2
    <3>2. \A p \in graph.preds[b] : p \in graph.blocks
      BY <1>1, <3>1
    <3> QED
      BY <3>1, <3>2
  <2> QED
    BY <1>1, <2>1, <2>2
<1>5. ClosedUnder(after, Block, S)
  <2>1. ASSUME NEW b \in S, NEW c \in after[b] PROVE c \in S
    <3>1. c \in graph.blocks /\ c \in Block /\ b \in graph.preds[c] /\ d \notin doms[b] /\ e \notin doms[b]
      BY <1>1, <1>2
    <3> QED
      BY <1>3, <3>1
  <2> HIDE DEF S, after
  <2> QED
    BY <2>1 DEF ClosedUnder
<1>6. graph.blocks \subseteq S
  <2>1. IsFiniteSet(Block) /\ NumBlocks \in Nat /\ Cardinality(Block) <= NumBlocks
    BY BlocksFinite, NumBlocksAssumption
  <2>2. start \in SUBSET Block /\ after \in [Block -> SUBSET Block]
    BY <1>1
  <2>3. graph.blocks \subseteq ReachedFrom(start, after, NumBlocks)
    BY DEF Rooted
  <2> HIDE DEF S, start, after
  <2>4. ReachedFrom(start, after, NumBlocks) \subseteq S
    BY <1>4, <1>5, <2>1, <2>2, ReachedIsLeast
  <2> QED
    BY <2>3, <2>4
<1> QED
  BY <1>1, <1>6

\* A block none of the reached ones leads to is the entry or not reached.
LEMMA HasPredecessor ==
  ASSUME NEW g, g.succs \in [Block -> SUBSET Block], NEW b \in ReachableBlocks(g) \ {Entry}
  PROVE  \E p \in ReachableBlocks(g) : b \in g.succs[p]
<1> SUFFICES ASSUME \A p \in ReachableBlocks(g) : b \notin g.succs[p] PROVE FALSE
  OBVIOUS
<1> DEFINE S == ReachableBlocks(g) \ {b}
<1>1. S \in SUBSET Block /\ Entry \in S /\ \A c \in S : g.succs[c] \subseteq S
  BY ReachableLeadOn
<1> HIDE DEF S
<1>2. ReachableBlocks(g) \subseteq S
  BY <1>1, ReachedContained
<1> QED
  BY <1>2 DEF S

\* In a connected function the final sets are those of the dominators.
LEMMA SetsAreDominance ==
  ASSUME Inv, phase # "sweep", Connected(graph), NEW a, NEW b \in graph.blocks
  PROVE  a \in doms[b] <=> a \in graph.blocks /\ Dominates(graph, a, b)
<1>1. /\ graph \in Graph /\ graph.blocks \subseteq Block /\ Entry \in graph.blocks
      /\ doms \in [Block -> SUBSET graph.blocks]
      /\ doms[Entry] = {Entry} /\ \A c \in Block \ graph.blocks : doms[c] = {}
      /\ \A c \in Others : c \in Block /\ c # Entry /\ doms[c] = NewDoms(doms, c)
  BY FinalSets
<1>2. graph.succs \in [Block -> SUBSET Block]
  BY <1>1 DEF Graph
<1>3. /\ ReachableBlocks(graph) = graph.blocks
      /\ \A c \in graph.blocks : graph.preds[c] = {p \in graph.blocks : c \in graph.succs[p]}
  BY DEF Connected, EdgesAtBothEnds
<1>4. \A c \in graph.blocks : graph.succs[c] \subseteq graph.blocks
  BY <1>2, <1>3, ReachableLeadOn
<1>5. ASSUME a \in doms[b] PROVE Dominates(graph, a, b)
  <2> DEFINE S == {c \in graph.blocks : a \notin doms[c]}
  <2>1. Entry \in S \cup {a}
    BY <1>1
  <2>2. ASSUME NEW c \in S, NEW e \in graph.succs[c], e # a PROVE e \in S
    <3>1. e \in graph.blocks /\ c \in graph.preds[e] /\ a \notin doms[c]
      BY <1>3, <1>4
    <3> SUFFICES ASSUME a \in doms[e] PROVE FALSE
      BY <3>1
    <3>2. e # Entry
      BY <1>1, <2>2
    <3>3. a \in NewDoms(doms, e)
      BY <1>1, <3>1, <3>2 DEF Others
    <3> QED
      BY <2>2, <3>1, <3>3 DEF NewDoms
  <2>3. S \in SUBSET Block /\ b \notin S
    BY <1>1, <1>5
  <2>4. Escapes(graph, a, S)
    <3> HIDE DEF S
    <3> QED
      BY <2>1, <2>2 DEF Escapes
  <2> HIDE DEF S
  <2> QED
    BY <1>2, <2>3, <2>4, EscapesContains
<1>6. ASSUME a \in graph.blocks, Dominates(graph, a, b) PROVE a \in doms[b]
  <2> DEFINE sets == [c \in Block |-> IF c \in graph.blocks THEN {d \in graph.blocks : Dominates(graph, d, c)} ELSE {}]
  <2>1. sets \in [Block -> SUBSET graph.blocks]
    OBVIOUS
  <2>2. sets[Entry] \subseteq {Entry} /\ \A c \in Block \ graph.blocks : sets[c] = {}
    BY <1>1, <1>2, EntryInBlock, OnlyEntryDominatesEntry
  <2>3. ASSUME NEW c \in Others, NEW d \in sets[c] PROVE d \in NewDoms(sets, c)
    <3>1. c \in graph.blocks /\ c \in Block /\ c # Entry /\ d \in graph.blocks /\ d \in Block /\ Dominates(graph, d, c)
      BY <1>1, <2>3 DEF Others
    <3>2. graph.preds[c] # {}
      BY <1>2, <1>3, <3>1, HasPredecessor
    <3>3. ASSUME NEW p \in graph.preds[c], d # c PROVE d \in sets[p]
      <4>1. p \in graph.blocks /\ p \in Block /\ c \in graph.succs[p]
        BY <1>1, <1>3, <3>1
      <4>2. Dominates(graph, d, p)
        BY <1>2, <3>1, <3>3, <4>1, DominatesPredecessor
      <4> QED
        BY <3>1, <4>1, <4>2
    <3> HIDE DEF sets
    <3> QED
      BY <3>1, <3>2, <3>3 DEF NewDoms
  <2>4. a \in sets[b]
    BY <1>1, <1>6
  <2> HIDE DEF sets
  <2>5. Supported(sets)
    BY <2>2, <2>3 DEF Supported
  <2> QED
    BY <1>1, <2>1, <2>4, <2>5 DEF Inv, AboveAllSupported
<1> QED
  BY <1>1, <1>5, <1>6

-----------------------------------------------------------------------------
(* The tree.                                                               *)

\* The blocks on the walk up are the least set that has the block and the parents
\* of its blocks.
LEMMA AncestorsLeast ==
  ASSUME Inv, NEW b \in Block
  PROVE  /\ Ancestors(b) \in SUBSET Block /\ b \in Ancestors(b)
         /\ \A c \in Ancestors(b) : idom[c] # NoBlock => idom[c] \in Ancestors(b)
         /\ \A S \in SUBSET Block :
              b \in S /\ (\A c \in S : idom[c] # NoBlock => idom[c] \in S) => Ancestors(b) \subseteq S
<1> DEFINE next == [c \in Block |-> {idom[c]} \ {NoBlock}]
<1>1. IsFiniteSet(Block) /\ NumBlocks \in Nat /\ Cardinality(Block) <= NumBlocks
  BY BlocksFinite, NumBlocksAssumption
<1>2. next \in [Block -> SUBSET Block] /\ {b} \in SUBSET Block
  BY DEF Inv, TypeOK, Graph
<1>3. \A S \in SUBSET Block :
        ClosedUnder(next, Block, S) <=> \A c \in S : idom[c] # NoBlock => idom[c] \in S
  BY DEF ClosedUnder
<1>4. Ancestors(b) = ReachedFrom({b}, next, NumBlocks)
  BY DEF Ancestors
<1> HIDE DEF next
<1>5. /\ Ancestors(b) \in SUBSET Block /\ {b} \subseteq Ancestors(b)
      /\ ClosedUnder(next, Block, Ancestors(b))
      /\ \A S : {b} \subseteq S /\ ClosedUnder(next, Block, S) => Ancestors(b) \subseteq S
  BY <1>1, <1>2, <1>4, ReachedIsLeast
<1> QED
  BY <1>3, <1>5

\* A parent is one of the dominators.
LEMMA ParentsDominate ==
  ASSUME Inv, phase # "sweep", NEW c \in Block, idom[c] # NoBlock
  PROVE  /\ c \in Others \ todo /\ idom[c] \in IDomCandidates(c)
         /\ idom[c] \in doms[c] \ {c} /\ idom[c] \in Block
<1>1. c \in Others \ todo
  BY DEF Inv, Parents
<1>2. idom[c] \in IDomCandidates(c)
  BY <1>1 DEF Inv, Parents
<1> QED
  BY <1>1, <1>2, FinalSets DEF IDomCandidates

LEMMA AncestorsDominate ==
  ASSUME Inv, phase # "sweep", NEW b \in graph.blocks
  PROVE  Ancestors(b) \subseteq doms[b]
<1>1. b \in Block /\ b \in doms[b] /\ doms[b] \subseteq graph.blocks /\ graph.blocks \subseteq Block
  BY FinalSets
<1>2. ASSUME NEW c \in doms[b], idom[c] # NoBlock PROVE idom[c] \in doms[b]
  BY <1>1, <1>2, ParentsDominate, SetsTransitive
<1> QED
  BY <1>1, <1>2, AncestorsLeast

\* The walk up the parents never comes back to where it was.
LEMMA WalksEnd ==
  ASSUME Inv, phase # "sweep", Rooted(graph), NEW b \in graph.blocks, idom[b] # NoBlock
  PROVE  b \notin Ancestors(idom[b])
<1>1. b \in Block /\ idom[b] \in doms[b] \ {b} /\ idom[b] \in Block /\ idom[b] \in graph.blocks
  BY FinalSets, ParentsDominate
<1>2. Ancestors(idom[b]) \subseteq doms[idom[b]]
  BY <1>1, AncestorsDominate
<1>3. b \notin doms[idom[b]]
  BY <1>1, SetsAntisymmetric
<1> QED
  BY <1>2, <1>3

\* Every block but the entry has a strict dominator that all others dominate.
LEMMA CandidateExists ==
  ASSUME Inv, phase # "sweep", Connected(graph), NEW b \in Others
  PROVE  IDomCandidates(b) # {}
<1>1. /\ graph \in Graph /\ graph.blocks \subseteq Block /\ Entry \in graph.blocks
      /\ doms \in [Block -> SUBSET graph.blocks]
      /\ b \in Block /\ b # Entry /\ b \in graph.blocks
  BY FinalSets DEF Others
<1>2. graph.succs \in [Block -> SUBSET Block] /\ ReachableBlocks(graph) = graph.blocks
  BY <1>1 DEF Graph, Connected
<1> DEFINE strict == doms[b] \ {b}
<1>3. strict # {} /\ \A d \in strict : d \in graph.blocks /\ Dominates(graph, d, b)
  BY <1>1, <1>2, EntryDominates, SetsAreDominance
<1>4. PICK d \in strict : \A e \in strict : Dominates(graph, e, d)
  <2> HIDE DEF strict
  <2> QED
    BY <1>1, <1>2, <1>3, LowestDominator
<1>5. \A e \in strict : e \in doms[d]
  BY <1>3, <1>4, SetsAreDominance
<1> QED
  BY <1>5 DEF IDomCandidates

\* In a connected function the walk up from a block meets all of its dominators:
\* the last block of it that a dominator dominates has a parent the dominator
\* dominates, unless it is the dominator.
LEMMA DominatorsAreAncestors ==
  ASSUME Inv, phase # "sweep", todo = {}, Connected(graph), NEW b \in graph.blocks, NEW a \in doms[b]
  PROVE  a \in Ancestors(b)
<1> SUFFICES ASSUME a \notin Ancestors(b) PROVE FALSE
  OBVIOUS
<1>1. /\ graph \in Graph /\ graph.blocks \subseteq Block
      /\ doms \in [Block -> SUBSET graph.blocks]
      /\ doms[Entry] = {Entry} /\ \A c \in graph.blocks : c \in doms[c]
  BY FinalSets
<1>2. graph.succs \in [Block -> SUBSET Block] /\ ReachableBlocks(graph) = graph.blocks
  BY <1>1 DEF Graph, Connected
<1>3. /\ Ancestors(b) \in SUBSET Block /\ b \in Ancestors(b) /\ Ancestors(b) \subseteq graph.blocks
      /\ \A c \in Ancestors(b) : idom[c] # NoBlock => idom[c] \in Ancestors(b)
  BY <1>1, AncestorsLeast, AncestorsDominate
<1> DEFINE below == {c \in Ancestors(b) : a \in doms[c]}
<1>4. below # {} /\ \A c \in below : Dominates(graph, c, b)
  BY <1>1, <1>3, AncestorsDominate, SetsAreDominance
<1> DEFINE sizes == {Cardinality(DominatorsOf(graph, c)) : c \in below}
<1>5. sizes \subseteq Nat /\ sizes # {}
  BY <1>4, DominatorsFinite
<1>6. PICK m \in sizes : \A k \in sizes : m <= k
  <2> HIDE DEF sizes
  <2> QED
    BY <1>5, LeastNumber
<1>7. PICK c \in below : m = Cardinality(DominatorsOf(graph, c))
  OBVIOUS
<1>8. c \in graph.blocks /\ c \in Ancestors(b) /\ a \in doms[c] /\ a # c
  BY <1>3
<1>9. c \in Others
  BY <1>1, <1>8 DEF Others
<1>10. idom[c] \in IDomCandidates(c) /\ idom[c] \in doms[c] \ {c}
  BY <1>9, CandidateExists DEF Inv, Parents, IDomCandidates
<1>11. idom[c] \in below
  <2>1. idom[c] # NoBlock
    BY <1>1, <1>8, <1>10 DEF NoBlock, Block
  <2>2. a \in doms[idom[c]]
    <3>1. idom[c] \in Ancestors(b)
      BY <1>3, <1>8, <2>1
    <3> QED
      BY <1>3, <1>8, <1>10, <3>1 DEF IDomCandidates
  <2> QED
    BY <1>3, <1>8, <2>1, <2>2
<1>12. Cardinality(DominatorsOf(graph, idom[c])) < Cardinality(DominatorsOf(graph, c))
  BY <1>2, <1>8, <1>10, SetsAreDominance, FewerDominators
<1>13. Cardinality(DominatorsOf(graph, idom[c])) \in sizes
  BY <1>11
<1>14. m <= Cardinality(DominatorsOf(graph, idom[c]))
  BY <1>6, <1>13
<1> QED
  BY <1>7, <1>12, <1>14, DominatorsFinite

\* What dominates answers in a connected function: exactly dominance.
LEMMA TreeIsDominance ==
  ASSUME Inv, phase # "sweep", todo = {}, Connected(graph), NEW a \in graph.blocks, NEW b \in graph.blocks
  PROVE  TreeDominates(a, b) <=> Dominates(graph, a, b)
<1>1. Ancestors(b) = doms[b]
  BY AncestorsDominate, DominatorsAreAncestors
<1>2. a \in doms[b] <=> Dominates(graph, a, b)
  BY SetsAreDominance
<1>3. b \in doms[b]
  BY FinalSets
<1> QED
  BY <1>1, <1>2, <1>3 DEF TreeDominates

LEMMA TreeIsExact == Inv => TreeExact
<1> SUFFICES ASSUME Inv, Returning PROVE TreeExact
  BY DEF TreeExact
<1>1. phase # "sweep" /\ todo = {}
  BY DEF Returning
<1>2. Connected(graph) =>
         \A a, b \in graph.blocks : TreeDominates(a, b) <=> Dominates(graph, a, b)
  BY <1>1, TreeIsDominance
<1>3. Rooted(graph) =>
         \A b \in graph.blocks : idom[b] # NoBlock => b \notin Ancestors(idom[b])
  BY <1>1, WalksEnd
<1> QED
  BY <1>2, <1>3 DEF TreeExact

\* When run returns, dominates answers for a connected function whether every path
\* from the entry to b passes through a, whichever candidate was taken for parent;
\* and its walk up the tree ends in every function without a cycle that nothing
\* leads to.
THEOREM TreeAnswersDominance == Spec => []TreeExact
  BY TreeIsExact, DominatorInvariant, PTL

-----------------------------------------------------------------------------
(* The search for the loops.                                               *)

\* The calls still to be made for the loop of h.
Pending(h) == IF loopPhase = "populate" /\ h = header THEN toAdd ELSE {}

LoopFrame ==
  /\ loopPhase \in {"tree", "headers", "populate", "found"}
  /\ header \in Block \cup {NoBlock}
  /\ toAdd \subseteq Block
  /\ loopBlocks \in [Block -> SUBSET Block]
  /\ latches \in [Block -> SUBSET Block]
  /\ preheader \in [Block -> Block \cup {NoBlock}]
  /\ loopPhase # "tree" => phase = "done"
  /\ loopPhase # "populate" => toAdd = {}
  /\ loopPhase = "populate" => header \in Block /\ loopBlocks[header] # {}

\* What a loop still lacks is pending.
Closing ==
  \A h \in Block :
    /\ loopBlocks[h] # {} => h \in loopBlocks[h] /\ h \in graph.blocks
    /\ latches[h] \subseteq graph.blocks
    /\ latches[h] \subseteq loopBlocks[h] \cup Pending(h)
    /\ \A b \in loopBlocks[h] \ {h} : graph.preds[b] \subseteq loopBlocks[h] \cup Pending(h)

\* Nothing is in a loop, or will be, that does not have to be.
Needed ==
  \A h \in Block : \A S \in SUBSET Block :
    ClosedBackwards(S, h) => loopBlocks[h] \cup Pending(h) \subseteq S

\* The loop of h is there, and no call for it is pending.
LoopFinished(h) == loopBlocks[h] # {} /\ ~(loopPhase = "populate" /\ h = header)

\* A preheader is given to a finished loop with one predecessor outside, to each.
Preheaders ==
  \A h \in Block :
    /\ preheader[h] # NoBlock =>
         LoopFinished(h) /\ graph.preds[h] \ loopBlocks[h] = {preheader[h]}
    /\ LoopFinished(h) =>
         \A p \in Block : graph.preds[h] \ loopBlocks[h] = {p} => preheader[h] = p

\* The loops are those of the headers, with the back edges to them as latches; no
\* header is left out.
Identified ==
  /\ loopPhase = "tree" => \A h \in Block : loopBlocks[h] = {}
  /\ \A h \in Block : loopBlocks[h] # {} => h \in Headers /\ latches[h] = BackEdges(h)
  /\ loopPhase = "found" => \A h \in Headers : loopBlocks[h] # {}

Growing == LoopFrame /\ Closing /\ Needed /\ Preheaders

LoopInv == Growing /\ Identified

LEMMA LoopsNotFoundInv == LoopsNotFound => LoopInv
<1> SUFFICES ASSUME LoopsNotFound PROVE LoopInv
  OBVIOUS
<1>1. LoopFrame
  BY DEF LoopsNotFound, LoopFrame
<1>2. \A h \in Block : loopBlocks[h] = {} /\ latches[h] = {} /\ Pending(h) = {}
                       /\ preheader[h] = NoBlock
  BY DEF LoopsNotFound, Pending
<1>3. Closing /\ Needed /\ Preheaders /\ Identified
  BY <1>2 DEF Closing, Needed, Preheaders, LoopFinished, Identified, LoopsNotFound
<1> QED
  BY <1>1, <1>3 DEF LoopInv, Growing

\* The function and the tree do not change once the loops are looked for.
LEMMA SameGraph == Next => UNCHANGED graph
  BY DEF Next, Visit, SetIDom, SweepAgain, Converge, Finish

\* What is said of headers and latches survives a step that keeps the tree and the
\* loops there are.
LEMMA SameHeaders ==
  ASSUME UNCHANGED <<graph, idom>>
  PROVE  Headers' = Headers /\ \A h : BackEdges(h)' = BackEdges(h)
<1>1. \A a, b : TreeDominates(a, b)' = TreeDominates(a, b)
  BY DEF TreeDominates, Ancestors
<1> QED
  BY <1>1 DEF Headers, BackEdges

LEMMA IdentifiedStep ==
  ASSUME LoopInv, LoopNext
  PROVE  Identified'
<1>1. CASE BuildTree
  <2>1. loopPhase = "tree"
    <3>1. phase # "done"
      BY <1>1 DEF BuildTree, Next, Visit, SetIDom, SweepAgain, Converge, Finish
    <3> QED
      BY <3>1 DEF LoopInv, Growing, LoopFrame
  <2> QED
    BY <1>1, <2>1 DEF BuildTree, loopVars, LoopInv, Identified
<1>2. CASE ~BuildTree
  <2>1. UNCHANGED <<graph, idom>>
    BY <1>2 DEF LoopNext, StartLoops, CreateLoop, PopulateLoop, FinishLoop, FinishLoops, vars
  <2>2. Headers' = Headers /\ \A h : BackEdges(h)' = BackEdges(h)
    BY <2>1, SameHeaders
  <2>3. CASE StartLoops
    BY <2>2, <2>3 DEF StartLoops, LoopInv, Identified
  <2>4. ASSUME NEW h \in Block, CreateLoop(h) PROVE Identified'
    <3>1. /\ loopPhase' = "populate" /\ h \in Headers
          /\ \A g \in Block : /\ loopBlocks'[g] = IF g = h THEN InitialBody(h) ELSE loopBlocks[g]
                             /\ latches'[g] = IF g = h THEN BackEdges(h) ELSE latches[g]
      BY <2>4 DEF CreateLoop, LoopInv, Growing, LoopFrame
    <3> QED
      BY <2>2, <3>1 DEF LoopInv, Identified
  <2>5. ASSUME NEW b \in Block, PopulateLoop(b) PROVE Identified'
    <3>1. /\ loopPhase' = "populate" /\ latches' = latches
          /\ header \in Block /\ loopBlocks[header] # {}
          /\ \A g \in Block : loopBlocks'[g] # {} => loopBlocks[g] # {}
      BY <2>5 DEF PopulateLoop, LoopInv, Growing, LoopFrame
    <3> QED
      BY <2>2, <3>1 DEF LoopInv, Identified
  <2>6. CASE FinishLoop
    BY <2>2, <2>6 DEF FinishLoop, LoopInv, Identified
  <2>7. CASE FinishLoops
    BY <2>2, <2>7 DEF FinishLoops, LoopInv, Identified
  <2> QED
    BY <1>2, <2>3, <2>4, <2>5, <2>6, <2>7 DEF LoopNext
<1> QED
  BY <1>1, <1>2

\* The steps of the dominator tree, and those that change nothing but the phase
\* of the search for loops.
LEMMA QuietGrowing ==
  ASSUME Growing, graph' = graph, UNCHANGED <<header, toAdd, loopBlocks, latches, preheader>>,
         loopPhase' \in {"tree", "headers", "found"} \cup {loopPhase},
         loopPhase = "populate" => loopPhase' = "populate",
         loopPhase' # "tree" => phase' = "done",
         loopPhase' = "populate" => loopPhase = "populate"
  PROVE  Growing'
<1>1. LoopFrame'
  BY DEF Growing, LoopFrame
<1>2. \A h \in Block : Pending(h)' = Pending(h)
  BY DEF Growing, LoopFrame, Pending
<1>3. Closing'
  BY <1>2 DEF Growing, Closing
<1>4. Needed'
  BY <1>2 DEF Growing, Needed, ClosedBackwards
<1>5. Preheaders'
  BY DEF Growing, Preheaders, LoopFinished
<1> QED
  BY <1>1, <1>3, <1>4, <1>5 DEF Growing

LEMMA CreateLoopGrowing ==
  ASSUME TypeOK, Growing, NEW h \in Block, CreateLoop(h)
  PROVE  Growing'
<1> USE DEF CreateLoop, InitialBody, FirstCalls
<1>1. BackEdges(h) \subseteq Block /\ BackEdges(h) \subseteq graph.blocks /\ h \in graph.blocks
  BY DEF TypeOK, Graph, BackEdges, Headers
<1>2. /\ graph' = graph /\ phase' = phase /\ preheader' = preheader /\ header' = h
      /\ toAdd' = BackEdges(h) /\ loopPhase = "headers" /\ loopPhase' = "populate"
      /\ loopBlocks[h] = {}
  BY DEF vars
<1>3. \A g \in Block : /\ loopBlocks'[g] = IF g = h THEN {h} ELSE loopBlocks[g]
                       /\ latches'[g] = IF g = h THEN BackEdges(h) ELSE latches[g]
                       /\ Pending(g)' = IF g = h THEN BackEdges(h) ELSE Pending(g)
  BY <1>2 DEF Growing, LoopFrame, Pending
<1>4. LoopFrame'
  <2>1. loopBlocks' \in [Block -> SUBSET Block] /\ latches' \in [Block -> SUBSET Block]
    BY <1>1 DEF Growing, LoopFrame
  <2> QED
    BY <1>1, <1>2, <1>3, <2>1 DEF Growing, LoopFrame
<1>5. Closing'
  BY <1>1, <1>2, <1>3 DEF Growing, Closing
<1>6. Needed'
  <2>1. ASSUME NEW g \in Block, NEW S \in SUBSET Block, ClosedBackwards(S, g)'
        PROVE  loopBlocks'[g] \cup Pending(g)' \subseteq S
    <3>1. CASE g = h
      BY <1>3, <2>1, <3>1 DEF ClosedBackwards
    <3>2. CASE g # h
      <4>1. ClosedBackwards(S, g)
        BY <1>2, <1>3, <2>1, <3>2 DEF ClosedBackwards
      <4> QED
        BY <1>3, <3>2, <4>1 DEF Growing, Needed
    <3> QED
      BY <3>1, <3>2
  <2> QED
    BY <2>1 DEF Needed
<1>7. Preheaders'
  BY <1>2, <1>3 DEF Growing, Preheaders, LoopFinished
<1> QED
  BY <1>4, <1>5, <1>6, <1>7 DEF Growing

LEMMA PopulateLoopGrowing ==
  ASSUME TypeOK, Growing, NEW b \in Block, PopulateLoop(b)
  PROVE  Growing'
<1> USE DEF PopulateLoop, StopAt
<1>1. /\ graph' = graph /\ phase' = phase /\ preheader' = preheader /\ header' = header
      /\ latches' = latches /\ loopPhase = "populate" /\ loopPhase' = "populate"
      /\ b \in toAdd /\ header \in Block /\ header \in loopBlocks[header]
  BY DEF vars, Growing, LoopFrame, Closing
<1>2. graph.preds[b] \subseteq Block
  BY DEF TypeOK, Graph
<1>3. CASE StopAt(b)
  <2>1. b \in loopBlocks[header] /\ toAdd' = toAdd \ {b} /\ loopBlocks' = loopBlocks
    BY <1>1, <1>3
  <2>2. \A h \in Block : Pending(h)' = Pending(h) \ (IF h = header THEN {b} ELSE {})
    BY <1>1, <2>1 DEF Pending
  <2>3. LoopFrame'
    BY <1>1, <2>1 DEF Growing, LoopFrame
  <2>4. Closing'
    BY <1>1, <2>1, <2>2 DEF Growing, Closing
  <2>5. Needed'
    BY <1>1, <2>1, <2>2 DEF Growing, Needed, ClosedBackwards
  <2>6. Preheaders'
    BY <1>1, <2>1 DEF Growing, Preheaders, LoopFinished
  <2> QED
    BY <2>3, <2>4, <2>5, <2>6 DEF Growing
<1>4. CASE ~StopAt(b)
  <2>1. /\ b # header /\ toAdd' = (toAdd \ {b}) \cup graph.preds[b]
        /\ loopBlocks' = [loopBlocks EXCEPT ![header] = loopBlocks[header] \cup {b}]
    BY <1>4
  <2>2. \A h \in Block :
          /\ loopBlocks'[h] = IF h = header THEN loopBlocks[h] \cup {b} ELSE loopBlocks[h]
          /\ Pending(h)' = IF h = header THEN (Pending(h) \ {b}) \cup graph.preds[b]
                           ELSE Pending(h)
          /\ h = header => b \in Pending(h)
    BY <1>1, <2>1 DEF Growing, LoopFrame, Pending
  <2>3. LoopFrame'
    <3>1. loopBlocks' \in [Block -> SUBSET Block]
      BY <1>1, <2>1 DEF Growing, LoopFrame
    <3> QED
      BY <1>1, <1>2, <2>1, <2>2, <3>1 DEF Growing, LoopFrame
  <2>4. Closing'
    <3>1. ASSUME NEW h \in Block
          PROVE  /\ loopBlocks'[h] # {} => h \in loopBlocks'[h] /\ h \in graph.blocks
                 /\ latches[h] \subseteq graph.blocks
                 /\ latches[h] \subseteq loopBlocks'[h] \cup Pending(h)'
                 /\ \A c \in loopBlocks'[h] \ {h} :
                      graph.preds[c] \subseteq loopBlocks'[h] \cup Pending(h)'
      <4>1. CASE h # header
        BY <2>2, <4>1 DEF Growing, Closing
      <4>2. CASE h = header
        <5>1. /\ loopBlocks'[h] = loopBlocks[h] \cup {b}
              /\ Pending(h)' = (Pending(h) \ {b}) \cup graph.preds[b]
          BY <2>2, <4>2
        <5>2. /\ loopBlocks[h] # {} => h \in loopBlocks[h] /\ h \in graph.blocks
              /\ latches[h] \subseteq graph.blocks
              /\ latches[h] \subseteq loopBlocks[h] \cup Pending(h)
              /\ \A c \in loopBlocks[h] \ {h} :
                   graph.preds[c] \subseteq loopBlocks[h] \cup Pending(h)
          BY DEF Growing, Closing
        <5>3. h \in loopBlocks[h]
          BY <1>1, <4>2
        <5> QED
          BY <5>1, <5>2, <5>3
      <4> QED
        BY <4>1, <4>2
    <3> QED
      BY <1>1, <3>1 DEF Closing
  <2>5. Needed'
    <3>1. ASSUME NEW h \in Block, NEW S \in SUBSET Block, ClosedBackwards(S, h)'
          PROVE  loopBlocks'[h] \cup Pending(h)' \subseteq S
      <4>1. ClosedBackwards(S, h)
        BY <1>1, <3>1 DEF ClosedBackwards
      <4>2. loopBlocks[h] \cup Pending(h) \subseteq S
        BY <4>1 DEF Growing, Needed
      <4>3. h = header => b \in S /\ graph.preds[b] \subseteq S
        BY <2>1, <2>2, <4>1, <4>2 DEF ClosedBackwards
      <4>4. CASE h # header
        BY <2>2, <4>2, <4>4
      <4>5. CASE h = header
        <5>1. loopBlocks'[h] = loopBlocks[h] \cup {b} /\ Pending(h)' = (Pending(h) \ {b}) \cup graph.preds[b]
          BY <2>2, <4>5
        <5> QED
          BY <4>2, <4>3, <4>5, <5>1
      <4> QED
        BY <4>4, <4>5
    <3> QED
      BY <3>1 DEF Needed
  <2>6. Preheaders'
    BY <1>1, <2>2 DEF Growing, Preheaders, LoopFinished
  <2> QED
    BY <2>3, <2>4, <2>5, <2>6 DEF Growing
<1> QED
  BY <1>3, <1>4

LEMMA FinishLoopGrowing ==
  ASSUME TypeOK, Growing, FinishLoop
  PROVE  Growing'
<1> USE DEF FinishLoop
<1>1. /\ graph' = graph /\ phase' = phase /\ header' = header /\ toAdd' = {} /\ toAdd = {}
      /\ loopBlocks' = loopBlocks /\ latches' = latches
      /\ loopPhase = "populate" /\ loopPhase' = "headers" /\ header \in Block
      /\ loopBlocks[header] # {}
  BY DEF vars, Growing, LoopFrame
<1>2. OutsidePreds \subseteq Block /\ IsFiniteSet(Block)
  BY <1>1, NumBlocksAssumption, FS_Interval DEF TypeOK, Graph, OutsidePreds, Block
<1>3. PreheaderOf # NoBlock => OutsidePreds = {PreheaderOf}
  <2>1. CASE Cardinality(OutsidePreds) = 1
    <3>1. IsFiniteSet(OutsidePreds)
      BY <1>2, FS_Subset
    <3>2. PICK p : OutsidePreds = {p}
      BY <2>1, <3>1, FS_Singleton
    <3> QED
      BY <2>1, <3>2 DEF PreheaderOf
  <2>2. CASE Cardinality(OutsidePreds) # 1
    BY <2>2 DEF PreheaderOf
  <2> QED
    BY <2>1, <2>2
<1>4. PreheaderOf \in Block \cup {NoBlock}
  BY <1>2, <1>3
<1>5. /\ preheader' \in [Block -> Block \cup {NoBlock}]
      /\ \A h \in Block : preheader'[h] = IF h = header THEN PreheaderOf ELSE preheader[h]
  BY <1>4 DEF Growing, LoopFrame
<1>6. LoopFrame'
  BY <1>1, <1>5 DEF Growing, LoopFrame
<1>7. \A h \in Block : Pending(h)' = {} /\ Pending(h) = {}
  BY <1>1 DEF Pending
<1>8. Closing'
  BY <1>1, <1>7 DEF Growing, Closing
<1>9. Needed'
  BY <1>1, <1>7 DEF Growing, Needed, ClosedBackwards
<1>10. ASSUME NEW p \in Block, OutsidePreds = {p} PROVE PreheaderOf = p
  BY <1>10, FS_Singleton DEF PreheaderOf
<1>11. Preheaders'
  <2>1. \A h \in Block : h # header => (LoopFinished(h)' <=> LoopFinished(h))
    BY <1>1 DEF LoopFinished
  <2>2. LoopFinished(header)'
    BY <1>1 DEF LoopFinished
  <2>3. OutsidePreds = graph.preds[header] \ loopBlocks[header]
    BY DEF OutsidePreds
  <2> QED
    BY <1>1, <1>3, <1>5, <1>10, <2>1, <2>2, <2>3 DEF Growing, Preheaders
<1> QED
  BY <1>6, <1>8, <1>9, <1>11 DEF Growing

LEMMA GrowingStep ==
  ASSUME TypeOK, Growing, [LoopNext]_<<vars, loopVars>>
  PROVE  Growing'
<1>1. CASE BuildTree \/ StartLoops \/ FinishLoops \/ UNCHANGED <<vars, loopVars>>
  <2>1. graph' = graph
    BY <1>1, SameGraph DEF BuildTree, StartLoops, FinishLoops, vars
  <2>2. UNCHANGED <<header, toAdd, loopBlocks, latches, preheader>>
    BY <1>1 DEF BuildTree, StartLoops, FinishLoops, loopVars
  <2>3. /\ loopPhase' \in {"tree", "headers", "found"} \cup {loopPhase}
        /\ loopPhase = "populate" => loopPhase' = "populate"
        /\ loopPhase' = "populate" => loopPhase = "populate"
    BY <1>1 DEF BuildTree, StartLoops, FinishLoops, loopVars
  <2>4. loopPhase' # "tree" => phase' = "done"
    <3>1. phase = "done" => ~Next
      BY DEF Next, Visit, SetIDom, SweepAgain, Converge, Finish
    <3> QED
      BY <1>1, <3>1 DEF BuildTree, StartLoops, FinishLoops, loopVars, vars, Growing, LoopFrame
  <2> QED
    BY <2>1, <2>2, <2>3, <2>4, QuietGrowing
<1>2. CASE FinishLoop
  BY <1>2, FinishLoopGrowing
<1>3. ASSUME NEW b \in Block, CreateLoop(b) \/ PopulateLoop(b) PROVE Growing'
  BY <1>3, CreateLoopGrowing, PopulateLoopGrowing
<1> QED
  BY <1>1, <1>2, <1>3 DEF LoopNext

\* The invariant is inductive.
LEMMA LoopStepInv ==
  ASSUME TypeOK, LoopInv, [LoopNext]_<<vars, loopVars>>
  PROVE  LoopInv'
<1>1. Growing'
  BY GrowingStep DEF LoopInv
<1>2. CASE LoopNext
  BY <1>1, <1>2, IdentifiedStep DEF LoopInv
<1>3. CASE UNCHANGED <<vars, loopVars>>
  BY <1>1, <1>3, SameHeaders DEF vars, loopVars, LoopInv, Identified
<1> QED
  BY <1>2, <1>3

-----------------------------------------------------------------------------
(* What the invariant says when the loops are found.                       *)

LEMMA FoundLoopsLeast == LoopInv => LoopsLeastClosed
<1> SUFFICES ASSUME LoopInv, loopPhase = "found", NEW h \in Block, loopBlocks[h] # {}
             PROVE  /\ ClosedBackwards(loopBlocks[h], h)
                    /\ \A S \in SUBSET Block : ClosedBackwards(S, h) => loopBlocks[h] \subseteq S
  BY DEF LoopsLeastClosed
<1>1. Pending(h) = {}
  BY DEF Pending
<1> QED
  BY <1>1 DEF LoopInv, Growing, Closing, Needed, ClosedBackwards

LEMMA FoundPreheaders == TypeOK /\ LoopInv => PreheadersAreOnlyWaysIn
<1> SUFFICES ASSUME TypeOK, LoopInv, loopPhase = "found", EdgesAtBothEnds(graph),
                    NEW h \in Block, preheader[h] # NoBlock
             PROVE  OnlyWayIn(h)
  BY DEF PreheadersAreOnlyWaysIn
<1>1. graph.preds[h] \ loopBlocks[h] = {preheader[h]} /\ loopBlocks[h] # {}
  BY DEF LoopInv, Growing, Preheaders, LoopFinished
<1>2. ClosedBackwards(loopBlocks[h], h)
  BY <1>1, FoundLoopsLeast DEF LoopsLeastClosed
<1>3. loopBlocks[h] \subseteq graph.blocks
  <2>1. ClosedBackwards(graph.blocks, h)
    BY <1>1 DEF LoopInv, Growing, Closing, ClosedBackwards, EdgesAtBothEnds
  <2> QED
    BY <1>1, <2>1, FoundLoopsLeast DEF LoopsLeastClosed, TypeOK, Graph
<1>4. ASSUME NEW p \in graph.blocks \ loopBlocks[h], NEW s \in graph.succs[p] \cap loopBlocks[h]
      PROVE  p = preheader[h]
  <2>1. p \in graph.preds[s]
    BY <1>3, <1>4 DEF EdgesAtBothEnds
  <2>2. s = h
    BY <1>2, <1>4, <2>1 DEF ClosedBackwards
  <2> QED
    BY <1>1, <1>4, <2>1, <2>2
<1> QED
  BY <1>1, <1>4 DEF OnlyWayIn

-----------------------------------------------------------------------------
(* In a connected function the loops are the natural ones, and a preheader *)
(* is the block in front.                                                  *)

LEMMA LoopInFunction ==
  ASSUME TypeOK, LoopInv, loopPhase = "found", EdgesAtBothEnds(graph),
         NEW h \in Block, loopBlocks[h] # {}
  PROVE  loopBlocks[h] \subseteq graph.blocks
<1>1. ClosedBackwards(graph.blocks, h)
  BY DEF LoopInv, Growing, Closing, ClosedBackwards, EdgesAtBothEnds
<1> QED
  BY <1>1, FoundLoopsLeast DEF LoopsLeastClosed, TypeOK, Graph

\* Every back edge of the tree is a back edge.
LEMMA BackEdgesExact ==
  ASSUME Inv, phase = "done", Connected(graph), NEW h \in graph.blocks
  PROVE  BackEdges(h) = BackEdgeSources(graph, h)
<1>1. todo = {}
  BY DEF Inv, Parents
<1>2. \A b \in graph.blocks : TreeDominates(h, b) <=> Dominates(graph, h, b)
  BY <1>1, TreeIsDominance
<1> QED
  BY <1>2 DEF BackEdges, BackEdgeSources, Connected

\* What populateLoop closes a loop under, and what a natural loop is closed under.
LEMMA ClosedAlike ==
  ASSUME graph \in Graph, Connected(graph), NEW h \in graph.blocks,
         latches[h] = BackEdgeSources(graph, h), NEW S \in SUBSET graph.blocks
  PROVE  ClosedBackwards(S, h) <=> LoopClosed(graph, h, S)
<1>1. \A b \in S : graph.preds[b] \subseteq S <=>
                   \A p \in ReachableBlocks(graph) : b \in graph.succs[p] => p \in S
  BY DEF Connected, EdgesAtBothEnds
<1> QED
  BY <1>1 DEF ClosedBackwards, LoopClosed

LEMMA FoundLoopsNatural ==
  ASSUME Inv, LoopInv, loopPhase = "found", Connected(graph), NEW h \in Block
  PROVE  loopBlocks[h] = IF BackEdgeSources(graph, h) = {} THEN {} ELSE NaturalLoop(graph, h)
<1>1. TypeOK /\ phase = "done" /\ graph \in Graph /\ EdgesAtBothEnds(graph)
  BY DEF Inv, TypeOK, LoopInv, Growing, LoopFrame, Connected
<1>2. graph.succs \in [Block -> SUBSET Block] /\ graph.blocks \subseteq Block
      /\ ReachableBlocks(graph) = graph.blocks
  BY <1>1 DEF Graph, Connected
<1>3. CASE h \notin graph.blocks
  <2>1. BackEdgeSources(graph, h) = {}
    BY <1>2, <1>3, ReachableLeadOn DEF BackEdgeSources
  <2> QED
    BY <1>3, <2>1 DEF LoopInv, Identified, Headers
<1>4. CASE h \in graph.blocks
  <2>1. BackEdges(h) = BackEdgeSources(graph, h)
    BY <1>1, <1>4, BackEdgesExact
  <2>2. CASE BackEdgeSources(graph, h) = {}
    BY <2>1, <2>2 DEF LoopInv, Identified, Headers
  <2>3. CASE BackEdgeSources(graph, h) # {}
    <3> DEFINE L == NaturalLoop(graph, h)
    <3>1. loopBlocks[h] # {} /\ latches[h] = BackEdgeSources(graph, h)
      BY <1>4, <2>1, <2>3 DEF LoopInv, Identified, Headers
    <3>2. /\ L \subseteq graph.blocks /\ LoopClosed(graph, h, L)
          /\ \A S \in SUBSET Block : LoopClosed(graph, h, S) => L \subseteq S
      BY <1>2, <2>3, NaturalLoopIsLeast
    <3>3. loopBlocks[h] \subseteq graph.blocks /\ ClosedBackwards(loopBlocks[h], h)
          /\ \A S \in SUBSET Block : ClosedBackwards(S, h) => loopBlocks[h] \subseteq S
      BY <1>1, <3>1, LoopInFunction, FoundLoopsLeast DEF LoopsLeastClosed
    <3> HIDE DEF L
    <3>4. ClosedBackwards(L, h) /\ LoopClosed(graph, h, loopBlocks[h])
      BY <1>1, <1>4, <3>1, <3>2, <3>3, ClosedAlike
    <3>5. L = loopBlocks[h]
      BY <1>2, <3>2, <3>3, <3>4
    <3> QED
      BY <2>3, <3>5 DEF L
  <2> QED
    BY <2>2, <2>3
<1> QED
  BY <1>3, <1>4

\* A preheader is in front of its loop.
LEMMA FoundPreheadersInFront ==
  ASSUME Inv, LoopInv, loopPhase = "found", Connected(graph),
         NEW h \in Block, preheader[h] # NoBlock
  PROVE  /\ OnlyWayIn(h) /\ BackEdgeSources(graph, h) # {}
         /\ loopBlocks[h] = NaturalLoop(graph, h)
         /\ InFrontOf(graph, h, preheader[h])
<1>1. TypeOK /\ EdgesAtBothEnds(graph) /\ ReachableBlocks(graph) = graph.blocks
  BY DEF Inv, Connected
<1>2. OnlyWayIn(h)
  BY <1>1, FoundPreheaders DEF PreheadersAreOnlyWaysIn
<1>3. graph.preds[h] \ loopBlocks[h] = {preheader[h]} /\ loopBlocks[h] # {}
  BY DEF LoopInv, Growing, Preheaders, LoopFinished
<1>4. BackEdgeSources(graph, h) # {} /\ loopBlocks[h] = NaturalLoop(graph, h)
  BY <1>3, FoundLoopsNatural
<1>5. h \in graph.blocks
  BY <1>3 DEF LoopInv, Identified, Headers
<1>6. preheader[h] \in graph.blocks /\ h \in graph.succs[preheader[h]]
  BY <1>1, <1>3, <1>5 DEF EdgesAtBothEnds
<1> QED
  BY <1>1, <1>2, <1>4, <1>6 DEF InFrontOf, OnlyWayIn

LEMMA FoundPreheadersGuard == Inv /\ LoopInv => PreheaderGuardsLoop
<1> SUFFICES ASSUME Inv, LoopInv, loopPhase = "found", Connected(graph),
                    NEW h \in Block, preheader[h] # NoBlock, NEW b \in loopBlocks[h]
             PROVE  OnlyWayIn(h) /\ Dominates(graph, preheader[h], b)
  <2>1. ASSUME Inv, LoopInv, loopPhase = "found", Connected(graph),
               NEW h \in Block, preheader[h] # NoBlock
        PROVE  OnlyWayIn(h)
    BY <2>1, FoundPreheadersInFront
  <2> QED
    BY <2>1 DEF PreheaderGuardsLoop
<1>1. graph.succs \in [Block -> SUBSET Block]
  BY DEF Inv, TypeOK, Graph
<1> QED
  BY <1>1, FoundPreheadersInFront, FrontDominatesLoop

-----------------------------------------------------------------------------
(* The pass alone.                                                         *)

USE DEF Pass!Block, Pass!Entry

\* Only the list of blocks changes, and it only loses blocks.
PassFrame ==
  /\ before \in Pass!Functions
  /\ graph.succs = before.succs
  /\ graph.preds = before.preds
  /\ reachable \subseteq before.blocks
  /\ graph.blocks \subseteq before.blocks

\* What has been reached is reached for a reason, and a block that has been
\* popped has nothing left to contribute.
PassSearch ==
  /\ Pass!Entry \in reachable
  /\ \A b \in reachable \ worklist : before.succs[b] \subseteq reachable
  /\ \A S \in SUBSET Pass!Block :
       Pass!Entry \in S /\ Pass!ClosedUnderSuccessors(S) => reachable \subseteq S

\* The erasing loop has left only reachable blocks behind it.
PassErasing ==
  /\ passPhase = "find" => graph.blocks = before.blocks
  /\ passPhase # "find" => worklist = {} /\ reachable \subseteq graph.blocks
  /\ passPhase = "erase" => unseen \subseteq graph.blocks /\ graph.blocks \ unseen \subseteq reachable
  /\ passPhase = "done" => graph.blocks = reachable

PassReported == erasedAny <=> graph.blocks # before.blocks

PassInv == Pass!TypeOK /\ PassFrame /\ PassSearch /\ PassErasing /\ PassReported

LEMMA PassBlocks == NumBlocks \in Nat /\ Pass!Entry \in Pass!Block
  BY NumBlocksAssumption

LEMMA PassInitInv == Pass!Init => PassInv
<1> SUFFICES ASSUME Pass!Init PROVE PassInv
  OBVIOUS
<1>1. before \in Pass!Graph /\ Pass!Entry \in before.blocks /\ before.blocks \subseteq Pass!Block
  BY DEF Pass!Init, Pass!Functions, Pass!Graph
<1>2. Pass!TypeOK
  BY <1>1, PassBlocks DEF Pass!Init, Pass!TypeOK
<1>3. PassFrame
  BY <1>1 DEF Pass!Init, PassFrame
<1>4. PassSearch
  BY DEF Pass!Init, PassSearch
<1>5. PassErasing /\ PassReported
  BY DEF Pass!Init, PassErasing, PassReported
<1> QED
  BY <1>2, <1>3, <1>4, <1>5 DEF PassInv

\* One iteration of the search keeps the least closed set above reachable.
LEMMA PassPopInv ==
  ASSUME PassInv, NEW b \in Pass!Block, Pass!Pop(b)
  PROVE  PassInv'
<1> USE DEF PassInv
<1>1. before \in Pass!Graph /\ \A c \in before.blocks : before.succs[c] \subseteq before.blocks
  BY DEF PassFrame, Pass!Functions
<1>2. b \in reachable /\ b \in before.blocks /\ before.succs[b] \subseteq Pass!Block
  BY <1>1 DEF Pass!Pop, Pass!TypeOK, PassFrame, Pass!Graph
<1>3. Pass!NewSuccessors(b) = before.succs[b] \ reachable
  BY DEF Pass!NewSuccessors, PassFrame
<1>4. /\ reachable' = reachable \cup before.succs[b]
      /\ worklist' = (worklist \ {b}) \cup (before.succs[b] \ reachable)
  BY <1>3 DEF Pass!Pop, Pass!Marked
<1>5. Pass!TypeOK'
  BY <1>2, <1>4 DEF Pass!Pop, Pass!TypeOK
<1>6. PassFrame'
  BY <1>1, <1>2, <1>4 DEF Pass!Pop, PassFrame
<1>7. PassSearch'
  <2>1. \A c \in reachable' \ worklist' : before.succs[c] \subseteq reachable'
    BY <1>4 DEF PassSearch
  <2>2. ASSUME NEW S \in SUBSET Pass!Block, Pass!Entry \in S, Pass!ClosedUnderSuccessors(S)
        PROVE  reachable' \subseteq S
    BY <1>2, <1>4, <2>2 DEF PassSearch, Pass!ClosedUnderSuccessors
  <2> QED
    BY <1>4, <2>1, <2>2 DEF PassSearch, Pass!Pop, Pass!ClosedUnderSuccessors
<1>8. PassErasing' /\ PassReported'
  BY DEF Pass!Pop, PassErasing, PassReported
<1> QED
  BY <1>5, <1>6, <1>7, <1>8

LEMMA PassStartErasingInv == PassInv /\ Pass!StartErasing => PassInv'
<1> SUFFICES ASSUME PassInv, Pass!StartErasing PROVE PassInv'
  OBVIOUS
<1> USE DEF PassInv, Pass!StartErasing
<1>1. before \in Pass!Graph /\ before.blocks \subseteq Pass!Block
  BY DEF PassFrame, Pass!Functions, Pass!Graph
<1>2. Pass!TypeOK'
  BY <1>1 DEF Pass!TypeOK, PassErasing
<1>3. PassFrame' /\ PassSearch'
  BY DEF PassFrame, PassSearch, Pass!ClosedUnderSuccessors
<1>4. PassErasing' /\ PassReported'
  BY DEF PassErasing, PassReported, PassFrame
<1> QED
  BY <1>2, <1>3, <1>4

LEMMA PassEraseInv ==
  ASSUME PassInv, NEW b \in Pass!Block, Pass!Erase(b)
  PROVE  PassInv'
<1> USE DEF PassInv
<1>1. graph \in Pass!Graph /\ b \in unseen
  BY DEF Pass!TypeOK, Pass!Erase, Pass!IsNext
<1>2. graph' = [graph EXCEPT !.blocks = graph.blocks \ {b}]
  BY DEF Pass!Erase
<1>3. /\ graph' \in Pass!Graph
      /\ graph'.blocks = graph.blocks \ {b}
      /\ graph'.succs = graph.succs
      /\ graph'.preds = graph.preds
  BY <1>1, <1>2 DEF Pass!Graph
<1>4. unseen' = unseen \ {b}
  BY DEF Pass!Erase, Pass!AfterErasing
<1>5. Pass!TypeOK'
  BY <1>3, <1>4 DEF Pass!TypeOK, Pass!Erase
<1>6. PassFrame'
  BY <1>3 DEF PassFrame, Pass!Erase
<1>7. PassSearch'
  BY DEF PassSearch, Pass!Erase, Pass!ClosedUnderSuccessors
<1>8. PassErasing'
  BY <1>3, <1>4 DEF PassErasing, Pass!Erase
<1>9. PassReported'
  BY <1>1, <1>3 DEF PassReported, Pass!Erase, PassErasing, PassFrame
<1> QED
  BY <1>5, <1>6, <1>7, <1>8, <1>9

LEMMA PassKeepInv ==
  ASSUME PassInv, NEW b \in Pass!Block, Pass!Keep(b)
  PROVE  PassInv'
<1> USE DEF PassInv, Pass!Keep
<1>1. Pass!TypeOK'
  BY DEF Pass!TypeOK
<1>2. PassFrame' /\ PassSearch'
  BY DEF PassFrame, PassSearch, Pass!ClosedUnderSuccessors
<1>3. PassErasing' /\ PassReported'
  BY DEF PassErasing, PassReported
<1> QED
  BY <1>1, <1>2, <1>3

LEMMA PassFinishInv == PassInv /\ Pass!Finish => PassInv'
<1> SUFFICES ASSUME PassInv, Pass!Finish PROVE PassInv'
  OBVIOUS
<1> USE DEF PassInv, Pass!Finish
<1>1. Pass!TypeOK'
  BY DEF Pass!TypeOK
<1>2. PassFrame' /\ PassSearch'
  BY DEF PassFrame, PassSearch, Pass!ClosedUnderSuccessors
<1>3. PassErasing' /\ PassReported'
  BY DEF PassErasing, PassReported
<1> QED
  BY <1>1, <1>2, <1>3

\* The invariant is inductive.
LEMMA PassStepInv == PassInv /\ [Pass!Next]_(Pass!vars) => PassInv'
<1> SUFFICES ASSUME PassInv, [Pass!Next]_(Pass!vars) PROVE PassInv'
  OBVIOUS
<1>1. ASSUME NEW b \in Pass!Block, Pass!Pop(b) \/ Pass!Erase(b) \/ Pass!Keep(b) PROVE PassInv'
  BY <1>1, PassPopInv, PassEraseInv, PassKeepInv
<1>2. CASE Pass!StartErasing
  BY <1>2, PassStartErasingInv
<1>3. CASE Pass!Finish
  BY <1>3, PassFinishInv
<1>4. CASE UNCHANGED Pass!vars
  BY <1>4 DEF Pass!vars, PassInv, Pass!TypeOK, PassFrame, PassSearch, Pass!ClosedUnderSuccessors, PassErasing, PassReported
<1> QED
  BY <1>1, <1>2, <1>3, <1>4 DEF Pass!Next

\* The search has found only reachable blocks and still has to look behind what it has
\* in its worklist; the loop after it erases the others and nothing else.
THEOREM SimplifyInvariant == Pass!Spec => []PassInv
<1>1. Pass!Init => PassInv
  BY PassInitInv
<1>2. PassInv /\ [Pass!Next]_(Pass!vars) => PassInv'
  BY PassStepInv
<1> QED
  BY <1>1, <1>2, PTL DEF Pass!Spec

-----------------------------------------------------------------------------
\* The state stays well typed; every block on the worklist is marked.
THEOREM SimplifyTypeCorrect == Pass!Spec => []Pass!TypeOK
<1>1. PassInv => Pass!TypeOK
  BY DEF PassInv
<1> QED
  BY <1>1, SimplifyInvariant, PTL

\* When removeUnreachableBlocks returns, the surviving blocks are the least set
\* that contains the entry and is closed under branching.
THEOREM SurvivorsAreReachable == Pass!Spec => []Pass!SurvivorsLeastClosed
<1>1. PassInv => Pass!SurvivorsLeastClosed
  BY DEF PassInv, PassSearch, PassErasing, Pass!SurvivorsLeastClosed, Pass!ClosedUnderSuccessors
<1> QED
  BY <1>1, SimplifyInvariant, PTL

\* The result of run is true exactly when a block was erased.
THEOREM ResultIsExact == Pass!Spec => []Pass!ReturnsWhetherErased
<1>1. PassInv => Pass!ReturnsWhetherErased
  BY DEF PassInv, PassReported, Pass!ReturnsWhetherErased
<1> QED
  BY <1>1, SimplifyInvariant, PTL

\* At no moment of the erasing does a block that is kept branch to an erased one.
THEOREM BranchesStayInside == Pass!Spec => []Pass!NoBranchIntoErased
<1>1. PassInv => Pass!NoBranchIntoErased
  BY DEF PassInv, PassFrame, PassSearch, PassErasing, Pass!NoBranchIntoErased
<1> QED
  BY <1>1, SimplifyInvariant, PTL

HIDE DEF Pass!Block, Pass!Entry

-----------------------------------------------------------------------------
(* The pass and the analyses together.                                     *)

CleanupInv ==
  /\ ~PassRan => passPhase = "done"
  /\ PassRan => PassInv

LEMMA CleanupInitInv == CleanupInit => CleanupInv
<1> SUFFICES ASSUME CleanupInit PROVE CleanupInv
  OBVIOUS
<1>1. CASE WithoutPass
  BY <1>1 DEF WithoutPass, CleanupInv, PassRan
<1>2. CASE WithPass
  <2>1. Pass!Init
    BY <1>2 DEF WithPass
  <2>2. PassInv /\ PassRan
    BY <2>1, PassInitInv, NumBlocksAssumption DEF Pass!Init, PassRan
  <2> QED
    BY <2>2 DEF CleanupInv
<1> QED
  BY <1>1, <1>2 DEF CleanupInit

\* No step of the analyses touches the function or the pass.
LEMMA AnalysesLeaveTheFunction == Analyze => UNCHANGED Pass!vars
<1> SUFFICES ASSUME Analyze PROVE UNCHANGED Pass!vars
  OBVIOUS
<1>1. Next => UNCHANGED graph
  BY DEF Next, Visit, SetIDom, SweepAgain, Converge, Finish
<1>2. LoopNext => UNCHANGED graph
  BY <1>1 DEF LoopNext, BuildTree, StartLoops, CreateLoop, PopulateLoop, FinishLoop,
              FinishLoops, vars
<1> QED
  BY <1>2 DEF Analyze, passVars, Pass!vars

\* The pass takes no step after it has returned.
LEMMA PassStep == Pass!Next => passPhase # "done"
  BY DEF Pass!Next, Pass!Pop, Pass!Erase, Pass!Keep, Pass!StartErasing, Pass!Finish

LEMMA CleanupStepInv == CleanupInv /\ [CleanupNext]_allVars => CleanupInv'
<1> SUFFICES ASSUME CleanupInv, [CleanupNext]_allVars PROVE CleanupInv'
  OBVIOUS
<1>1. ASSUME Pass!Next PROVE CleanupInv'
  <2>1. PassRan /\ PassInv /\ Pass!Next
    BY <1>1, PassStep DEF CleanupInv
  <2>2. PassInv'
    BY <2>1, PassStepInv, NumBlocksAssumption
  <2>3. reachable' # {}
    BY <2>2 DEF PassInv, PassSearch
  <2> QED
    BY <2>2, <2>3 DEF CleanupInv, PassRan
<1>2. ASSUME UNCHANGED Pass!vars PROVE CleanupInv'
  <2>1. CASE PassRan
    <3>1. PassInv'
      BY <1>2, <2>1, PassStepInv, NumBlocksAssumption DEF CleanupInv
    <3>2. PassRan'
      BY <1>2, <2>1 DEF Pass!vars, PassRan
    <3> QED
      BY <3>1, <3>2 DEF CleanupInv
  <2>2. CASE ~PassRan
    BY <1>2, <2>2 DEF Pass!vars, CleanupInv, PassRan
  <2> QED
    BY <2>1, <2>2
<1>3. CASE CleanUp
  BY <1>1, <1>3 DEF CleanUp
<1>4. CASE StartAnalyses
  BY <1>1, <1>4 DEF StartAnalyses, Pass!Next
<1>5. CASE Analyze
  BY <1>2, <1>5, AnalysesLeaveTheFunction
<1>6. CASE UNCHANGED allVars
  <2>1. UNCHANGED Pass!vars
    BY <1>6 DEF allVars, passVars, vars, Pass!vars
  <2> QED
    BY <1>2, <2>1
<1> QED
  BY <1>3, <1>4, <1>5, <1>6 DEF CleanupNext

-----------------------------------------------------------------------------
(* The tree, from the return of the pass on.                               *)

TreeInv ==
  /\ passPhase # "done" =>
       phase = "sweep" /\ changed = FALSE /\ idom = [b \in Block |-> NoBlock]
  /\ passPhase = "done" => Inv

LEMMA TreeInitInv == CleanupInit => TreeInv
  BY InitInv DEF CleanupInit, WithoutPass, LoopInit, WithPass, Pass!Init, TreeInv

\* The pass returns: the entry is among the blocks that are left.
LEMMA StartAnalysesInv == CleanupInv /\ TreeInv /\ StartAnalyses => TreeInv'
<1> SUFFICES ASSUME CleanupInv, TreeInv, StartAnalyses PROVE TreeInv'
  OBVIOUS
<1>1. passPhase = "erase" /\ unseen = {} /\ passPhase' = "done" /\ graph' = graph
  BY DEF StartAnalyses, Pass!Finish
<1>2. PassInv
  BY <1>1 DEF CleanupInv
<1>3. graph \in Graph
  BY <1>2 DEF PassInv, Pass!TypeOK, Pass!Graph, Graph, Pass!Block, Block
<1>4. Entry \in graph.blocks
  BY <1>1, <1>2 DEF PassInv, PassSearch, PassErasing, Pass!Entry, Entry
<1>5. Others' = Others /\ \A b \in Block : InitialDoms(b)' = InitialDoms(b)
  BY <1>1 DEF Others, InitialDoms
<1>6. Started'
  BY <1>1, <1>3, <1>4, <1>5 DEF TreeInv, StartAnalyses, Started
<1>7. Started' => Inv'
  BY StartInv, PTL
<1> QED
  BY <1>1, <1>6, <1>7 DEF TreeInv

LEMMA TreeStepInv == CleanupInv /\ TreeInv /\ [CleanupNext]_allVars => TreeInv'
<1> SUFFICES ASSUME CleanupInv, TreeInv, [CleanupNext]_allVars PROVE TreeInv'
  OBVIOUS
<1>1. CASE CleanUp
  BY <1>1, PassStep DEF CleanUp, TreeInv
<1>2. CASE StartAnalyses
  BY <1>2, StartAnalysesInv
<1>3. CASE Analyze
  <2>1. LoopNext => [Next]_vars
    BY DEF LoopNext, BuildTree, StartLoops, CreateLoop, PopulateLoop, FinishLoop, FinishLoops
  <2> QED
    BY <1>3, <2>1, StepInv DEF Analyze, passVars, TreeInv
<1>4. CASE UNCHANGED allVars
  <2>1. UNCHANGED vars /\ passPhase' = passPhase
    BY <1>4 DEF allVars, passVars
  <2>2. passPhase = "done" => Inv'
    BY <2>1, StepInv DEF TreeInv
  <2> QED
    BY <2>1, <2>2 DEF TreeInv, vars
<1> QED
  BY <1>1, <1>2, <1>3, <1>4 DEF CleanupNext

-----------------------------------------------------------------------------
(* The loops, which nothing looks for while the pass runs.                 *)

LoopsInv ==
  /\ passPhase # "done" => LoopsNotFound
  /\ LoopInv

LEMMA LoopsInitInv == CleanupInit => LoopsInv
<1> SUFFICES ASSUME CleanupInit PROVE LoopsNotFound
  BY LoopsNotFoundInv DEF LoopsInv
<1> QED
  BY DEF CleanupInit, WithoutPass, WithPass, LoopInit

\* The search for loops goes on, or has not begun.
LEMMA LoopsStepInv == TreeInv /\ LoopsInv /\ [CleanupNext]_allVars => LoopsInv'
<1> SUFFICES ASSUME TreeInv, LoopsInv, [CleanupNext]_allVars PROVE LoopsInv'
  OBVIOUS
<1>1. ASSUME passPhase # "done", UNCHANGED loopVars PROVE LoopsInv'
  <2>1. LoopsNotFound'
    BY <1>1 DEF LoopsInv, LoopsNotFound, loopVars
  <2>2. LoopsNotFound' => LoopInv'
    BY LoopsNotFoundInv, PTL
  <2> QED
    BY <2>1, <2>2 DEF LoopsInv
<1>2. ASSUME passPhase = "done", passPhase' = "done", [LoopNext]_<<vars, loopVars>>
      PROVE  LoopsInv'
  <2>1. TypeOK
    BY <1>2 DEF TreeInv, Inv
  <2>2. LoopInv'
    BY <1>2, <2>1, LoopStepInv DEF LoopsInv
  <2> QED
    BY <1>2, <2>2 DEF LoopsInv
<1>3. CASE CleanUp
  BY <1>1, <1>3, PassStep DEF CleanUp
<1>4. CASE StartAnalyses
  BY <1>1, <1>4 DEF StartAnalyses, Pass!Finish
<1>5. CASE Analyze
  BY <1>2, <1>5 DEF Analyze, passVars
<1>6. CASE UNCHANGED allVars
  BY <1>1, <1>2, <1>6 DEF allVars, passVars
<1> QED
  BY <1>3, <1>4, <1>5, <1>6 DEF CleanupNext

-----------------------------------------------------------------------------
(* What is not there before the analyses begin, or without the pass.       *)

Blank ==
  /\ graph \in Graph
  /\ passPhase # "done" => doms = [b \in Block |-> {}] /\ todo = {}
  /\ ~PassRan => /\ before \in Graph
                 /\ worklist = {} /\ unseen = {}
                 /\ erasedAny = FALSE

LEMMA BlankInit == CleanupInit => Blank
<1> SUFFICES ASSUME CleanupInit PROVE Blank
  OBVIOUS
<1>1. CASE WithoutPass
  BY <1>1, GraphsAssumption DEF WithoutPass, LoopInit, Init, Blank
<1>2. CASE WithPass
  <2>1. graph \in Graph /\ PassRan
    BY <1>2 DEF WithPass, Pass!Init, Pass!Functions, Pass!Graph, Graph, Pass!Block, Block, PassRan
  <2> QED
    BY <1>2, <2>1 DEF WithPass, Blank
<1> QED
  BY <1>1, <1>2 DEF CleanupInit

LEMMA BlankStep == CleanupInv /\ CleanupInv' /\ Blank /\ [CleanupNext]_allVars => Blank'
<1> SUFFICES ASSUME CleanupInv, CleanupInv', Blank, [CleanupNext]_allVars PROVE Blank'
  OBVIOUS
<1>1. ASSUME Pass!Next PROVE graph' \in Graph /\ PassRan'
  <2>1. PassRan /\ PassInv /\ Pass!Next
    BY <1>1, PassStep DEF CleanupInv
  <2>2. PassInv'
    BY <2>1, PassStepInv, NumBlocksAssumption
  <2> QED
    BY <2>2 DEF PassInv, PassSearch, PassRan, Pass!TypeOK, Pass!Graph, Graph, Pass!Block, Block
<1>2. ASSUME UNCHANGED Pass!vars, passPhase # "done" => UNCHANGED <<doms, todo>> PROVE Blank'
  BY <1>2 DEF Pass!vars, Blank, PassRan
<1>3. CASE CleanUp
  BY <1>1, <1>3, PassStep DEF CleanUp, Blank
<1>4. CASE StartAnalyses
  BY <1>1, <1>4 DEF StartAnalyses, Blank, Pass!Next, Pass!Finish
<1>5. CASE Analyze
  BY <1>2, <1>5, AnalysesLeaveTheFunction DEF Analyze
<1>6. CASE UNCHANGED allVars
  BY <1>2, <1>6 DEF allVars, passVars, vars, Pass!vars
<1> QED
  BY <1>3, <1>4, <1>5, <1>6 DEF CleanupNext

-----------------------------------------------------------------------------
WholeInv == CleanupInv /\ TreeInv /\ LoopsInv /\ Blank

\* The pass, the dominator tree and the loops keep their invariants when they run one
\* after the other on one function, whatever the function.
THEOREM CleanupInvariant == CleanupSpec => []WholeInv
<1>1. CleanupInit => WholeInv
  BY CleanupInitInv, TreeInitInv, LoopsInitInv, BlankInit DEF WholeInv
<1>2. WholeInv /\ [CleanupNext]_allVars => WholeInv'
  BY CleanupStepInv, TreeStepInv, LoopsStepInv, BlankStep DEF WholeInv
<1> QED
  BY <1>1, <1>2, PTL DEF CleanupSpec

-----------------------------------------------------------------------------
(* The properties.                                                         *)

\* From the return of removeUnreachableBlocks on, and all the time the analyses
\* read the function, its blocks are the least set that contains the entry and
\* is closed under branching.
THEOREM SurvivorsStayReachable == CleanupSpec => []SurvivorsLeastClosed
<1>1. PassInv => Pass!SurvivorsLeastClosed
  BY DEF PassInv, PassSearch, PassErasing, Pass!SurvivorsLeastClosed,
         Pass!ClosedUnderSuccessors, Pass!Entry, Pass!Block
<1>2. CleanupInv => SurvivorsLeastClosed
  BY <1>1 DEF CleanupInv, SurvivorsLeastClosed
<1> QED
  BY <1>2, CleanupInvariant, PTL DEF WholeInv

\* DominatorTree::run returns the greatest solution of its equations for the
\* function SimplifyCFG has left, too, although erased blocks are among the
\* predecessors it goes through.
THEOREM SolutionIsGreatestAfterCleanup == CleanupSpec => []GreatestSolution
<1>1. TreeInv => GreatestSolution
  BY ResultIsGreatest DEF TreeInv, GreatestSolution, Returning
<1> QED
  BY <1>1, CleanupInvariant, PTL DEF WholeInv

\* LoopInfo finds for every header the least set that is closed under
\* predecessors, in the functions SimplifyCFG has left, too, whatever erased
\* blocks their predecessor lists contain.
THEOREM LoopsAreLeastAfterCleanup == CleanupSpec => []LoopsLeastClosed
<1>1. WholeInv => LoopsLeastClosed
  BY FoundLoopsLeast DEF WholeInv, LoopsInv
<1> QED
  BY <1>1, CleanupInvariant, PTL

\* A preheader LoopInfo gives to a loop is outside of it, and no other block
\* outside branches into it.
THEOREM PreheadersAreOnlyWaysInAfterCleanup == CleanupSpec => []PreheadersAreOnlyWaysIn
<1>1. WholeInv => PreheadersAreOnlyWaysIn
  <2> SUFFICES ASSUME WholeInv, loopPhase = "found" PROVE PreheadersAreOnlyWaysIn
    BY DEF PreheadersAreOnlyWaysIn
  <2>1. passPhase = "done"
    BY DEF WholeInv, LoopsInv, LoopsNotFound
  <2> QED
    BY <2>1, FoundPreheaders DEF WholeInv, LoopsInv, TreeInv, Inv
<1> QED
  BY <1>1, CleanupInvariant, PTL

\* The answers of dominates are also right for what SimplifyCFG leaves of a function
\* whose edges were entered at both ends, if no block it erased branched to one it kept.
\* (If one did, it stays in the predecessor lists and they are not: CleanedTreeExact.)
TreeExactAfterPass ==
  /\ PassRan /\ Returning
  /\ EdgesAtBothEnds(before)
  /\ \A e \in before.blocks \ graph.blocks : before.succs[e] \cap graph.blocks = {}
  => \A a, b \in graph.blocks : TreeDominates(a, b) <=> Dominates(graph, a, b)

\* What SimplifyCFG leaves of such a function is connected.
LEMMA LeftConnected ==
  ASSUME PassInv, graph \in Graph, passPhase = "done", EdgesAtBothEnds(before),
         \A e \in before.blocks \ graph.blocks : before.succs[e] \cap graph.blocks = {}
  PROVE  Connected(graph)
<1>1. /\ graph.succs = before.succs /\ graph.preds = before.preds
      /\ graph.blocks \subseteq before.blocks
      /\ graph.succs \in [Block -> SUBSET Block] /\ graph.blocks \subseteq Block
  BY DEF PassInv, PassFrame, Graph
<1>2. /\ Entry \in graph.blocks
      /\ \A b \in graph.blocks : graph.succs[b] \subseteq graph.blocks
      /\ \A S \in SUBSET Block :
           Entry \in S /\ (\A b \in S : graph.succs[b] \subseteq S) => graph.blocks \subseteq S
  BY <1>1 DEF PassInv, PassSearch, PassErasing, Pass!ClosedUnderSuccessors,
              Pass!Entry, Pass!Block, Entry, Block
<1>3. ReachableBlocks(graph) \subseteq graph.blocks
  BY <1>1, <1>2, ReachedContained
<1>4. graph.blocks \subseteq ReachableBlocks(graph)
  BY <1>1, <1>2, ReachableLeadOn
<1>5. ASSUME NEW b \in graph.blocks
      PROVE  graph.preds[b] = {p \in graph.blocks : b \in graph.succs[p]}
  BY <1>1 DEF EdgesAtBothEnds
<1> QED
  BY <1>3, <1>4, <1>5 DEF Connected, EdgesAtBothEnds

\* dominates answers for a connected function whether every path from the entry leads
\* through a block, for every function SimplifyCFG has made connected, too.
THEOREM TreeAnswersDominanceAfterCleanup == CleanupSpec => [](TreeExact /\ TreeExactAfterPass)
<1>1. TreeInv => TreeExact
  BY TreeIsExact DEF TreeInv, TreeExact, Returning
<1>2. WholeInv => TreeExactAfterPass
  <2> SUFFICES ASSUME WholeInv, PassRan, Returning, EdgesAtBothEnds(before),
                      \A e \in before.blocks \ graph.blocks :
                        before.succs[e] \cap graph.blocks = {}
               PROVE  \A a, b \in graph.blocks : TreeDominates(a, b) <=> Dominates(graph, a, b)
    BY DEF TreeExactAfterPass
  <2>1. passPhase = "done"
    BY DEF WholeInv, TreeInv, Returning
  <2>2. PassInv /\ graph \in Graph
    BY DEF WholeInv, CleanupInv, Blank
  <2>3. Connected(graph)
    BY <2>1, <2>2, LeftConnected
  <2> QED
    BY <1>1, <2>3 DEF WholeInv, TreeExact
<1> QED
  BY <1>1, <1>2, CleanupInvariant, PTL DEF WholeInv

LEMMA FoundAfterPass ==
  ASSUME WholeInv, loopPhase = "found"
  PROVE  Inv /\ LoopInv
<1>1. passPhase = "done"
  BY DEF WholeInv, LoopsInv, LoopsNotFound
<1> QED
  BY <1>1 DEF WholeInv, LoopsInv, TreeInv

\* What LoopInfo finds with the dominator tree are the natural loops of the
\* function: the blocks that reach a back edge without passing through its header.
THEOREM LoopsAreTheNaturalOnes == CleanupSpec => []LoopsAreNatural
<1>1. WholeInv => LoopsAreNatural
  BY FoundAfterPass, FoundLoopsNatural DEF LoopsAreNatural
<1> QED
  BY <1>1, CleanupInvariant, PTL

\* LoopInfo gives a loop the preheader p if and only if p is the one predecessor of
\* its header that is not in the loop.
PreheadersFound ==
  loopPhase = "found" =>
    \A h \in Block : loopBlocks[h] # {} =>
      \A p \in Block : preheader[h] = p <=> graph.preds[h] \ loopBlocks[h] = {p}

\* A loop has a preheader if and only if its header has one predecessor outside, and
\* every path from the entry into the loop leads through it: what LICM moves there is
\* executed before the loop is.
THEOREM PreheadersGuardLoops == CleanupSpec => [](PreheaderGuardsLoop /\ PreheadersFound)
<1>1. WholeInv => PreheaderGuardsLoop
  BY FoundAfterPass, FoundPreheadersGuard DEF PreheaderGuardsLoop
<1>2. WholeInv => PreheadersFound
  <2> SUFFICES ASSUME WholeInv, loopPhase = "found",
                      NEW h \in Block, loopBlocks[h] # {}, NEW p \in Block
               PROVE  preheader[h] = p <=> graph.preds[h] \ loopBlocks[h] = {p}
    BY DEF PreheadersFound
  <2>1. LoopFinished(h)
    BY DEF LoopFinished
  <2>2. p # NoBlock
    BY NumBlocksAssumption DEF Block, NoBlock
  <2>3. Preheaders
    BY DEF WholeInv, LoopsInv, LoopInv, Growing
  <2> QED
    BY <2>1, <2>2, <2>3 DEF Preheaders
<1> QED
  BY <1>1, <1>2, CleanupInvariant, PTL

\* The pass and the analyses keep to the types of their states; every block
\* populateLoop has still to visit and every latch belongs to the function.
THEOREM CleanupTypeCorrect == CleanupSpec => []CleanupTypeOK
<1>1. WholeInv => TypeOK
  <2> SUFFICES ASSUME WholeInv PROVE TypeOK
    OBVIOUS
  <2>1. CASE passPhase = "done"
    BY <2>1 DEF WholeInv, TreeInv, Inv
  <2>2. CASE passPhase # "done"
    BY <2>2 DEF WholeInv, TreeInv, Blank, TypeOK
  <2> QED
    BY <2>1, <2>2
<1>2. WholeInv => LoopTypeOK
  <2> SUFFICES ASSUME WholeInv PROVE LoopTypeOK
    OBVIOUS
  <2>1. \A h \in Block : latches[h] \subseteq loopBlocks[h] \cup toAdd
    BY DEF WholeInv, LoopsInv, LoopInv, Growing, Closing, Pending
  <2> QED
    BY <1>1, <2>1 DEF WholeInv, LoopsInv, LoopInv, Growing, LoopFrame, LoopTypeOK
<1>3. WholeInv => Pass!TypeOK
  <2> SUFFICES ASSUME WholeInv PROVE Pass!TypeOK
    OBVIOUS
  <2>1. CASE PassRan
    BY <2>1 DEF WholeInv, CleanupInv, PassInv
  <2>2. CASE ~PassRan
    BY <2>2 DEF WholeInv, CleanupInv, Blank, PassRan, Pass!TypeOK, Pass!Graph, Graph,
                Pass!Block, Block
  <2> QED
    BY <2>1, <2>2
<1>4. WholeInv => CleanupTypeOK
  BY <1>2, <1>3 DEF CleanupTypeOK
<1> QED
  BY <1>4, CleanupInvariant, PTL
=============================================================================
