------------------------------ MODULE Cleanup ------------------------------
(***************************************************************************)
(* SimplifyCFG and, after it, the analyses of the function it leaves, as   *)
(* PassManager runs them at every optimization level: the pass erases      *)
(* blocks and leaves their addresses in the predecessor lists the analyses *)
(* go through.  The analyses are computed for functions without the pass   *)
(* before them, too.                                                       *)
(***************************************************************************)
EXTENDS LoopInfo

CONSTANT Uncleaned     \* the functions SimplifyCFG is run on

VARIABLES
  before,        \* the function as SimplifyCFG found it
  passPhase,     \* "find", "erase" or "done"
  reachable,     \* Reachable
  worklist,      \* Worklist
  unseen,        \* the blocks the erasing loop has not looked at
  erasedAny      \* what run returns

passVars == <<before, passPhase, reachable, worklist, unseen, erasedAny>>

Pass == INSTANCE SimplifyCFG WITH phase <- passPhase, todo <- unseen, changed <- erasedAny

\* The pass is not run; Reachable stays empty.
WithoutPass ==
  /\ LoopInit
  /\ before = graph
  /\ passPhase = "done"
  /\ reachable = {} /\ worklist = {} /\ unseen = {}
  /\ erasedAny = FALSE

\* The pass is run first; of the analyses, nothing is there yet.
WithPass ==
  /\ before \in Uncleaned
  /\ Pass!Init
  /\ phase = "sweep"
  /\ doms = [b \in Block |-> {}]
  /\ todo = {}
  /\ changed = FALSE
  /\ idom = [b \in Block |-> NoBlock]
  /\ LoopsNotFound

CleanupInit == WithoutPass \/ WithPass

\* A step of the pass.
CleanUp ==
  /\ Pass!Next
  /\ passPhase' # "done"
  /\ UNCHANGED <<phase, doms, todo, changed, idom, loopVars>>

\* run returns, and the analyses start with the function as it is now.
StartAnalyses ==
  /\ Pass!Finish
  /\ doms' = [b \in Block |-> InitialDoms(b)]
  /\ todo' = Others
  /\ UNCHANGED <<phase, changed, idom, loopVars>>

Analyze ==
  /\ passPhase = "done"
  /\ LoopNext
  /\ UNCHANGED passVars

CleanupNext == CleanUp \/ StartAnalyses \/ Analyze

allVars == <<vars, loopVars, passVars>>

CleanupSpec == CleanupInit /\ [][CleanupNext]_allVars /\ WF_allVars(CleanupNext)

-----------------------------------------------------------------------------
(* Properties.                                                             *)

\* The states of the pass and of the analyses; what is still to be visited and
\* what is found belong together.
CleanupTypeOK == LoopTypeOK /\ Pass!TypeOK

\* SimplifyCFG leaves what the entry reaches.
PassRan == reachable # {}
SurvivorsLeastClosed == PassRan => Pass!SurvivorsLeastClosed

\* The pass and the analyses after it return: no block is pushed twice, the
\* sweeps settle, and the recursion through the predecessors of a loop ends
\* although they form cycles.
AllReturn == <>(loopPhase = "found")

\* "Check if A dominates B" (Pass.h): for every function SimplifyCFG leaves.
CleanedTreeExact ==
  Returning =>
    \A a, b \in graph.blocks : TreeDominates(a, b) <=> Dominates(graph, a, b)
=============================================================================
