---------------------------- MODULE PassManager ----------------------------
(***************************************************************************)
(* The pass manager and its analysis manager (lib/CodeGen/Pass.cpp and     *)
(* include/yac/CodeGen/Pass.h) with the eight passes of the optimization   *)
(* pipelines (include/yac/CodeGen/Transforms.h).                           *)
(*                                                                         *)
(* What a pass does to the IR is abstracted to the kinds of things it      *)
(* edits, to whether IRVerifier::verifyFunction would accept the function  *)
(* afterwards, and to the Boolean its run returns; everything the pass     *)
(* manager decides is kept.  An analysis is what AM.get caches: it goes    *)
(* stale when the IR it was computed from is edited.  Functions are        *)
(* numbered in the order of the module.                                    *)
(***************************************************************************)
EXTENDS Integers, Sequences

CONSTANTS
  NumFunctions,   \* how many functions the module has
  Pipelines       \* the pass sequences that may have been added

Pass == {"SimplifyCFG", "Mem2Reg", "CopyPropagation", "ConstantPropagation",
         "DCE", "SCCP", "GVN", "LICM"}
Analysis == {"DominatorTree", "LoopInfo"}
Kind == {"CFG", "Instructions", "Values"}     \* Analysis::InvalidationKind
Function == 1..NumFunctions

ASSUME NumFunctionsAssumption == NumFunctions \in Nat
ASSUME PipelinesAssumption ==
  \A p \in Pipelines : Len(p) \in Nat /\ p \in [1..Len(p) -> Pass]

VARIABLES
  passes,         \* PassManager::Passes
  verifyEach,     \* PassManager::VerifyEach
  phase,          \* "module", "between", "inPass" or "done": see the actions
  fn,             \* the function run(F) works on; 0 before the first
  pc,             \* how many passes have been started on it
  cache,          \* AM.Analyses: the function an entry was computed for, or 0
  stale,          \* the cached analyses the IR no longer agrees with
  held,           \* the analyses the running pass has a reference to
  edits,          \* the kinds of edits the running pass has made
  changed,        \* Changed of run(F)
  moduleChanged,  \* Changed of run(M)
  valid,          \* would the verifier accept the function as it is now
  modified,       \* has any pass edited the function
  rejected        \* the functions "Verification failed after pass" is about

pmVars == <<passes, verifyEach, phase, fn, pc, cache, stale, held, edits,
            changed, moduleChanged, valid, modified, rejected>>
setup == <<passes, verifyEach>>
ir == <<valid, modified>>
manager == <<cache, stale, held>>

Absent == 0

-----------------------------------------------------------------------------
(* The passes and the analyses.                                            *)

\* AM.get calls in the passes' run methods.
Gets(p) ==
  IF p = "Mem2Reg" THEN {"DominatorTree"}
  ELSE IF p = "LICM" THEN {"LoopInfo"} ELSE {}

\* Mutant: LICM inserts a preheader block where a loop has none.
MayEditWithPreheaders(p) ==
  IF p = "SimplifyCFG" THEN Kind
  ELSE IF p = "Mem2Reg" THEN {"Instructions", "Values"}
  ELSE IF p = "LICM" THEN {"CFG", "Instructions"} ELSE {}

\* What a pass edits.  ConstantPropagation and SCCP record what they find and
\* rewrite nothing, DCE finds nothing to remove, and CopyPropagation has no
\* IRMoveInst to look at, because nothing creates one.
MayEdit(p) ==
  IF p = "SimplifyCFG" THEN Kind
  ELSE IF p = "Mem2Reg" THEN {"Instructions", "Values"}
  ELSE IF p \in {"GVN", "LICM"} THEN {"Instructions"} ELSE {}

\* Mutant: a pass that rewrites operands only forgets to set Changed.
MayReturnQuietly(p, e) ==
  IF e # {} /\ p # "GVN" THEN {TRUE} ELSE {TRUE, FALSE}

\* What run may return after the edits e.  Two passes set Changed for what
\* they found, whether or not it led to an edit.
MayReturn(p, e) ==
  IF e # {} THEN {TRUE}
  ELSE IF p \in {"ConstantPropagation", "GVN"}
    THEN {TRUE, FALSE} ELSE {FALSE}

PreservesCFG(p) == p # "SimplifyCFG"
PreservesInstructions(p) == FALSE

\* What an analysis reads, and the invalidate() override that must cover it.
ReadsOf(a) == {"CFG"}
InvalidatedBy(a) ==
  IF a = "DominatorTree" THEN {"CFG"} ELSE {"CFG", "Instructions"}

\* InvalidMask of PassManager::run.
InvalidMask(p) ==
  (IF PreservesCFG(p) THEN {} ELSE {"CFG"})
    \cup (IF PreservesInstructions(p) THEN {} ELSE {"Instructions", "Values"})

\* AnalysisManager::invalidate with the mask of pass p.
Dropped(p) == {a \in Analysis : InvalidatedBy(a) \cap InvalidMask(p) # {}}

Current == passes[pc]

\* The pipelines main.cpp configures for -O0 (no pass manager runs), -O1, -O2
\* and -O3.
Level1 == <<"SimplifyCFG", "Mem2Reg", "CopyPropagation",
            "ConstantPropagation", "DCE">>
Level2 == Level1 \o <<"SimplifyCFG", "SCCP", "GVN", "CopyPropagation", "DCE",
                      "LICM", "SimplifyCFG">>
Level3 == Level2 \o <<"SCCP", "GVN", "CopyPropagation", "DCE", "LICM",
                      "SimplifyCFG">>
PipelineOf(level) == <<Level1, Level2, Level3>>[level]

-----------------------------------------------------------------------------
Init ==
  /\ passes \in Pipelines
  /\ verifyEach \in BOOLEAN
  /\ phase = "module"
  /\ fn = 0
  /\ pc = 0
  /\ cache = [a \in Analysis |-> Absent]
  /\ stale = {}
  /\ held = {}
  /\ edits = {}
  /\ changed = FALSE
  /\ moduleChanged = FALSE
  /\ valid \in [Function -> BOOLEAN]
  /\ modified = [f \in Function |-> FALSE]
  /\ rejected = {}

\* AnalysisManager AM(F): the cache starts empty.
FreshAnalyses == [a \in Analysis |-> Absent]

\* Mutant: one function too many.
MoreFunctionsByOne == fn <= NumFunctions

\* The loop of run(M) has functions left.
MoreFunctions == fn < NumFunctions

\* run(M) goes on to the next function and enters run(F).
StartFunction ==
  /\ phase = "module"
  /\ MoreFunctions
  /\ fn' = fn + 1
  /\ pc' = 0
  /\ cache' = FreshAnalyses
  /\ stale' = {a \in stale : FreshAnalyses[a] # Absent}
  /\ changed' = FALSE
  /\ phase' = "between"
  /\ UNCHANGED <<setup, held, edits, moduleChanged, ir, rejected>>

\* P->run begins: what the pass needs is taken from the cache or computed.
StartPass ==
  /\ phase = "between"
  /\ pc < Len(passes)
  /\ pc' = pc + 1
  /\ held' = Gets(passes[pc + 1])
  /\ cache' = [a \in Analysis |->
                 IF a \in Gets(passes[pc + 1]) /\ cache[a] = Absent
                   THEN fn ELSE cache[a]]
  /\ edits' = {}
  /\ phase' = "inPass"
  /\ UNCHANGED <<setup, fn, stale, changed, moduleChanged, ir, rejected>>

\* P->run edits the function; the edit may break it or repair it.
Edit(kinds) ==
  /\ phase = "inPass"
  /\ edits = {}
  /\ kinds # {}
  /\ kinds \subseteq MayEdit(Current)
  /\ edits' = kinds
  /\ stale' = stale \cup {a \in Analysis : /\ cache[a] # Absent
                                           /\ ReadsOf(a) \cap kinds # {}}
  /\ \E ok \in BOOLEAN : valid' = [valid EXCEPT ![fn] = ok]
  /\ modified' = [modified EXCEPT ![fn] = TRUE]
  /\ UNCHANGED <<setup, phase, fn, pc, cache, held, changed, moduleChanged,
                 rejected>>

\* AM.invalidate(InvalidMask): the entry and its staleness go together.
Invalidate ==
  /\ cache' = [a \in Analysis |-> IF a \in Dropped(Current) THEN Absent
                                  ELSE cache[a]]
  /\ stale' = stale \ Dropped(Current)

\* Mutant: Changed = PassChanged.
AccumulatedLast(passChanged) == passChanged

\* Changed |= PassChanged.
Accumulated(passChanged) == changed \/ passChanged

\* P->run returned false: nothing is invalidated and nothing verified.
FinishUnchanged ==
  /\ phase = "inPass"
  /\ FALSE \in MayReturn(Current, edits)
  /\ changed' = Accumulated(FALSE)
  /\ phase' = "between"
  /\ held' = {}
  /\ edits' = {}
  /\ UNCHANGED <<setup, fn, pc, cache, stale, moduleChanged, ir, rejected>>

\* if (VerifyEach) and !V.verifyFunction(F).
MustReject == verifyEach /\ ~valid[fn]

\* P->run returned true and verification was not asked for or succeeded.
FinishChanged ==
  /\ phase = "inPass"
  /\ TRUE \in MayReturn(Current, edits)
  /\ ~MustReject
  /\ Invalidate
  /\ changed' = Accumulated(TRUE)
  /\ phase' = "between"
  /\ held' = {}
  /\ edits' = {}
  /\ UNCHANGED <<setup, fn, pc, moduleChanged, ir, rejected>>

\* Mutant: the error is reported and the loop over the passes goes on.
AfterRejectionContinue == "between"

\* "return false" leaves the loop over the passes of this function only.
AfterRejection == "module"

\* P->run returned true and verification failed: run(F) returns false, so
\* run(M) learns nothing of what earlier passes changed.
FinishRejected ==
  /\ phase = "inPass"
  /\ TRUE \in MayReturn(Current, edits)
  /\ MustReject
  /\ Invalidate
  /\ changed' = Accumulated(TRUE)
  /\ rejected' = rejected \cup {fn}
  /\ phase' = AfterRejection
  /\ held' = {}
  /\ edits' = {}
  /\ UNCHANGED <<setup, fn, pc, moduleChanged, ir>>

\* run(F) returns Changed and run(M) accumulates it.
FinishFunction ==
  /\ phase = "between"
  /\ pc = Len(passes)
  /\ moduleChanged' = (moduleChanged \/ changed)
  /\ phase' = "module"
  /\ UNCHANGED <<setup, fn, pc, manager, edits, changed, ir, rejected>>

\* run(M) returns.
FinishModule ==
  /\ phase = "module"
  /\ ~MoreFunctions
  /\ phase' = "done"
  /\ UNCHANGED <<setup, fn, pc, manager, edits, changed, moduleChanged, ir,
                 rejected>>

Next ==
  \/ StartFunction
  \/ StartPass
  \/ \E kinds \in SUBSET Kind : Edit(kinds)
  \/ FinishUnchanged
  \/ FinishChanged
  \/ FinishRejected
  \/ FinishFunction
  \/ FinishModule

Spec == Init /\ [][Next]_pmVars

-----------------------------------------------------------------------------
(* Properties.                                                             *)

TypeOK ==
  /\ passes \in Pipelines
  /\ verifyEach \in BOOLEAN
  /\ phase \in {"module", "between", "inPass", "done"}
  /\ fn \in 0..NumFunctions
  /\ pc \in 0..Len(passes)
  /\ cache \in [Analysis -> 0..NumFunctions]
  /\ stale \subseteq Analysis
  /\ held \subseteq Analysis
  /\ edits \subseteq Kind
  /\ changed \in BOOLEAN
  /\ moduleChanged \in BOOLEAN
  /\ valid \in [Function -> BOOLEAN]
  /\ modified \in [Function -> BOOLEAN]
  /\ rejected \subseteq Function

\* The analysis a pass works with describes the function it works on, as that
\* function is now: it was not cached for another function, no earlier pass
\* outdated it unnoticed, and the pass itself does not edit what it was
\* computed from while it still reads it.
HeldAnalysesFresh ==
  \A a \in held : cache[a] = fn /\ a \notin stale

\* Between two passes every cached analysis is up to date, whether or not a
\* later pass will ask for it: edits are reported, and the masks made of the
\* preserves flags cover the edits.
CacheCoherent ==
  phase = "between" =>
    \A a \in Analysis : cache[a] # Absent => cache[a] = fn /\ a \notin stale

\* With --verify-each no pass starts on a function that an earlier pass left
\* broken, however long before.
PassesSeeVerifiedIR ==
  verifyEach /\ phase = "between" /\ modified[fn] => valid[fn]

\* A function whose verification failed is left exactly as it was found: no
\* later pass edits, repairs or hides it.
RejectedKept == \A f \in rejected : f \in rejected' /\ valid'[f] = valid[f]
RejectedUntouched == [][RejectedKept]_pmVars

\* When no function was rejected, "no changes" is the truth: an edit of any
\* function by any pass reaches the result of run(M).
EditsReported ==
  phase = "done" /\ rejected = {} /\ ~moduleChanged =>
    \A f \in Function : ~modified[f]
=============================================================================
