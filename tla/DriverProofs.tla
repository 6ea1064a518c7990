---------------------------- MODULE DriverProofs ----------------------------
(***************************************************************************)
(* Proofs about the pass manager and the driver, for every module, every   *)
(* pipeline made of the eight passes and every set of options.             *)
(*                                                                         *)
(* The pass manager: only SimplifyCFG edits what the analyses read, it     *)
(* says so (PreservesCFG is false and its run returns true), and it holds  *)
(* no analysis itself.  Hence an analysis is stale at most between the     *)
(* edit and the end of a SimplifyCFG run, and nobody looks at it there.    *)
(*                                                                         *)
(* The driver: an error, a rejected function and, with --verify, an        *)
(* invalid function each keep the compilation from writing a file.  The    *)
(* pass manager's invariant is carried over: until the passes run, the     *)
(* manager is in an initial state, whatever IR is generated meanwhile.     *)
(***************************************************************************)
EXTENDS Driver, TLAPS

-----------------------------------------------------------------------------
(* The pass manager.                                                       *)

InProgress(f) == phase \in {"between", "inPass"} /\ f = fn

\* Every cached analysis is of the current function; what is stale is cached
\* and read something the running pass has edited.
CacheOK ==
  /\ phase \in {"between", "inPass"} =>
       \A a \in Analysis : cache[a] \in {Absent, fn}
  /\ phase = "between" => stale = {}
  /\ phase = "inPass" =>
       \A a \in stale : ReadsOf(a) \cap edits # {}

\* What a running pass holds and edits is what that pass gets and may edit.
PassOK ==
  /\ phase = "inPass" =>
       /\ pc \in 1..Len(passes)
       /\ held = Gets(Current)
       /\ \A a \in held : cache[a] = fn
       /\ edits \subseteq MayEdit(Current)
  /\ phase # "inPass" => held = {} /\ edits = {}
  /\ phase \in {"between", "inPass"} => fn \in Function

\* With verification on, a function is broken only as generated, by the pass
\* that is running, or for good.
VerifiedOK ==
  /\ verifyEach /\ phase \in {"between", "inPass"} /\ modified[fn]
       /\ edits = {} => valid[fn]
  /\ \A f \in rejected : ~valid[f] /\ verifyEach

\* Functions not reached yet are untouched, and those rejected are behind.
ProgressOK ==
  /\ \A f \in Function : f > fn => ~modified[f]
  /\ \A f \in rejected : f <= fn /\ ~InProgress(f)

\* Every edit is on its way to the result of run(M) or its function was
\* rejected.
ReportOK ==
  \A f \in Function : modified[f] =>
    \/ moduleChanged
    \/ f \in rejected
    \/ InProgress(f) /\ (changed \/ edits # {})

IInv == TypeOK /\ CacheOK /\ PassOK /\ VerifiedOK /\ ProgressOK /\ ReportOK

-----------------------------------------------------------------------------
\* A pass that edits something says so.
LEMMA EditsAreReturned ==
  ASSUME NEW p, NEW e, FALSE \in MayReturn(p, e)
  PROVE  e = {}
  BY DEF MayReturn

\* Whatever a pass edits that an analysis reads, the mask of that pass drops
\* the analysis.
LEMMA MaskCovers ==
  ASSUME NEW p \in Pass, NEW a \in Analysis, ReadsOf(a) \cap MayEdit(p) # {}
  PROVE  a \in Dropped(p)
  BY DEF ReadsOf, MayEdit, Dropped, InvalidatedBy, InvalidMask, PreservesCFG,
         PreservesInstructions, Pass, Analysis, Kind

\* No pass edits what the analyses it holds were computed from.
LEMMA HeldNotEdited ==
  ASSUME NEW p \in Pass, NEW a \in Gets(p)
  PROVE  ReadsOf(a) \cap MayEdit(p) = {}
  BY DEF ReadsOf, MayEdit, Gets, Pass, Kind

LEMMA GetsType == \A p \in Pass : Gets(p) \subseteq Analysis
  BY DEF Gets, Pass, Analysis

LEMMA PassesType ==
  ASSUME TypeOK, NEW i \in 1..Len(passes)
  PROVE  passes[i] \in Pass
  BY PipelinesAssumption DEF TypeOK

LEMMA InitInv == Init => IInv
  <1> SUFFICES ASSUME Init PROVE IInv
    OBVIOUS
  <1>1. TypeOK
    <2>1. cache \in [Analysis -> 0..NumFunctions]
      BY NumFunctionsAssumption DEF Init, Absent
    <2>2. pc \in 0..Len(passes) /\ fn \in 0..NumFunctions
      BY NumFunctionsAssumption, PipelinesAssumption DEF Init
    <2>3. modified \in [Function -> BOOLEAN]
      BY DEF Init
    <2> QED BY <2>1, <2>2, <2>3 DEF Init, TypeOK
  <1>2. CacheOK /\ PassOK
    BY DEF Init, CacheOK, PassOK, Absent
  <1>3. VerifiedOK /\ ProgressOK /\ ReportOK
    BY DEF Init, VerifiedOK, ProgressOK, ReportOK, Function
  <1> QED BY <1>1, <1>2, <1>3 DEF IInv

LEMMA StutterInv == IInv /\ UNCHANGED pmVars => IInv'
  BY DEF IInv, TypeOK, CacheOK, PassOK, VerifiedOK, ProgressOK, ReportOK,
         InProgress, Current, pmVars

LEMMA StartFunctionInv == IInv /\ StartFunction => IInv'
  <1> SUFFICES ASSUME IInv, StartFunction PROVE IInv'
    OBVIOUS
  <1> USE DEF IInv, StartFunction, setup, ir
  <1>1. /\ phase = "module" /\ phase' = "between" /\ fn' = fn + 1
        /\ fn < NumFunctions /\ fn \in 0..NumFunctions
    BY DEF MoreFunctions, TypeOK
  <1>2. fn' \in Function /\ fn' \in 0..NumFunctions
    BY <1>1, NumFunctionsAssumption DEF Function
  <1>3. stale' = {} /\ \A a \in Analysis : cache'[a] = Absent
    BY DEF FreshAnalyses, TypeOK
  <1>4. TypeOK'
    <2>1. cache' \in [Analysis -> 0..NumFunctions]
      BY NumFunctionsAssumption DEF FreshAnalyses, Absent
    <2>2. pc' \in 0..Len(passes')
      BY PipelinesAssumption DEF TypeOK
    <2> QED BY <1>1, <1>2, <1>3, <2>1, <2>2 DEF TypeOK
  <1>5. CacheOK'
    BY <1>1, <1>3 DEF CacheOK
  <1>6. PassOK'
    BY <1>1, <1>2 DEF PassOK
  <1>7. VerifiedOK'
    <2>1. ~modified[fn']
      BY <1>1, <1>2 DEF ProgressOK, Function
    <2> QED BY <1>1, <2>1 DEF VerifiedOK
  <1>8. ProgressOK'
    BY <1>1, NumFunctionsAssumption DEF ProgressOK, InProgress, Function, TypeOK
  <1>9. ReportOK'
    BY <1>1 DEF ReportOK, InProgress
  <1> QED BY <1>4, <1>5, <1>6, <1>7, <1>8, <1>9

LEMMA StartPassInv == IInv /\ StartPass => IInv'
  <1> SUFFICES ASSUME IInv, StartPass PROVE IInv'
    OBVIOUS
  <1> USE DEF IInv, StartPass, setup, ir
  <1> DEFINE p == passes[pc + 1]
  <1>1. pc + 1 \in 1..Len(passes) /\ pc + 1 \in 0..Len(passes) /\ p \in Pass
    BY PipelinesAssumption, PassesType DEF TypeOK
  <1>2. Gets(p) \subseteq Analysis
    BY <1>1, GetsType
  <1>3. phase = "between" /\ phase' = "inPass" /\ fn \in Function
    BY DEF PassOK
  <1>4. \A a \in Analysis : cache'[a] \in {Absent, fn}
    BY <1>3 DEF CacheOK, TypeOK
  <1>5. \A a \in Gets(p) : cache'[a] = fn
    BY <1>2, <1>3 DEF CacheOK, TypeOK
  <1>6. TypeOK'
    <2>1. cache' \in [Analysis -> 0..NumFunctions]
      BY <1>4 DEF TypeOK, Absent
    <2> QED BY <1>1, <1>2, <2>1 DEF TypeOK
  <1>7. CacheOK'
    BY <1>3, <1>4 DEF CacheOK
  <1>8. PassOK'
    BY <1>1, <1>3, <1>5 DEF PassOK, Current
  <1>9. VerifiedOK'
    BY <1>3 DEF VerifiedOK, PassOK
  <1>10. ProgressOK' /\ ReportOK'
    BY <1>3 DEF ProgressOK, ReportOK, InProgress, PassOK
  <1> QED BY <1>6, <1>7, <1>8, <1>9, <1>10

LEMMA EditInv ==
  ASSUME IInv, NEW kinds \in SUBSET Kind, Edit(kinds)
  PROVE  IInv'
  <1> USE DEF IInv, Edit, setup
  <1>1. /\ phase = "inPass" /\ phase' = "inPass" /\ fn \in Function
        /\ pc \in 1..Len(passes) /\ held = Gets(Current) /\ edits = {}
        /\ Current' = Current /\ fn' = fn /\ edits' = kinds /\ kinds # {}
    BY DEF PassOK, Current
  <1>2. Current \in Pass
    BY <1>1, PassesType DEF Current
  <1>3. stale = {}
    BY <1>1 DEF CacheOK
  <1>4. \A a \in stale' : ReadsOf(a) \cap edits' # {}
    BY <1>1, <1>3
  <1>5. PICK ok \in BOOLEAN : valid' = [valid EXCEPT ![fn] = ok]
    OBVIOUS
  <1>6. TypeOK'
    BY <1>1, <1>5 DEF TypeOK
  <1>7. CacheOK'
    BY <1>1, <1>4 DEF CacheOK
  <1>8. PassOK'
    BY <1>1 DEF PassOK
  <1>9. \A f \in rejected : f # fn /\ f \in Function
    BY <1>1 DEF ProgressOK, InProgress, TypeOK
  <1>10. VerifiedOK'
    BY <1>1, <1>5, <1>9 DEF VerifiedOK, TypeOK
  <1>11. ProgressOK'
    BY <1>1 DEF ProgressOK, InProgress, TypeOK, Function
  <1>12. ReportOK'
    BY <1>1 DEF ReportOK, InProgress, TypeOK
  <1> QED BY <1>6, <1>7, <1>8, <1>10, <1>11, <1>12

\* After AM.invalidate nothing stale is left: what the pass edited, its mask
\* covers.
LEMMA InvalidateCleans ==
  ASSUME IInv, phase = "inPass", Invalidate
  PROVE  /\ stale' = {}
         /\ cache' \in [Analysis -> 0..NumFunctions]
         /\ \A a \in Analysis : cache'[a] \in {Absent, fn}
  <1> USE DEF IInv
  <1>1. Current \in Pass
    BY PassesType DEF PassOK, Current
  <1>2. ASSUME NEW a \in stale PROVE a \in Dropped(Current)
    <2>1. a \in Analysis /\ ReadsOf(a) \cap MayEdit(Current) # {}
      BY DEF CacheOK, PassOK, TypeOK
    <2> QED BY <1>1, <2>1, MaskCovers
  <1>3. stale' = {}
    BY <1>2 DEF Invalidate
  <1>4. \A a \in Analysis : cache'[a] \in {Absent, fn} /\ cache'[a] \in 0..NumFunctions
    BY NumFunctionsAssumption DEF Invalidate, CacheOK, TypeOK, Absent
  <1>5. cache' \in [Analysis -> 0..NumFunctions]
    BY <1>4 DEF Invalidate
  <1> QED BY <1>3, <1>4, <1>5

LEMMA FinishUnchangedInv == IInv /\ FinishUnchanged => IInv'
  <1> SUFFICES ASSUME IInv, FinishUnchanged PROVE IInv'
    OBVIOUS
  <1> USE DEF IInv, FinishUnchanged, setup, ir
  <1>1. /\ phase = "inPass" /\ phase' = "between" /\ edits = {} /\ edits' = {}
        /\ changed' = changed /\ fn \in Function
    BY EditsAreReturned DEF PassOK, Accumulated, TypeOK
  <1>2. stale = {}
    BY <1>1 DEF CacheOK
  <1>3. TypeOK'
    BY <1>1 DEF TypeOK
  <1>4. CacheOK' /\ PassOK'
    BY <1>1, <1>2 DEF CacheOK, PassOK
  <1>5. VerifiedOK'
    BY <1>1 DEF VerifiedOK
  <1>6. ProgressOK'
    BY <1>1 DEF ProgressOK, InProgress
  <1>7. ReportOK'
    <2>1. /\ modified' = modified /\ moduleChanged' = moduleChanged
          /\ rejected' = rejected /\ fn' = fn
      OBVIOUS
    <2>2. ASSUME NEW f \in Function, modified[f]
          PROVE  moduleChanged \/ f \in rejected \/ (f = fn /\ changed)
      BY <1>1, <2>2 DEF ReportOK, InProgress
    <2>3. ASSUME NEW f \in Function, modified'[f]
          PROVE  \/ moduleChanged' \/ f \in rejected'
                 \/ InProgress(f)' /\ (changed' \/ edits' # {})
      <3>1. modified[f]
        BY <2>1, <2>3
      <3>2. InProgress(f)' <=> f = fn
        BY <1>1, <2>1 DEF InProgress
      <3>3. moduleChanged \/ f \in rejected \/ (f = fn /\ changed)
        BY <2>2, <3>1
      <3>4. CASE f = fn /\ changed
        <4>1. changed = TRUE
          BY <3>4 DEF TypeOK
        <4>2. changed' = TRUE
          BY <1>1, <4>1
        <4> QED BY <3>2, <3>4, <4>2
      <3>5. CASE moduleChanged
        <4>1. moduleChanged = TRUE
          BY <3>5 DEF TypeOK
        <4> QED BY <2>1, <4>1
      <3>6. CASE f \in rejected
        BY <2>1, <3>6
      <3> QED BY <3>3, <3>4, <3>5, <3>6
    <2> QED BY <2>3 DEF ReportOK
  <1> QED BY <1>3, <1>4, <1>5, <1>6, <1>7

LEMMA FinishChangedInv == IInv /\ FinishChanged => IInv'
  <1> SUFFICES ASSUME IInv, FinishChanged PROVE IInv'
    OBVIOUS
  <1> USE DEF IInv, FinishChanged, setup, ir
  <1>1. /\ phase = "inPass" /\ phase' = "between" /\ edits' = {}
        /\ changed' = TRUE /\ fn \in Function
    BY DEF PassOK, Accumulated
  <1>2. /\ stale' = {} /\ cache' \in [Analysis -> 0..NumFunctions]
        /\ \A a \in Analysis : cache'[a] \in {Absent, fn}
    BY <1>1, InvalidateCleans
  <1>3. TypeOK'
    BY <1>1, <1>2 DEF TypeOK
  <1>4. CacheOK' /\ PassOK'
    BY <1>1, <1>2 DEF CacheOK, PassOK
  <1>5. VerifiedOK'
    BY <1>1 DEF VerifiedOK, MustReject
  <1>6. ProgressOK' /\ ReportOK'
    BY <1>1 DEF ProgressOK, ReportOK, InProgress
  <1> QED BY <1>3, <1>4, <1>5, <1>6

LEMMA FinishRejectedInv == IInv /\ FinishRejected => IInv'
  <1> SUFFICES ASSUME IInv, FinishRejected PROVE IInv'
    OBVIOUS
  <1> USE DEF IInv, FinishRejected, setup, ir
  <1>1. /\ phase = "inPass" /\ phase' = "module" /\ edits' = {}
        /\ fn \in Function /\ verifyEach /\ ~valid[fn] /\ changed' = TRUE
    BY DEF PassOK, AfterRejection, MustReject, Accumulated
  <1>2. stale' = {} /\ cache' \in [Analysis -> 0..NumFunctions]
    BY <1>1, InvalidateCleans
  <1>3. TypeOK'
    BY <1>1, <1>2 DEF TypeOK
  <1>4. CacheOK' /\ PassOK'
    BY <1>1, <1>2 DEF CacheOK, PassOK
  <1>5. VerifiedOK'
    BY <1>1 DEF VerifiedOK
  <1>6. ProgressOK'
    BY <1>1 DEF ProgressOK, InProgress, TypeOK, Function
  <1>7. ReportOK'
    BY <1>1 DEF ReportOK, InProgress
  <1> QED BY <1>3, <1>4, <1>5, <1>6, <1>7

LEMMA FinishFunctionInv == IInv /\ FinishFunction => IInv'
  <1> SUFFICES ASSUME IInv, FinishFunction PROVE IInv'
    OBVIOUS
  <1> USE DEF IInv, FinishFunction, setup, ir, manager
  <1>1. /\ phase = "between" /\ phase' = "module" /\ edits = {}
        /\ moduleChanged' = (moduleChanged \/ changed)
    BY DEF PassOK
  <1>2. TypeOK'
    BY <1>1 DEF TypeOK
  <1>3. CacheOK' /\ PassOK' /\ VerifiedOK' /\ ProgressOK'
    BY <1>1 DEF CacheOK, PassOK, VerifiedOK, ProgressOK, InProgress
  <1>4. ReportOK'
    BY <1>1 DEF ReportOK, InProgress
  <1> QED BY <1>2, <1>3, <1>4

LEMMA FinishModuleInv == IInv /\ FinishModule => IInv'
  BY DEF FinishModule, setup, ir, manager, IInv, TypeOK, CacheOK, PassOK,
         VerifiedOK, ProgressOK, ReportOK, InProgress

LEMMA NextInv == IInv /\ [Next]_pmVars => IInv'
  BY StutterInv, StartFunctionInv, StartPassInv, EditInv, FinishUnchangedInv,
     FinishChangedInv, FinishRejectedInv, FinishFunctionInv, FinishModuleInv
  DEF Next

-----------------------------------------------------------------------------
\* The pass manager's invariant holds in every run.
THEOREM ManagerInvariant == Spec => []IInv
  BY InitInv, NextInv, PTL DEF Spec

\* Every variable has its type.
THEOREM ManagerTypeCorrect == Spec => []TypeOK
  <1>1. IInv => TypeOK BY DEF IInv
  <1> QED BY <1>1, ManagerInvariant, PTL

\* No pass ever works with an outdated analysis or one of another function.
THEOREM AnalysesFresh == Spec => []HeldAnalysesFresh
  <1>1. IInv => HeldAnalysesFresh
    <2> SUFFICES ASSUME IInv, NEW a \in held
                 PROVE  cache[a] = fn /\ a \notin stale
      BY DEF HeldAnalysesFresh
    <2> USE DEF IInv
    <2>1. phase = "inPass" /\ a \in Gets(Current) /\ cache[a] = fn
      BY DEF PassOK
    <2>2. ReadsOf(a) \cap MayEdit(Current) = {}
      BY <2>1, PassesType, HeldNotEdited DEF PassOK, Current
    <2>3. a \notin stale
      BY <2>1, <2>2 DEF CacheOK, PassOK
    <2> QED BY <2>1, <2>3
  <1> QED BY <1>1, ManagerInvariant, PTL

\* Between passes the whole cache is up to date.
THEOREM CacheAlwaysCoherent == Spec => []CacheCoherent
  <1>1. IInv => CacheCoherent
    BY DEF IInv, CacheOK, CacheCoherent, TypeOK
  <1> QED BY <1>1, ManagerInvariant, PTL

\* With --verify-each, a function some pass has edited is one the verifier
\* accepts whenever the next pass starts.
THEOREM VerifyEachKeepsPromise == Spec => []PassesSeeVerifiedIR
  <1>1. IInv => PassesSeeVerifiedIR
    BY DEF IInv, VerifiedOK, PassOK, PassesSeeVerifiedIR
  <1> QED BY <1>1, ManagerInvariant, PTL

\* If nothing was rejected, an edit of any function reaches the result.
THEOREM EditsAlwaysReported == Spec => []EditsReported
  <1>1. IInv => EditsReported
    BY DEF IInv, ReportOK, InProgress, EditsReported
  <1> QED BY <1>1, ManagerInvariant, PTL

\* A rejected function is never touched again.
THEOREM RejectedStaysUntouched == Spec => RejectedUntouched
  <1>1. IInv /\ [Next]_pmVars => [RejectedKept]_pmVars
    <2> SUFFICES ASSUME IInv, Next, NEW f \in rejected
                 PROVE  f \in rejected' /\ valid'[f] = valid[f]
      BY DEF RejectedKept
    <2>1. ASSUME NEW kinds \in SUBSET Kind, Edit(kinds)
          PROVE  f \in rejected' /\ valid'[f] = valid[f]
      BY <2>1 DEF Edit, IInv, ProgressOK, InProgress, TypeOK
    <2>2. CASE ~\E kinds \in SUBSET Kind : Edit(kinds)
      BY <2>2 DEF Next, StartFunction, StartPass, FinishUnchanged,
                  FinishChanged, FinishRejected, FinishFunction, FinishModule,
                  ir
    <2> QED BY <2>1, <2>2
  <1> QED BY <1>1, ManagerInvariant, PTL DEF Spec, RejectedUntouched

-----------------------------------------------------------------------------
(* The driver.                                                             *)

BeforePasses == {"arguments", "lex", "parse", "sema", "generate",
                 "verifyGenerated", "optimize"}
Emission == {"emitIR", "emitAsm", "summary"}

StageOK ==
  /\ stage \in Stage
  /\ opts \in Options
  /\ file \in [Output \cup {"named"} -> Output \cup {"nothing"}]
  /\ stage \in BeforePasses => Init
  /\ verifyEach => opts.verifyEach
  /\ exitCode \in {Running, 0, 1}
  /\ stage # "exit" => exitCode = Running

\* Emission is reached through a verification, if one is asked for.
VerdictOK ==
  /\ stage = "optimize" /\ opts.level = 0 /\ VerifyIR => AllValid
  /\ stage \in Emission /\ VerifyIR => AllValid
  /\ exitCode = 0 /\ VerifyIR => AllValid \/ rejected = {}

WrittenOK ==
  /\ Written => stage \in {"emitAsm", "summary", "exit"}
  /\ Written /\ VerifyIR => AllValid

ErrorsOK == errors => stage = "exit" /\ exitCode = 1 /\ ~Written

DInv == IInv /\ StageOK /\ VerdictOK /\ WrittenOK /\ ErrorsOK

-----------------------------------------------------------------------------
LEMMA DriverInitInv == DriverInit => DInv
  <1> SUFFICES ASSUME DriverInit PROVE DInv
    OBVIOUS
  <1>1. IInv
    BY InitInv DEF DriverInit
  <1>2. ~Written
    BY DEF DriverInit, Written, Output
  <1>3. StageOK
    BY DriverPipelinesAssumption DEF DriverInit, StageOK, Stage, Output
  <1>4. VerdictOK /\ WrittenOK /\ ErrorsOK
    BY <1>2 DEF DriverInit, VerdictOK, WrittenOK, ErrorsOK, Emission, Running
  <1> QED BY <1>1, <1>3, <1>4 DEF DInv

\* A step that leaves the pass manager, the IR and the files alone.
LEMMA QuietStepKeeps ==
  ASSUME DInv, UNCHANGED <<pmVars, opts, file>>
  PROVE  /\ IInv' /\ (Init <=> Init') /\ (Written <=> Written')
         /\ (AllValid <=> AllValid') /\ (VerifyIR <=> VerifyIR')
         /\ (verifyEach <=> verifyEach') /\ rejected' = rejected
  <1>1. IInv'
    BY StutterInv DEF DInv
  <1>2. Init <=> Init'
    BY DEF Init, pmVars
  <1>3. (Written <=> Written') /\ (VerifyIR <=> VerifyIR')
    BY DEF Written, VerifyIR
  <1>4. /\ (AllValid <=> AllValid') /\ (verifyEach <=> verifyEach')
        /\ rejected' = rejected
    BY DEF AllValid, pmVars
  <1> QED BY <1>1, <1>2, <1>3, <1>4

LEMMA FrontEndInv ==
  ASSUME DInv, NEW now, NEW next, NEW found \in BOOLEAN,
         <<now, next>> \in {<<"lex", "parse">>, <<"parse", "sema">>,
                            <<"sema", "generate">>},
         FrontEndStage(now, next, found)
  PROVE  DInv'
  <1> USE DEF DInv, FrontEndStage, Goto, Return, MustStop
  <1>1. /\ now \in BeforePasses \ {"optimize"} /\ next \in BeforePasses
        /\ next \in Stage \ {"optimize", "exit", "emitAsm", "summary"}
        /\ next \notin Emission /\ "exit" \notin Emission
        /\ "exit" \notin BeforePasses /\ "exit" \in Stage
    BY DEF BeforePasses, Stage, Emission
  <1>2. /\ IInv' /\ (Init <=> Init') /\ (Written <=> Written')
        /\ (AllValid <=> AllValid') /\ (VerifyIR <=> VerifyIR')
        /\ (verifyEach <=> verifyEach')
    BY QuietStepKeeps DEF FrontEndStage
  <1>3. stage \in BeforePasses /\ ~Written /\ exitCode = Running /\ ~errors
    BY <1>1 DEF StageOK, WrittenOK, ErrorsOK, BeforePasses
  <1>4. StageOK'
    BY <1>1, <1>2, <1>3 DEF StageOK
  <1>5. VerdictOK'
    BY <1>1, <1>2, <1>3 DEF VerdictOK, Running
  <1>6. WrittenOK' /\ ErrorsOK'
    BY <1>1, <1>2, <1>3 DEF WrittenOK, ErrorsOK
  <1> QED BY <1>2, <1>4, <1>5, <1>6

\* The stages that decide something and write nothing.
Deciding == RejectArguments \/ OpenInput \/ VerifyGenerated \/ SkipOptimization
              \/ ReportPasses \/ VerifyOptimized \/ Summarize

LEMMA DecidingInv == DInv /\ Deciding => DInv'
  <1> SUFFICES ASSUME DInv, Deciding PROVE DInv'
    OBVIOUS
  <1> USE DEF Goto, Return
  <1>1. UNCHANGED <<pmVars, opts, file>> /\ errors' = errors
    BY DEF Deciding, RejectArguments, OpenInput, VerifyGenerated,
           SkipOptimization, ReportPasses, VerifyOptimized, Summarize
  <1>2. /\ IInv' /\ (Init <=> Init') /\ (Written <=> Written')
        /\ (AllValid <=> AllValid') /\ (VerifyIR <=> VerifyIR')
        /\ (verifyEach <=> verifyEach') /\ rejected' = rejected
    BY <1>1, QuietStepKeeps
  <1>3. stage # "exit" /\ exitCode = Running /\ ~errors /\ ~errors'
    BY <1>1 DEF Deciding, RejectArguments, OpenInput, VerifyGenerated,
           SkipOptimization, ReportPasses, VerifyOptimized, Summarize, DInv,
           StageOK, ErrorsOK
  <1>4. StageOK'
    BY <1>1, <1>2, <1>3
    DEF Deciding, RejectArguments, OpenInput, VerifyGenerated,
        SkipOptimization, ReportPasses, VerifyOptimized, Summarize, DInv,
        StageOK, Stage, BeforePasses
  <1>5. VerdictOK'
    <2>1. stage = "arguments" => rejected = {}
      BY DEF DInv, StageOK, BeforePasses, Init
    <2> QED BY <1>1, <1>2, <1>3, <2>1
        DEF Deciding, RejectArguments, OpenInput, VerifyGenerated,
            SkipOptimization, ReportPasses, VerifyOptimized, Summarize, DInv,
            VerdictOK, Emission, MustVerifyOptimized, Running
  <1>6. WrittenOK'
    BY <1>1, <1>2
    DEF Deciding, RejectArguments, OpenInput, VerifyGenerated,
        SkipOptimization, ReportPasses, VerifyOptimized, Summarize, DInv,
        WrittenOK
  <1>7. ErrorsOK'
    BY <1>3 DEF ErrorsOK
  <1> QED BY <1>2, <1>4, <1>5, <1>6, <1>7 DEF DInv

LEMMA GenerateInv == DInv /\ GenerateIR => DInv'
  <1> SUFFICES ASSUME DInv, GenerateIR PROVE DInv'
    OBVIOUS
  <1> USE DEF DInv, GenerateIR, Goto
  <1>1. stage = "generate" /\ stage' = "verifyGenerated" /\ Init
    BY DEF StageOK, BeforePasses
  <1>2. Init'
    BY <1>1 DEF Init, setup, manager
  <1>3. IInv'
    BY <1>2, InitInv, PTL
  <1>4. ~Written /\ (Written <=> Written') /\ exitCode' = Running /\ ~errors'
    BY <1>1 DEF WrittenOK, Written, StageOK, ErrorsOK
  <1>5. StageOK'
    BY <1>1, <1>2 DEF StageOK, Stage, setup
  <1>6. VerdictOK' /\ WrittenOK' /\ ErrorsOK'
    BY <1>1, <1>4 DEF VerdictOK, WrittenOK, ErrorsOK, Emission, Running
  <1> QED BY <1>3, <1>5, <1>6

LEMMA ConfigureInv == DInv /\ ConfigurePasses => DInv'
  <1> SUFFICES ASSUME DInv, ConfigurePasses PROVE DInv'
    OBVIOUS
  <1> USE DEF DInv, ConfigurePasses, Goto
  <1>1. stage = "optimize" /\ stage' = "passes" /\ Init
    BY DEF StageOK, BeforePasses
  <1>2. passes' \in Pipelines /\ verifyEach' \in BOOLEAN
    <2>1. opts.level \in 1..3 /\ opts.verifyEach \in BOOLEAN
      BY OptionsAssumption DEF StageOK, Option
    <2> QED BY <2>1, DriverPipelinesAssumption
  <1>3. Init'
    BY <1>1, <1>2 DEF Init, manager, ir
  <1>4. IInv'
    BY <1>3, InitInv, PTL
  <1>5. ~Written /\ (Written <=> Written') /\ exitCode' = Running /\ ~errors'
    BY <1>1 DEF WrittenOK, Written, StageOK, ErrorsOK
  <1>6. StageOK'
    BY <1>1, <1>5 DEF StageOK, Stage, BeforePasses
  <1>7. VerdictOK' /\ WrittenOK' /\ ErrorsOK'
    BY <1>1, <1>5 DEF VerdictOK, WrittenOK, ErrorsOK, Emission, Running
  <1> QED BY <1>4, <1>6, <1>7

LEMMA RunPassesInv == DInv /\ RunPasses => DInv'
  <1> SUFFICES ASSUME DInv, RunPasses PROVE DInv'
    OBVIOUS
  <1> USE DEF DInv, RunPasses, driverVars
  <1>1. IInv'
    BY NextInv
  <1>2. stage = "passes" /\ stage' = "passes"
    OBVIOUS
  <1>3. ~Written /\ (Written <=> Written') /\ exitCode' = Running /\ ~errors'
    BY <1>2 DEF WrittenOK, Written, StageOK, ErrorsOK
  <1>4. verifyEach' = verifyEach
    BY DEF Next, StartFunction, StartPass, Edit, FinishUnchanged,
           FinishChanged, FinishRejected, FinishFunction, FinishModule, setup
  <1>5. StageOK'
    BY <1>2, <1>3, <1>4 DEF StageOK, BeforePasses
  <1>6. VerdictOK' /\ WrittenOK' /\ ErrorsOK'
    BY <1>2, <1>3 DEF VerdictOK, WrittenOK, ErrorsOK, Emission, Running
  <1> QED BY <1>1, <1>5, <1>6

LEMMA EmitInv == DInv /\ (EmitIR \/ EmitAsm) => DInv'
  <1> SUFFICES ASSUME DInv, EmitIR \/ EmitAsm PROVE DInv'
    OBVIOUS
  <1> USE DEF DInv, EmitIR, EmitAsm, WriteOutput, Goto, Return
  <1>1. /\ stage \in {"emitIR", "emitAsm"}
        /\ stage' \in {"emitAsm", "summary", "exit"}
        /\ UNCHANGED <<pmVars, opts, errors>>
        /\ IF stage' = "exit" THEN exitCode' = 1 ELSE exitCode' = exitCode
    OBVIOUS
  <1>2. file' \in [Output \cup {"named"} -> Output \cup {"nothing"}]
    BY DEF StageOK, Output
  <1>3. IInv' /\ (AllValid <=> AllValid') /\ (VerifyIR <=> VerifyIR')
    BY <1>1, StutterInv DEF AllValid, VerifyIR, pmVars
  <1>4. VerifyIR => AllValid
    BY <1>1 DEF VerdictOK, Emission
  <1>5. exitCode = Running /\ ~errors'
    BY <1>1 DEF StageOK, ErrorsOK
  <1>6. StageOK'
    BY <1>1, <1>2, <1>5 DEF StageOK, Stage, BeforePasses, pmVars
  <1>7. VerdictOK'
    BY <1>1, <1>3, <1>4, <1>5 DEF VerdictOK, Emission, Running
  <1>8. WrittenOK' /\ ErrorsOK'
    BY <1>1, <1>3, <1>4, <1>5 DEF WrittenOK, ErrorsOK
  <1> QED BY <1>3, <1>6, <1>7, <1>8

LEMMA DriverNextInv == DInv /\ [DriverNext]_vars => DInv'
  <1> SUFFICES ASSUME DInv, [DriverNext]_vars PROVE DInv'
    OBVIOUS
  <1>1. CASE \E found \in BOOLEAN :
               Lex(found) \/ ParseTokens(found) \/ Analyze(found)
    BY <1>1, FrontEndInv DEF Lex, ParseTokens, Analyze
  <1>2. CASE Deciding
    BY <1>2, DecidingInv
  <1>3. CASE UNCHANGED vars
    <2>1. UNCHANGED <<pmVars, opts, file>>
      BY <1>3 DEF vars, driverVars
    <2> QED BY <1>3, <2>1, QuietStepKeeps
        DEF vars, driverVars, DInv, StageOK, VerdictOK, WrittenOK, ErrorsOK
  <1>4. CASE GenerateIR \/ ConfigurePasses \/ RunPasses \/ EmitIR \/ EmitAsm
    BY <1>4, GenerateInv, ConfigureInv, RunPassesInv, EmitInv
  <1> QED BY <1>1, <1>2, <1>3, <1>4 DEF DriverNext, Deciding

-----------------------------------------------------------------------------
(* What has been announced.                                                *)

\* The IR is written before the assembly.
ClaimOK ==
  /\ errors \in BOOLEAN
  /\ claimed \subseteq Output
  /\ stage \in BeforePasses \cup {"passes", "verifyOptimized", "emitIR"} => claimed = {}
  /\ stage = "emitAsm" => claimed \subseteq {"ir"}
  /\ ClaimedOutputsKept

LEMMA ClaimInitOK == DriverInit => ClaimOK
  BY DEF DriverInit, ClaimOK, ClaimedOutputsKept

\* Writing an output replaces at most the other one.
LEMMA WriteKeepsClaims ==
  ASSUME DInv, ClaimOK, NEW out \in Output, NEW next, WriteOutput(out, next),
         claimed \subseteq Output \ {out}, opts' = opts
  PROVE  claimed' \subseteq claimed \cup {out} /\ ClaimedOutputsKept'
  <1> USE DEF Output, FileOf
  <1>1. file \in [Output \cup {"named"} -> Output \cup {"nothing"}]
    BY DEF DInv, StageOK
  <1>2. CASE UNCHANGED <<file, claimed>>
    BY <1>2 DEF ClaimOK, ClaimedOutputsKept
  <1>3. CASE /\ file' = [file EXCEPT ![FileOf(out)] = out]
             /\ claimed' = claimed \cup {out}
    <2>1. ASSUME NEW o \in claimed'
          PROVE  file'[FileOf(o)'] = o \/ (claimed' = Output /\ FileOf("ir")' = FileOf("asm")')
      <3>1. CASE opts.named
        <4>1. file'["named"] = out
          BY <1>1, <1>3, <3>1
        <4>2. CASE o = out
          BY <3>1, <4>1, <4>2
        <4>3. CASE o # out
          <5>1. claimed' = Output
            BY <1>3, <2>1, <4>3 DEF ClaimOK
          <5> QED BY <3>1, <5>1
        <4> QED BY <4>2, <4>3
      <3>2. CASE ~opts.named
        <4>1. file' = [file EXCEPT ![out] = out] /\ out \in DOMAIN file
          BY <1>1, <1>3, <3>2
        <4>2. CASE o = out
          BY <3>2, <4>1, <4>2
        <4>3. CASE o # out
          <5>1. file[o] = o
            BY <1>3, <2>1, <3>2, <4>3 DEF ClaimOK, ClaimedOutputsKept
          <5> QED BY <3>2, <4>1, <4>3, <5>1
        <4> QED BY <4>2, <4>3
      <3> QED BY <3>1, <3>2
    <2> QED BY <1>3, <2>1 DEF ClaimedOutputsKept
  <1> QED BY <1>2, <1>3 DEF WriteOutput

LEMMA ClaimNextOK == DInv /\ ClaimOK /\ [DriverNext]_vars => ClaimOK'
  <1> SUFFICES ASSUME DInv, ClaimOK, [DriverNext]_vars PROVE ClaimOK'
    OBVIOUS
  <1> USE DEF Goto, Return
  <1>1. CASE EmitIR
    <2>1. stage = "emitIR" /\ claimed = {} /\ stage' \in {"emitAsm", "exit"} /\ errors' = errors
      BY <1>1 DEF EmitIR, WriteOutput, ClaimOK
    <2>2. claimed' \subseteq {"ir"} /\ ClaimedOutputsKept'
      BY <1>1, <2>1, WriteKeepsClaims DEF EmitIR, Output, ClaimOK, ClaimedOutputsKept
    <2> QED BY <2>1, <2>2 DEF ClaimOK, BeforePasses, Output
  <1>2. CASE EmitAsm
    <2>1. /\ stage = "emitAsm" /\ claimed \subseteq {"ir"} /\ stage' \in {"summary", "exit"}
          /\ errors' = errors
      BY <1>2 DEF EmitAsm, WriteOutput, ClaimOK
    <2>2. claimed' \subseteq Output /\ ClaimedOutputsKept'
      BY <1>2, <2>1, WriteKeepsClaims DEF EmitAsm, Output, ClaimOK, ClaimedOutputsKept, FileOf
    <2> QED BY <2>1, <2>2 DEF ClaimOK, BeforePasses
  <1>3. CASE UNCHANGED <<opts, file, claimed>> /\ ~EmitIR /\ ~EmitAsm
    <2>1. ClaimedOutputsKept'
      BY <1>3 DEF ClaimOK, ClaimedOutputsKept, FileOf
    <2>2. errors' \in BOOLEAN
      BY <1>3 DEF ClaimOK, vars, driverVars, DriverNext, RejectArguments, OpenInput, Lex,
                  ParseTokens, Analyze, FrontEndStage, GenerateIR, VerifyGenerated,
                  ConfigurePasses, SkipOptimization, RunPasses, ReportPasses,
                  VerifyOptimized, Summarize
    <2>3. stage' \in BeforePasses \cup {"passes", "verifyOptimized", "emitIR"} =>
            stage \in BeforePasses \cup {"passes", "verifyOptimized", "emitIR"}
      BY <1>3 DEF BeforePasses, vars, driverVars, DriverNext, RejectArguments, OpenInput, Lex,
                  ParseTokens, Analyze, FrontEndStage, GenerateIR, VerifyGenerated,
                  ConfigurePasses, SkipOptimization, RunPasses, ReportPasses,
                  VerifyOptimized, Summarize
    <2>4. stage' = "emitAsm" => stage = "emitAsm"
      BY <1>3 DEF vars, driverVars, DriverNext, RejectArguments, OpenInput, Lex,
                  ParseTokens, Analyze, FrontEndStage, GenerateIR, VerifyGenerated,
                  ConfigurePasses, SkipOptimization, RunPasses, ReportPasses,
                  VerifyOptimized, Summarize
    <2> QED BY <1>3, <2>1, <2>2, <2>3, <2>4 DEF ClaimOK
  <1>4. EmitIR \/ EmitAsm \/ UNCHANGED <<opts, file, claimed>>
    BY DEF vars, driverVars, DriverNext, RejectArguments, OpenInput, Lex, ParseTokens, Analyze,
           FrontEndStage, GenerateIR, VerifyGenerated, ConfigurePasses, SkipOptimization,
           RunPasses, ReportPasses, VerifyOptimized, Summarize
  <1> QED BY <1>1, <1>2, <1>3, <1>4

-----------------------------------------------------------------------------
\* The driver's invariant holds in every compilation.
THEOREM DriverInvariant == DriverSpec => []DInv
  BY DriverInitInv, DriverNextInv, PTL DEF DriverSpec

\* An announced file has the announced contents, or what was written over it has been
\* announced too, at every stage of main.
THEOREM ClaimsInvariant == DriverSpec => []ClaimOK
  BY DriverInvariant, ClaimInitOK, ClaimNextOK, PTL DEF DriverSpec

\* The state of the driver and of the pass manager in it stays well typed.
THEOREM DriverTypeCorrect == DriverSpec => []DriverTypeOK
  <1>1. DInv /\ ClaimOK => DriverTypeOK
    BY DEF DInv, IInv, StageOK, ClaimOK, DriverTypeOK
  <1> QED BY <1>1, DriverInvariant, ClaimsInvariant, PTL

\* A file main has announced keeps what was announced, whatever fails later,
\* unless the second output is announced in the same file.
THEOREM AnnouncedFilesKept == DriverSpec => []ClaimedOutputsKept
  <1>1. ClaimOK => ClaimedOutputsKept
    BY DEF ClaimOK
  <1> QED BY <1>1, ClaimsInvariant, PTL

\* With --verify, nothing is written from IR the verifier would refuse.
THEOREM OutputVerified == DriverSpec => []VerifiedOutput
  <1>1. DInv => VerifiedOutput
    BY DEF DInv, WrittenOK, VerifiedOutput
  <1> QED BY <1>1, DriverInvariant, PTL

\* A program with an error leaves no file and no success.
THEOREM ErrorsStop == DriverSpec => []ErrorsStopOutput
  <1>1. DInv => ErrorsStopOutput
    BY DEF DInv, ErrorsOK, ErrorsStopOutput
  <1> QED BY <1>1, DriverInvariant, PTL

\* A function that --verify-each rejected leaves no file and no success, even
\* though run(M) does not tell the driver of it.
THEOREM RejectionStops == DriverSpec => []RejectionStopsOutput
  <1>1. DInv => RejectionStopsOutput
    <2> SUFFICES ASSUME DInv, NEW f \in rejected
                 PROVE  ~Written /\ exitCode # 0
      BY DEF RejectionStopsOutput
    <2>1. f \in Function /\ ~valid[f] /\ verifyEach
      BY DEF DInv, IInv, TypeOK, VerifiedOK
    <2>2. ~AllValid /\ VerifyIR /\ rejected # {}
      BY <2>1 DEF AllValid, VerifyIR, DInv, StageOK
    <2> QED BY <2>2 DEF DInv, WrittenOK, VerdictOK
  <1> QED BY <1>1, DriverInvariant, PTL

\* No failure of any kind leaves a file or success.
THEOREM FailuresStop == DriverSpec => []FailuresStopOutput
  <1>1. ErrorsStopOutput /\ RejectionStopsOutput => FailuresStopOutput
    BY DEF FailuresStopOutput
  <1> QED BY <1>1, ErrorsStop, RejectionStops, PTL
=============================================================================
