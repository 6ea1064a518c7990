------------------------------- MODULE Driver -------------------------------
(***************************************************************************)
(* The compiler driver (tools/yac/main.cpp): the stages of a compilation,  *)
(* the options that steer them, and the files and the exit code they leave *)
(* behind.  The pass manager it calls is module PassManager, step by step. *)
(*                                                                         *)
(* The front end is abstracted to whether each of its stages reports an    *)
(* error, and the IR it generates to which functions the verifier would    *)
(* accept.  Printing is left out except for the messages that claim that a *)
(* file was written.                                                       *)
(***************************************************************************)
EXTENDS PassManager

CONSTANT Options    \* the command lines main is called with

Option == [level : 0..3, verify : BOOLEAN, verifyEach : BOOLEAN,
           emitIR : BOOLEAN, emitAsm : BOOLEAN, named : BOOLEAN,
           syntaxOnly : BOOLEAN]      \* named: -o <file> is given

ASSUME OptionsAssumption == Options \subseteq Option
ASSUME DriverPipelinesAssumption ==
  <<>> \in Pipelines /\ \A level \in 1..3 : PipelineOf(level) \in Pipelines

VARIABLES
  stage,      \* what main does next
  opts,       \* the parsed command line
  errors,     \* Diag.hasErrors()
  file,       \* what each output file holds
  claimed,    \* the outputs main said it has written
  exitCode    \* what main returned, or Running

driverVars == <<stage, opts, errors, file, claimed, exitCode>>
vars == <<driverVars, pmVars>>

Stage == {"arguments", "lex", "parse", "sema", "generate", "verifyGenerated",
          "optimize", "passes", "verifyOptimized", "emitIR", "emitAsm",
          "summary", "exit"}
Output == {"ir", "asm"}
Running == -1

\* --verify-each implies --verify.
VerifyIR == opts.verify \/ opts.verifyEach

\* -o names the one file both outputs go to; otherwise each has its own.
FileOf(out) == IF opts.named THEN "named" ELSE out

AllValid == \A f \in Function : valid[f]

-----------------------------------------------------------------------------
DriverInit ==
  /\ stage = "arguments"
  /\ opts \in Options
  /\ errors = FALSE
  /\ file = [f \in Output \cup {"named"} |-> "nothing"]
  /\ claimed = {}
  /\ exitCode = Running
  /\ Init /\ passes = <<>> /\ verifyEach = FALSE

Goto(s) == stage' = s /\ exitCode' = exitCode
Return(code) == stage' = "exit" /\ exitCode' = code

\* --help returns 0; a bad option or a missing input file returns 1.
RejectArguments ==
  /\ stage = "arguments"
  /\ \E code \in {0, 1} : Return(code)
  /\ UNCHANGED <<opts, errors, file, claimed, pmVars>>

OpenInput ==
  /\ stage = "arguments"
  /\ Goto("lex")
  /\ UNCHANGED <<opts, errors, file, claimed, pmVars>>

\* Mutant: an error of semantic analysis does not stop the compilation.
MustStopNotAfterSema(hasErrors) == hasErrors /\ stage # "sema"

\* if (Diag.hasErrors()) return 1; the engine is shared by the three stages.
MustStop(hasErrors) == hasErrors

FrontEndStage(now, next, found) ==
  /\ stage = now
  /\ errors' = (errors \/ found)
  /\ IF MustStop(errors') THEN Return(1) ELSE Goto(next)
  /\ UNCHANGED <<opts, file, claimed, pmVars>>

Lex(found) == FrontEndStage("lex", "parse", found)
ParseTokens(found) == FrontEndStage("parse", "sema", found)
Analyze(found) == FrontEndStage("sema", "generate", found)

\* Builder.generateIR: the verifier may or may not accept what it builds.
GenerateIR ==
  /\ stage = "generate"
  /\ valid' \in [Function -> BOOLEAN]
  /\ Goto("verifyGenerated")
  /\ UNCHANGED <<opts, errors, file, claimed, setup, phase, fn, pc, manager,
                 edits, changed, moduleChanged, modified, rejected>>

\* The generated IR is verified at -O0 only.
VerifyGenerated ==
  /\ stage = "verifyGenerated"
  /\ IF VerifyIR /\ opts.level = 0 /\ ~AllValid
       THEN Return(1) ELSE Goto("optimize")
  /\ UNCHANGED <<opts, errors, file, claimed, pmVars>>

\* PassManager PM(verifyEach) and its addPass calls.
ConfigurePasses ==
  /\ stage = "optimize"
  /\ opts.level > 0
  /\ passes' = PipelineOf(opts.level)
  /\ verifyEach' = opts.verifyEach
  /\ Goto("passes")
  /\ UNCHANGED <<opts, errors, file, claimed, phase, fn, pc, manager, edits,
                 changed, moduleChanged, ir, rejected>>

SkipOptimization ==
  /\ stage = "optimize"
  /\ opts.level = 0
  /\ Goto("emitIR")
  /\ UNCHANGED <<opts, errors, file, claimed, pmVars>>

\* One step of PM.run(IR.get()).
RunPasses ==
  /\ stage = "passes"
  /\ Next
  /\ UNCHANGED driverVars

\* PM.run has returned; its result is printed and nothing else.
ReportPasses ==
  /\ stage = "passes"
  /\ phase = "done"
  /\ Goto("verifyOptimized")
  /\ UNCHANGED <<opts, errors, file, claimed, pmVars>>

\* Mutant: with --verify-each the passes are trusted to have been verified.
MustVerifyOptimizedUnlessEach == opts.verify /\ ~opts.verifyEach

MustVerifyOptimized == VerifyIR

VerifyOptimized ==
  /\ stage = "verifyOptimized"
  /\ IF MustVerifyOptimized /\ ~AllValid THEN Return(1) ELSE Goto("emitIR")
  /\ UNCHANGED <<opts, errors, file, claimed, pmVars>>

\* Mutant: the output is announced before the file is opened.
WriteOutputAnnouncedFirst(out, next) ==
  /\ claimed' = claimed \cup {out}
  /\ \/ file' = [file EXCEPT ![FileOf(out)] = out] /\ Goto(next)
     \/ Return(1) /\ UNCHANGED file

\* An output is opened, written and announced; if it cannot be opened main
\* returns 1 and what was written before stays.
WriteOutput(out, next) ==
  \/ /\ file' = [file EXCEPT ![FileOf(out)] = out]
     /\ claimed' = claimed \cup {out}
     /\ Goto(next)
  \/ /\ Return(1)
     /\ UNCHANGED <<file, claimed>>

EmitIR ==
  /\ stage = "emitIR"
  /\ IF opts.emitIR THEN WriteOutput("ir", "emitAsm")
     ELSE Goto("emitAsm") /\ UNCHANGED <<file, claimed>>
  /\ UNCHANGED <<opts, errors, pmVars>>

EmitAsm ==
  /\ stage = "emitAsm"
  /\ IF opts.emitAsm THEN WriteOutput("asm", "summary")
     ELSE Goto("summary") /\ UNCHANGED <<file, claimed>>
  /\ UNCHANGED <<opts, errors, pmVars>>

Summarize ==
  /\ stage = "summary"
  /\ Return(0)
  /\ UNCHANGED <<opts, errors, file, claimed, pmVars>>

DriverNext ==
  \/ RejectArguments
  \/ OpenInput
  \/ \E found \in BOOLEAN : Lex(found) \/ ParseTokens(found) \/ Analyze(found)
  \/ GenerateIR
  \/ VerifyGenerated
  \/ ConfigurePasses
  \/ SkipOptimization
  \/ RunPasses
  \/ ReportPasses
  \/ VerifyOptimized
  \/ EmitIR
  \/ EmitAsm
  \/ Summarize

DriverSpec == DriverInit /\ [][DriverNext]_vars

-----------------------------------------------------------------------------
(* Properties.                                                             *)

DriverTypeOK ==
  /\ TypeOK
  /\ stage \in Stage
  /\ opts \in Options
  /\ errors \in BOOLEAN
  /\ file \in [Output \cup {"named"} -> Output \cup {"nothing"}]
  /\ claimed \subseteq Output
  /\ exitCode \in {Running, 0, 1}

Written == \E f \in DOMAIN file : file[f] # "nothing"

\* No output of any kind is written for a program with an error, whichever
\* stage found it, and main does not return success.
ErrorsStopOutput == errors => ~Written /\ exitCode # 0

\* With --verify or --verify-each, at any level, no file is written from a
\* module one of whose functions the verifier would refuse.
VerifiedOutput == VerifyIR /\ Written => AllValid

\* run(M) goes on with the other functions after a rejection and may report no
\* change at all: the compilation still fails and leaves no file.
RejectionStopsOutput == rejected # {} => ~Written /\ exitCode # 0

\* Whatever fails, a stage or a pass, stops everything that would write a file.
FailuresStopOutput == ErrorsStopOutput /\ RejectionStopsOutput

\* A file that was announced ("IR written to", main.cpp) holds that output when
\* main is done, whatever fails later; only a second output announced in the same
\* file may have replaced it.
ClaimedOutputsKept ==
  \A out \in claimed :
    file[FileOf(out)] = out \/ (claimed = Output /\ FileOf("ir") = FileOf("asm"))
=============================================================================
