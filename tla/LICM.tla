-------------------------------- MODULE LICM --------------------------------
(***************************************************************************)
(* LICMPass (lib/CodeGen/Transforms.cpp): instructions of a loop whose     *)
(* operands are invariant are moved to its preheader.                      *)
(*                                                                         *)
(* Only pure binary and unary instructions move; every other instruction   *)
(* (phi nodes, loads, calls) is one that stays.  The terminators are left  *)
(* out: what is moved goes before the one of the preheader.  The loops are *)
(* the natural ones, as module LoopInfo shows.  The code goes through the  *)
(* loops and through the blocks of a loop in the order of their addresses: *)
(* any order here.                                                         *)
(***************************************************************************)
EXTENDS ControlFlowGraph, Sequences

CONSTANTS
  Instr,       \* the instructions; each defines the value of its name
  Graphs,      \* the graphs of the functions
  Programs     \* the functions: [graph, kind, lhs, rhs, code]

Literal == 0     \* an operand that is a constant

\* The instructions of a block, and the block of an instruction (getParent).
InstrsIn(c, b) == {c[b][i] : i \in DOMAIN c[b]}
BlockIn(c, v) == CHOOSE b \in Block : v \in InstrsIn(c, b)

\* Every instruction is in one place: a block owns its instructions.
InOnePlace(c) ==
  /\ \A v \in Instr : \E b \in Block : v \in InstrsIn(c, b)
  /\ \A b, d \in Block : \A i \in DOMAIN c[b], j \in DOMAIN c[d] :
       c[b][i] = c[d][j] => b = d /\ i = j

\* All blocks are reached, and addSuccessor has entered the edges; no operand is
\* an instruction called Literal, and a unary instruction has one operand, lhs.
ASSUME ProgramsAssumption ==
  /\ Literal \notin Instr
  /\ \A g \in Graphs : g \in Graph /\ g = Built(g.succs) /\ ReachableBlocks(g) = Block
  /\ \A p \in Programs :
    /\ p.graph \in Graphs
    /\ p.kind \in [Instr -> {"binary", "unary", "other"}]
    /\ p.lhs \in [Instr -> Instr \cup {Literal}]
    /\ p.rhs \in [Instr -> Instr \cup {Literal}]
    /\ \A v \in Instr : p.kind[v] = "unary" => p.rhs[v] = Literal
    /\ p.code \in [Block -> Seq(Instr)]
    /\ InOnePlace(p.code)

VARIABLES
  program,      \* the function as the pass found it
  code,         \* the instructions of the blocks now
  phase,        \* "loops", "find", "hoist" or "done"
  todo,         \* the headers of the loops still to be processed
  header,       \* the loop in work
  invariants,   \* LoopInvariants
  toHoist,      \* ToHoist
  changed       \* Changed

vars == <<program, code, phase, todo, header, invariants, toHoist, changed>>

-----------------------------------------------------------------------------
\* What LoopInfo finds, by graph: the blocks of the loop of each header.
Loops ==
  [g \in Graphs |->
    [h \in {b \in Block : BackEdgeSources(g, b) # {}} |-> NaturalLoop(g, h)]]

Headers == DOMAIN Loops[program.graph]
LoopBlocks(h) == Loops[program.graph][h]
OutsidePreds(h) == program.graph.preds[h] \ LoopBlocks(h)

\* Mutant: one way into the loop gets a preheader, whatever the others are.
HasPreheaderAny(h) == OutsidePreds(h) # {}

HasPreheader(h) == Cardinality(OutsidePreds(h)) = 1
Preheader(h) == CHOOSE p \in OutsidePreds(h) : TRUE

Init ==
  /\ program \in Programs
  /\ code = program.code
  /\ phase = "loops"
  /\ todo = Headers
  /\ header = 0
  /\ invariants = {}
  /\ toHoist = <<>>
  /\ changed = FALSE

\* The next loop that has a preheader.
StartLoop(h) ==
  /\ phase = "loops"
  /\ h \in todo
  /\ todo' = todo \ {h}
  /\ IF HasPreheader(h) THEN phase' = "find" /\ header' = h
     ELSE UNCHANGED <<phase, header>>
  /\ invariants' = {}
  /\ toHoist' = <<>>
  /\ UNCHANGED <<program, code, changed>>

InvariantOperand(v) == v = Literal \/ v \in invariants

\* isLoopInvariant.  The left operand of a binary instruction always passes:
\* the third test of LHSInvariant asks whether the loop contains nullptr.
IsLoopInvariant(v) ==
  \/ program.kind[v] = "binary" /\ InvariantOperand(program.rhs[v])
  \/ program.kind[v] = "unary" /\ InvariantOperand(program.lhs[v])

Candidates ==
  {v \in UNION {InstrsIn(code, b) : b \in LoopBlocks(header)} :
     v \notin invariants /\ IsLoopInvariant(v)}

\* Mutant: what is found later is put in front.
ToHoistFront(v) == <<v>> \o toHoist

ToHoistWith(v) == Append(toHoist, v)

FindInvariant(v) ==
  /\ phase = "find"
  /\ v \in Candidates
  /\ invariants' = invariants \cup {v}
  /\ toHoist' = ToHoistWith(v)
  /\ changed' = TRUE
  /\ UNCHANGED <<program, code, phase, todo, header>>

\* No more invariants are found.
StartHoisting ==
  /\ phase = "find"
  /\ Candidates = {}
  /\ phase' = "hoist"
  /\ UNCHANGED <<program, code, todo, header, invariants, toHoist, changed>>

\* removeInstruction: those behind it move up.
Without(s, v) ==
  LET k == CHOOSE i \in DOMAIN s : s[i] = v
  IN [i \in 1..(Len(s) - 1) |-> IF i < k THEN s[i] ELSE s[i + 1]]

Removed(v) == [code EXCEPT ![BlockIn(code, v)] = Without(@, v)]

\* hoistInstruction.
Hoist ==
  /\ phase = "hoist"
  /\ toHoist # <<>>
  /\ code' = [Removed(Head(toHoist)) EXCEPT ![Preheader(header)] = Append(@, Head(toHoist))]
  /\ toHoist' = Tail(toHoist)
  /\ UNCHANGED <<program, phase, todo, header, invariants, changed>>

FinishLoop ==
  /\ phase = "hoist"
  /\ toHoist = <<>>
  /\ phase' = "loops"
  /\ UNCHANGED <<program, code, todo, header, invariants, toHoist, changed>>

Finish ==
  /\ phase = "loops"
  /\ todo = {}
  /\ phase' = "done"
  /\ UNCHANGED <<program, code, todo, header, invariants, toHoist, changed>>

Next ==
  \/ \E h \in Block : StartLoop(h)
  \/ \E v \in Instr : FindInvariant(v)
  \/ StartHoisting
  \/ Hoist
  \/ FinishLoop
  \/ Finish

Spec == Init /\ [][Next]_vars

-----------------------------------------------------------------------------
(* Properties.                                                             *)

DominatedBy == [g \in Graphs |-> [d \in Block |-> {b \in Block : Dominates(g, d, b)}]]

\* v is executed before w whenever w is.
StandsBefore(s, v, w) == \E i, j \in DOMAIN s : i < j /\ s[i] = v /\ s[j] = w
Precedes(c, v, w) ==
  IF BlockIn(c, v) = BlockIn(c, w) THEN StandsBefore(c[BlockIn(c, v)], v, w)
  ELSE BlockIn(c, w) \in DominatedBy[program.graph][BlockIn(c, v)]

\* Through however many loops an instruction is moved, it is in one place, and it
\* still runs before every place that needed it: its block dominates the one it
\* was written in.
MovedUpOnly ==
  /\ InOnePlace(code)
  /\ phase = "loops" =>
       \A v \in Instr :
         BlockIn(program.code, v) \in DominatedBy[program.graph][BlockIn(code, v)]

\* The list in the comment of isLoopInvariant, "Constants / Defined outside the
\* loop / Already marked as loop invariant", is what lets an instruction be
\* moved before the loop: operands stay defined before they are used.
DefinedFirst(c) ==
  \A w \in Instr : program.kind[w] # "other" =>
    \A v \in {program.lhs[w], program.rhs[w]} \ {Literal} : Precedes(c, v, w)
OperandsDefinedFirst == phase = "loops" => DefinedFirst(code)

\* The same for functions whose operands are defined first and in which no left
\* operand of a binary instruction is computed in a loop: the one way to break it
\* is the left operand, which isLoopInvariant does not look at.  (In any loop: an
\* instruction moved to the preheader of one loop may be moved on by the loop
\* around the preheader.)
LeftOperandsOutside ==
  \A v \in Instr : program.kind[v] = "binary" /\ program.lhs[v] # Literal =>
    \A h \in Headers : BlockIn(program.code, program.lhs[v]) \notin LoopBlocks(h)
OperandsDefinedFirstIfOutside ==
  LeftOperandsOutside /\ DefinedFirst(program.code) => OperandsDefinedFirst
=============================================================================
