------------------------- MODULE RegisterAllocator -------------------------
(***************************************************************************)
(* The linear scan register allocator (lib/CodeGen/RegisterAllocator.cpp). *)
(*                                                                         *)
(* A function is the sequence of its instructions in textual order, block  *)
(* after block.  An instruction is abstracted to the values the allocator  *)
(* reads from it: what it defines, what it uses (constants left out) and,  *)
(* for the reference definition of liveness in module LiveValues only, the *)
(* indices that may execute next.  allocate() first walks the instructions *)
(* and records every index that mentions a value, turns the records into   *)
(* intervals, and then scans the intervals by increasing start.            *)
(*                                                                         *)
(* A register is the rank of its name in the order of std::set<string>, so *)
(* that *FreeRegs.begin() is the least free register.                      *)
(***************************************************************************)
EXTENDS Integers, Sequences, FiniteSets

CONSTANTS
  Value,      \* the non-constant IR values of a function
  Reg,        \* the allocatable registers (AvailableRegs)
  Programs    \* the instruction sequences allocate() is called with

Instruction == [defs : SUBSET Value, uses : SUBSET Value, succ : SUBSET Nat]

ASSUME RegAssumption == Reg \subseteq Nat \ {0} /\ IsFiniteSet(Reg)
ASSUME ValueAssumption == IsFiniteSet(Value)
ASSUME ProgramsAssumption == Programs \subseteq Seq(Instruction)

VARIABLES
  phase,              \* "liveness", "scan" or "done"
  code,               \* the function being compiled
  instIndex,          \* InstIndex of computeLiveness
  liveRanges,         \* LiveRanges: value -> indices that mention it
  pending,            \* values whose interval the scan has not reached
  active,             \* Active: values whose interval holds a register
  freeRegs,           \* FreeRegs
  valueToReg,         \* ValueToReg; NoReg where the map has no entry
  valueToStackSlot,   \* ValueToStackSlot; NoSlot where it has no entry
  spillSlotCount      \* SpillSlotCount

input == <<code>>
analysis == <<instIndex, liveRanges>>
allocation == <<pending, active, freeRegs, valueToReg, valueToStackSlot,
                spillSlotCount>>
vars == <<phase, code, instIndex, liveRanges, pending, active, freeRegs,
          valueToReg, valueToStackSlot, spillSlotCount>>

NoReg == 0      \* getRegister returns "" for a value without a register
NoSlot == -1    \* getStackOffset returns -1 for a value without a slot

-----------------------------------------------------------------------------
(* Liveness and intervals.                                                 *)

\* Mutant: operands are not recorded, only results.
MentionsResultOnly(inst) == inst.defs

\* The values an instruction mentions: operands and result alike.
Mentions(inst) == inst.defs \cup inst.uses

\* *Ranges.begin() and *Ranges.rbegin() of a value that is mentioned.
Start(v) == CHOOSE i \in liveRanges[v] : \A j \in liveRanges[v] : i <= j
End(v) == CHOOSE i \in liveRanges[v] : \A j \in liveRanges[v] : j <= i

\* LiveInterval::overlaps.
Overlaps(v, w) == ~(End(v) < Start(w) \/ End(w) < Start(v))

HasInterval(v) == liveRanges[v] # {}

-----------------------------------------------------------------------------
\* A new allocator.
Fresh ==
  /\ phase = "liveness"
  /\ instIndex = 0
  /\ liveRanges = [v \in Value |-> {}]
  /\ pending = {}
  /\ active = {}
  /\ freeRegs = Reg
  /\ valueToReg = [v \in Value |-> NoReg]
  /\ valueToStackSlot = [v \in Value |-> NoSlot]
  /\ spillSlotCount = 0

Init == code \in Programs /\ Fresh

\* One iteration of the loops of computeLiveness.
VisitInstruction ==
  /\ phase = "liveness"
  /\ instIndex < Len(code)
  /\ liveRanges' = [v \in Value |->
                      IF v \in Mentions(code[instIndex + 1])
                        THEN liveRanges[v] \cup {instIndex}
                        ELSE liveRanges[v]]
  /\ instIndex' = instIndex + 1
  /\ UNCHANGED <<phase, code, allocation>>

\* computeLiveIntervals makes an interval of every value with a range.  The
\* sort is left to NextInterval, which takes the intervals by start.
ComputeLiveIntervals ==
  /\ phase = "liveness"
  /\ instIndex = Len(code)
  /\ pending' = {v \in Value : HasInterval(v)}
  /\ phase' = "scan"
  /\ UNCHANGED <<code, analysis, active, freeRegs, valueToReg,
                 valueToStackSlot, spillSlotCount>>

-----------------------------------------------------------------------------
(* The scan.  One action per outcome of an iteration of allocate's loop;   *)
(* expireOldIntervals is part of each.                                     *)

\* std::sort is not stable and the map it starts from is ordered by address,
\* so any of the intervals with the least start may come next.
NextInterval(v) ==
  /\ phase = "scan"
  /\ v \in pending
  /\ \A w \in pending : Start(v) <= Start(w)

\* Mutants: an interval that ends where v starts is expired already; the
\* register of an expired interval is not put back.
UnexpiredTooEarly(v) == {w \in active : ~(End(w) <= Start(v))}
FreedForgetful(v) == freeRegs

\* expireOldIntervals(Start(v)): what stays in Active, and FreeRegs after it.
Unexpired(v) == {w \in active : ~(End(w) < Start(v))}
Freed(v) == freeRegs \cup {valueToReg[w] : w \in active \ Unexpired(v)}

\* A register is free: the first one in name order is taken.
AllocateRegister(v, r) ==
  /\ NextInterval(v)
  /\ r \in Freed(v)
  /\ \A s \in Freed(v) : r <= s
  /\ freeRegs' = Freed(v) \ {r}
  /\ valueToReg' = [valueToReg EXCEPT ![v] = r]
  /\ active' = Unexpired(v) \cup {v}
  /\ pending' = pending \ {v}
  /\ UNCHANGED <<phase, code, analysis, valueToStackSlot, spillSlotCount>>

\* The active interval that ends last (std::max_element over Active).
EndsLast(c, v) ==
  /\ c \in Unexpired(v)
  /\ \A w \in Unexpired(v) : End(w) <= End(c)

\* Mutant of SpillCandidate: SpillSlotCount is not incremented.
SpillCandidateSameSlot(v, c) ==
  /\ NextInterval(v) /\ Freed(v) = {} /\ EndsLast(c, v) /\ End(c) > End(v)
  /\ valueToStackSlot' = [valueToStackSlot EXCEPT ![c] = spillSlotCount]
  /\ valueToReg' = [valueToReg EXCEPT ![c] = NoReg, ![v] = valueToReg[c]]
  /\ active' = (Unexpired(v) \ {c}) \cup {v}
  /\ freeRegs' = Freed(v) /\ pending' = pending \ {v}
  /\ UNCHANGED <<phase, code, analysis, spillSlotCount>>

\* spillAtInterval, first branch: c ends after v, so c goes to the stack and v
\* takes over its register and its place in Active.
SpillCandidate(v, c) ==
  /\ NextInterval(v)
  /\ Freed(v) = {}
  /\ EndsLast(c, v)
  /\ End(c) > End(v)
  /\ valueToStackSlot' = [valueToStackSlot EXCEPT ![c] = spillSlotCount]
  /\ spillSlotCount' = spillSlotCount + 1
  /\ valueToReg' = [valueToReg EXCEPT ![c] = NoReg, ![v] = valueToReg[c]]
  /\ active' = (Unexpired(v) \ {c}) \cup {v}
  /\ freeRegs' = Freed(v)
  /\ pending' = pending \ {v}
  /\ UNCHANGED <<phase, code, analysis>>

\* Mutants of SpillCurrent: SpillCandidate->End > Interval.End is not tested
\* first; the slots are counted downwards, as the stack grows.
SpillCurrentUntested(v) ==
  /\ NextInterval(v) /\ Freed(v) = {}
  /\ valueToStackSlot' = [valueToStackSlot EXCEPT ![v] = spillSlotCount]
  /\ spillSlotCount' = spillSlotCount + 1
  /\ active' = Unexpired(v) /\ freeRegs' = Freed(v) /\ pending' = pending \ {v}
  /\ UNCHANGED <<phase, code, analysis, valueToReg>>

SpillCurrentDownwards(v) ==
  /\ NextInterval(v) /\ Freed(v) = {}
  /\ \A c \in Unexpired(v) : End(c) <= End(v)
  /\ valueToStackSlot' = [valueToStackSlot EXCEPT ![v] = spillSlotCount]
  /\ spillSlotCount' = spillSlotCount - 1
  /\ active' = Unexpired(v) /\ freeRegs' = Freed(v) /\ pending' = pending \ {v}
  /\ UNCHANGED <<phase, code, analysis, valueToReg>>

\* spillAtInterval, second branch: no active interval outlives v, so v itself
\* goes to the stack.
SpillCurrent(v) ==
  /\ NextInterval(v)
  /\ Freed(v) = {}
  /\ \A c \in Unexpired(v) : End(c) <= End(v)
  /\ valueToStackSlot' = [valueToStackSlot EXCEPT ![v] = spillSlotCount]
  /\ spillSlotCount' = spillSlotCount + 1
  /\ active' = Unexpired(v)
  /\ freeRegs' = Freed(v)
  /\ pending' = pending \ {v}
  /\ UNCHANGED <<phase, code, analysis, valueToReg>>

\* The loop is over and allocate returns.
Finish ==
  /\ phase = "scan"
  /\ pending = {}
  /\ phase' = "done"
  /\ UNCHANGED <<code, analysis, allocation>>

Next ==
  \/ VisitInstruction
  \/ ComputeLiveIntervals
  \/ \E v \in Value, r \in Reg : AllocateRegister(v, r)
  \/ \E v \in Value, c \in Value : SpillCandidate(v, c)
  \/ \E v \in Value : SpillCurrent(v)
  \/ Finish

Spec == Init /\ [][Next]_vars

-----------------------------------------------------------------------------
(* Properties.                                                             *)

Scanned == {v \in Value : HasInterval(v)} \ pending
Spilled == {v \in Value : valueToStackSlot[v] # NoSlot}

TypeOK ==
  /\ phase \in {"liveness", "scan", "done"}
  /\ code \in Seq(Instruction)
  /\ instIndex \in 0..Len(code)
  /\ liveRanges \in [Value -> SUBSET Nat]
  /\ pending \subseteq Value
  /\ active \subseteq Value
  /\ freeRegs \subseteq Reg
  /\ valueToReg \in [Value -> Reg \cup {NoReg}]
  /\ valueToStackSlot \in [Value -> Nat \cup {NoSlot}]
  /\ spillSlotCount \in Nat

\* Two values whose intervals overlap never hold the same register, at any
\* moment of the scan: what expireOldIntervals and the take-over of a spilled
\* register in spillAtInterval must not break.
NoRegisterConflict ==
  phase # "liveness" =>
    \A v, w \in Value :
      v # w /\ valueToReg[v] # NoReg /\ valueToReg[v] = valueToReg[w]
        => ~Overlaps(v, w)

\* No register is lost or duplicated on its way between FreeRegs and Active:
\* each is either free or held by exactly one active value, and expiring an
\* interval therefore never puts the empty name "" into FreeRegs.
RegistersConserved ==
  /\ Reg = freeRegs \cup {valueToReg[v] : v \in active}
  /\ \A v \in active : valueToReg[v] \notin freeRegs
  /\ \A v, w \in active : valueToReg[v] = valueToReg[w] => v = w

\* Stack slots are never shared and lie inside the frame the prologue reserves
\* (getSpillSlotSize is 8 * SpillSlotCount).
SlotsUnshared ==
  \A v \in Spilled :
    /\ valueToStackSlot[v] < spillSlotCount
    /\ \A w \in Spilled : valueToStackSlot[v] = valueToStackSlot[w] => v = w

\* No two values that are alive together share a place, register or slot.
PlacesUnshared == NoRegisterConflict /\ SlotsUnshared

\* A value the scan has reached is in a register or on the stack and never in
\* both maps; a value it has not reached is in neither.
OneLocation ==
  \A v \in Value :
    IF phase # "liveness" /\ v \in Scanned
      THEN (valueToReg[v] # NoReg) # (v \in Spilled)
      ELSE valueToReg[v] = NoReg /\ v \notin Spilled

CoversPoint(v, p) == Start(v) <= p /\ p <= End(v)

\* Spilling the interval that ends last leaves as many values in registers as
\* any allocation could: no smaller set of values would relieve the pressure.
Relieves(S) ==
  \A p \in 0..Len(code) - 1 :
    Cardinality({w \in Scanned \ S : CoversPoint(w, p)}) <= Cardinality(Reg)
SpillsMinimal ==
  phase = "done" =>
    \A S \in SUBSET Scanned : Relieves(S) => Cardinality(S) >= spillSlotCount

\* A value never changes its register or its slot: the only move is out of a
\* register to a slot, once (ValueToReg.erase in spillAtInterval).
PlacesSettle ==
  [][\A v \in Value :
       /\ valueToStackSlot[v] # NoSlot
            => valueToStackSlot'[v] = valueToStackSlot[v]
       /\ valueToReg[v] # NoReg /\ valueToReg'[v] # valueToReg[v]
            => valueToReg'[v] = NoReg /\ valueToStackSlot'[v] # NoSlot]_vars

\* The allocator keeps the promise of module RegisterAssignment.
PlaceOf(v) ==
  IF valueToReg[v] # NoReg THEN [kind |-> "reg", at |-> valueToReg[v]]
  ELSE IF valueToStackSlot[v] # NoSlot
    THEN [kind |-> "slot", at |-> valueToStackSlot[v]]
    ELSE [kind |-> "none", at |-> 0]

Interference ==
  IF phase = "liveness" THEN {}
  ELSE {p \in Value \X Value : /\ p[1] # p[2]
                               /\ HasInterval(p[1]) /\ HasInterval(p[2])
                               /\ Overlaps(p[1], p[2])}

Promise == INSTANCE RegisterAssignment
             WITH ready <- phase # "liveness",
                  interferes <- Interference,
                  loc <- [v \in Value |-> PlaceOf(v)]

KeepsPromise == Promise!ASpec
=============================================================================
