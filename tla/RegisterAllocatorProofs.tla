---------------------- MODULE RegisterAllocatorProofs ----------------------
(***************************************************************************)
(* Theorems of the register allocator for every function, every set of     *)
(* values and every set of registers.                                      *)
(*                                                                         *)
(* NoRegisterConflict is not inductive.  What makes it hold is that a      *)
(* register leaves Active only when its interval ends before the next one  *)
(* starts (Past), that the starts come in increasing order, and that       *)
(* registers travel between FreeRegs and Active one at a time              *)
(* (RegistersConserved).  IInv is the conjunction.                         *)
(*                                                                         *)
(* NoClobber adds what computeLiveness has recorded (Recorded) to it:      *)
(* without loops, what is live after a position is mentioned on both       *)
(* sides of it.  SpillsMinimal is proved by comparing the spilled values   *)
(* with any others that would do (SpillInv): of those that have ended, the *)
(* spilled ones are never more, at any moment to come.                     *)
(***************************************************************************)
EXTENDS LiveValues, FiniteSetTheorems, TLAPS

\* Of these only the lemma about ReachedFrom is used, for the positions of a function.
Paths == INSTANCE ControlFlowGraphProofs WITH NumBlocks <- 1

\* Every recorded range has a first and a last index, all already visited.
RangesOK ==
  \A v \in Value :
    /\ \A i \in liveRanges[v] : i < instIndex
    /\ HasInterval(v) =>
         \E a, b \in liveRanges[v] : \A j \in liveRanges[v] : a <= j /\ j <= b

\* Nothing is placed before the intervals are known.
NothingYet ==
  phase = "liveness" =>
    /\ pending = {} /\ active = {} /\ freeRegs = Reg
    /\ \A v \in Value : valueToReg[v] = NoReg /\ valueToStackSlot[v] = NoSlot

\* The scan works on values that have an interval, each of them once.
ScanOK ==
  /\ \A v \in pending : HasInterval(v)
  /\ \A v \in active : /\ HasInterval(v) /\ v \notin pending
                       /\ valueToReg[v] \in Reg
  /\ phase = "done" => pending = {}

\* A value that kept its register but left Active ended before every interval
\* still to come starts.
Past ==
  \A v \in Value \ active :
    valueToReg[v] # NoReg => \A w \in pending : End(v) < Start(w)

IInv ==
  /\ TypeOK
  /\ RangesOK
  /\ NothingYet
  /\ ScanOK
  /\ Past
  /\ RegistersConserved
  /\ NoRegisterConflict
  /\ SlotsUnshared
  /\ OneLocation

-----------------------------------------------------------------------------
(* Intervals.                                                              *)

\* The ends of an interval are indices, in order.
LEMMA IntervalEnds ==
  ASSUME TypeOK, RangesOK, NEW v \in Value, HasInterval(v)
  PROVE  /\ Start(v) \in Nat /\ End(v) \in Nat
         /\ Start(v) <= End(v)
         /\ \A i \in liveRanges[v] : Start(v) <= i /\ i <= End(v)
         /\ Start(v) \in liveRanges[v] /\ End(v) \in liveRanges[v]
<1>1. liveRanges[v] \subseteq Nat
  BY DEF TypeOK
<1>2. PICK a \in liveRanges[v], b \in liveRanges[v] :
        \A j \in liveRanges[v] : a <= j /\ j <= b
  BY DEF RangesOK
<1>3. Start(v) \in liveRanges[v] /\ \A j \in liveRanges[v] : Start(v) <= j
  BY <1>2 DEF Start
<1>4. End(v) \in liveRanges[v] /\ \A j \in liveRanges[v] : j <= End(v)
  BY <1>2 DEF End
<1>5. QED
  BY <1>1, <1>3, <1>4

\* The scan leaves the intervals alone.
LEMMA IntervalsStable ==
  ASSUME UNCHANGED liveRanges
  PROVE  /\ \A v : Start(v)' = Start(v) /\ End(v)' = End(v)
         /\ \A v : HasInterval(v)' = HasInterval(v)
         /\ \A v, w : Overlaps(v, w)' = Overlaps(v, w)
BY DEF Start, End, HasInterval, Overlaps

-----------------------------------------------------------------------------
(* The analysis phase.                                                     *)

LEMMA InitInv == Init => IInv
<1> SUFFICES ASSUME Init PROVE IInv
  OBVIOUS
<1> USE DEF Init, Fresh, NoReg, NoSlot
<1>1. TypeOK
  BY ProgramsAssumption DEF TypeOK
<1>2. RangesOK /\ NothingYet /\ ScanOK /\ Past
  BY DEF RangesOK, NothingYet, ScanOK, Past, HasInterval
<1>3. RegistersConserved /\ NoRegisterConflict /\ SlotsUnshared /\ OneLocation
  BY DEF RegistersConserved, NoRegisterConflict, SlotsUnshared, OneLocation,
         Spilled
<1>4. QED
  BY <1>1, <1>2, <1>3 DEF IInv

\* Visiting an instruction appends its index to the ranges it extends.
LEMMA VisitInv ==
  ASSUME IInv, VisitInstruction
  PROVE  IInv'
<1> USE DEF VisitInstruction, allocation
<1>1. TypeOK'
  <2>1. instIndex' \in 0..Len(code)
    BY ProgramsAssumption DEF IInv, TypeOK
  <2>2. liveRanges' \in [Value -> SUBSET Nat]
    BY ProgramsAssumption DEF IInv, TypeOK
  <2>3. QED
    BY <2>1, <2>2 DEF IInv, TypeOK
<1>2. RangesOK'
  <2> SUFFICES ASSUME NEW v \in Value
               PROVE  /\ \A i \in liveRanges'[v] : i < instIndex'
                      /\ liveRanges'[v] # {} =>
                           \E a, b \in liveRanges'[v] :
                             \A j \in liveRanges'[v] : a <= j /\ j <= b
    BY DEF RangesOK, HasInterval
  <2>1. instIndex \in Nat /\ instIndex' = instIndex + 1
    BY ProgramsAssumption DEF IInv, TypeOK
  <2>2. liveRanges[v] \subseteq Nat /\ \A i \in liveRanges[v] : i < instIndex
    BY DEF IInv, TypeOK, RangesOK
  <2>3. liveRanges'[v] = liveRanges[v] \/ liveRanges'[v] = liveRanges[v] \cup {instIndex}
    OBVIOUS
  <2>. HIDE DEF VisitInstruction
  <2>4. CASE liveRanges'[v] = liveRanges[v]
    <3>1. liveRanges[v] # {} =>
            \E a, b \in liveRanges[v] : \A j \in liveRanges[v] : a <= j /\ j <= b
      BY DEF IInv, RangesOK, HasInterval
    <3>2. \A i \in liveRanges[v] : i < instIndex'
      BY <2>1, <2>2
    <3>3. QED
      BY <2>4, <3>1, <3>2, Zenon
  <2>5. CASE liveRanges'[v] = liveRanges[v] \cup {instIndex}
    <3>1. CASE liveRanges[v] = {}
      BY <2>1, <2>2, <2>5, <3>1
    <3>2. CASE liveRanges[v] # {}
      <4>1. PICK a \in liveRanges[v] : \A j \in liveRanges[v] : a <= j
        BY <3>2 DEF IInv, RangesOK, HasInterval
      <4>2. \A j \in liveRanges'[v] : a <= j /\ j <= instIndex
        BY <2>1, <2>2, <2>5, <4>1
      <4>3. a \in liveRanges'[v] /\ instIndex \in liveRanges'[v]
        BY <2>5, <4>1
      <4>4. \A i \in liveRanges'[v] : i < instIndex'
        BY <2>1, <2>2, <2>5
      <4>5. QED
        BY <4>2, <4>3, <4>4
    <3>3. QED
      BY <3>1, <3>2
  <2>6. QED
    BY <2>3, <2>4, <2>5
<1>3. NothingYet' /\ ScanOK' /\ Past'
  BY DEF IInv, TypeOK, NothingYet, ScanOK, Past
<1>4. RegistersConserved' /\ NoRegisterConflict' /\ SlotsUnshared' /\ OneLocation'
  BY DEF IInv, NothingYet, RegistersConserved, NoRegisterConflict,
         SlotsUnshared, OneLocation, Spilled
<1>5. QED
  BY <1>1, <1>2, <1>3, <1>4 DEF IInv

\* The intervals become pending; no value is placed yet.
LEMMA IntervalsInv ==
  ASSUME IInv, ComputeLiveIntervals
  PROVE  IInv'
<1> USE DEF ComputeLiveIntervals, analysis, IInv
<1>1. TypeOK' /\ RangesOK'
  BY DEF TypeOK, RangesOK, HasInterval
<1>2. NothingYet' /\ ScanOK' /\ Past'
  BY DEF TypeOK, NothingYet, ScanOK, Past, HasInterval
<1>3. RegistersConserved' /\ NoRegisterConflict' /\ SlotsUnshared'
  BY DEF NothingYet, RegistersConserved, NoRegisterConflict, SlotsUnshared, Spilled
<1>4. OneLocation'
  BY DEF NothingYet, OneLocation, Spilled, Scanned, HasInterval
<1>5. QED
  BY <1>1, <1>2, <1>3, <1>4
-----------------------------------------------------------------------------
(* The scan phase.                                                         *)

\* The interval the scan takes next has no place yet.
LEMMA NextUnplaced ==
  ASSUME IInv, NEW v \in Value, NextInterval(v)
  PROVE  /\ phase = "scan" /\ v \in pending /\ v \notin active
         /\ HasInterval(v)
         /\ valueToReg[v] = NoReg /\ valueToStackSlot[v] = NoSlot
BY DEF IInv, NextInterval, ScanOK, OneLocation, Scanned, Spilled

\* After expireOldIntervals the registers are still conserved, and whatever is
\* no longer active ended before every interval to come.
LEMMA AfterExpiry ==
  ASSUME IInv, NEW v \in Value, NextInterval(v)
  PROVE  /\ Unexpired(v) \subseteq active
         /\ Freed(v) \subseteq Reg
         /\ Reg = Freed(v) \cup {valueToReg[w] : w \in Unexpired(v)}
         /\ \A w \in Unexpired(v) : valueToReg[w] \notin Freed(v)
         /\ \A w \in Value \ Unexpired(v) :
              valueToReg[w] # NoReg => \A u \in pending : End(w) < Start(u)
<1>1. Unexpired(v) \subseteq active
  BY DEF Unexpired
<1>2. Freed(v) \subseteq Reg
  BY DEF IInv, RegistersConserved, Freed
<1>3. Reg = Freed(v) \cup {valueToReg[w] : w \in Unexpired(v)}
  BY <1>1 DEF IInv, RegistersConserved, Freed
<1>4. \A w \in Unexpired(v) : valueToReg[w] \notin Freed(v)
  BY <1>1 DEF IInv, RegistersConserved, Freed
<1>5. ASSUME NEW w \in Value \ Unexpired(v), valueToReg[w] # NoReg,
             NEW u \in pending
      PROVE  End(w) < Start(u)
  <2>1. CASE w \notin active
    BY <1>5, <2>1 DEF IInv, Past
  <2>2. CASE w \in active
    <3>1. End(w) < Start(v) /\ Start(v) <= Start(u)
      BY <1>5, <2>2 DEF Unexpired, NextInterval
    <3>2. HasInterval(w) /\ HasInterval(u) /\ HasInterval(v) /\ u \in Value
      BY <2>2, NextUnplaced DEF IInv, ScanOK, TypeOK
    <3>3. End(w) \in Nat /\ Start(v) \in Nat /\ Start(u) \in Nat
      BY <3>2, IntervalEnds DEF IInv
    <3>4. QED
      BY <3>1, <3>3
  <2>3. QED
    BY <2>1, <2>2
<1>6. QED
  BY <1>1, <1>2, <1>3, <1>4, <1>5

\* A free register is given out.
LEMMA AllocateInv ==
  ASSUME IInv, NEW v \in Value, NEW r \in Reg, AllocateRegister(v, r)
  PROVE  IInv'
<1>1. NextInterval(v) /\ r \in Freed(v)
  BY DEF AllocateRegister
<1>2. /\ phase = "scan" /\ v \in pending /\ v \notin active /\ HasInterval(v)
      /\ valueToReg[v] = NoReg /\ valueToStackSlot[v] = NoSlot
  BY <1>1, NextUnplaced
<1>3. /\ Unexpired(v) \subseteq active
      /\ Freed(v) \subseteq Reg
      /\ Reg = Freed(v) \cup {valueToReg[w] : w \in Unexpired(v)}
      /\ \A w \in Unexpired(v) : valueToReg[w] \notin Freed(v)
      /\ \A w \in Value \ Unexpired(v) :
           valueToReg[w] # NoReg => \A u \in pending : End(w) < Start(u)
  BY <1>1, AfterExpiry
<1>4. /\ freeRegs' = Freed(v) \ {r}
      /\ valueToReg' = [valueToReg EXCEPT ![v] = r]
      /\ active' = Unexpired(v) \cup {v}
      /\ pending' = pending \ {v}
      /\ phase' = phase /\ code' = code /\ instIndex' = instIndex
      /\ liveRanges' = liveRanges /\ valueToStackSlot' = valueToStackSlot
      /\ spillSlotCount' = spillSlotCount
  BY DEF AllocateRegister, analysis
<1>5. /\ \A w : Start(w)' = Start(w) /\ End(w)' = End(w)
      /\ \A w : HasInterval(w)' = HasInterval(w)
      /\ \A w, u : Overlaps(w, u)' = Overlaps(w, u)
  BY <1>4, IntervalsStable
<1>6. valueToReg \in [Value -> Reg \cup {NoReg}] /\ NoReg \notin Reg
  BY RegAssumption DEF IInv, TypeOK, NoReg
<1>7. /\ valueToReg'[v] = r
      /\ \A w \in Value \ {v} : valueToReg'[w] = valueToReg[w]
  BY <1>4, <1>6
<1>8. TypeOK'
  BY <1>2, <1>3, <1>4, <1>6 DEF IInv, TypeOK
<1>9. RangesOK' /\ NothingYet'
  BY <1>2, <1>4, <1>5 DEF IInv, RangesOK, NothingYet
<1>10. ScanOK'
  BY <1>2, <1>3, <1>4, <1>5, <1>7 DEF IInv, ScanOK, TypeOK
<1>11. Past'
  BY <1>3, <1>4, <1>5, <1>7 DEF Past
<1>12. RegistersConserved'
  <2>1. \A w \in Unexpired(v) : w # v /\ w \in Value /\ valueToReg'[w] = valueToReg[w]
    BY <1>2, <1>3, <1>7 DEF IInv, TypeOK
  <2>2. Reg = freeRegs' \cup {valueToReg'[w] : w \in active'}
    BY <1>1, <1>3, <1>4, <1>7, <2>1
  <2>3. \A w \in active' : valueToReg'[w] \notin freeRegs'
    BY <1>1, <1>3, <1>4, <1>7, <2>1
  <2>4. \A w, u \in active' : valueToReg'[w] = valueToReg'[u] => w = u
    BY <1>1, <1>3, <1>4, <1>7, <2>1 DEF IInv, RegistersConserved
  <2>5. QED
    BY <2>2, <2>3, <2>4 DEF RegistersConserved
<1>13. NoRegisterConflict'
  <2> SUFFICES ASSUME NEW x \in Value, NEW y \in Value, x # y,
                      valueToReg'[x] # NoReg, valueToReg'[x] = valueToReg'[y]
               PROVE  ~Overlaps(x, y)
    BY <1>5 DEF NoRegisterConflict
  <2>1. CASE x # v /\ y # v
    BY <1>2, <1>7, <2>1 DEF IInv, NoRegisterConflict
  <2>2. ASSUME NEW w \in Value, w # v, valueToReg[w] = r
        PROVE  End(w) < Start(v)
    BY <1>1, <1>2, <1>3, <1>6, <2>2
  <2>3. CASE x = v
    BY <1>7, <2>2, <2>3 DEF Overlaps
  <2>4. CASE y = v
    BY <1>7, <2>2, <2>4 DEF Overlaps
  <2>5. QED
    BY <2>1, <2>3, <2>4
<1>14. SlotsUnshared'
  BY <1>4 DEF IInv, SlotsUnshared, Spilled
<1>15. OneLocation'
  BY <1>2, <1>4, <1>5, <1>6, <1>7 DEF IInv, OneLocation, Scanned, Spilled
<1>16. QED
  BY <1>8, <1>9, <1>10, <1>11, <1>12, <1>13, <1>14, <1>15 DEF IInv

\* The candidate goes to a fresh slot and v takes its register.
LEMMA SpillCandidateInv ==
  ASSUME IInv, NEW v \in Value, NEW c \in Value, SpillCandidate(v, c)
  PROVE  IInv'
<1>1. NextInterval(v) /\ Freed(v) = {} /\ c \in Unexpired(v)
  BY DEF SpillCandidate, EndsLast
<1>2. /\ phase = "scan" /\ v \in pending /\ v \notin active /\ HasInterval(v)
      /\ valueToReg[v] = NoReg /\ valueToStackSlot[v] = NoSlot
  BY <1>1, NextUnplaced
<1>3. /\ Unexpired(v) \subseteq active
      /\ Reg = Freed(v) \cup {valueToReg[w] : w \in Unexpired(v)}
      /\ \A w \in Value \ Unexpired(v) :
           valueToReg[w] # NoReg => \A u \in pending : End(w) < Start(u)
  BY <1>1, AfterExpiry
<1>4. /\ freeRegs' = {}
      /\ valueToReg' = [valueToReg EXCEPT ![c] = NoReg, ![v] = valueToReg[c]]
      /\ active' = (Unexpired(v) \ {c}) \cup {v}
      /\ pending' = pending \ {v}
      /\ phase' = phase /\ code' = code /\ instIndex' = instIndex
      /\ liveRanges' = liveRanges
      /\ valueToStackSlot' = [valueToStackSlot EXCEPT ![c] = spillSlotCount]
      /\ spillSlotCount' = spillSlotCount + 1
  BY <1>1 DEF SpillCandidate, analysis
<1>5. /\ \A w : Start(w)' = Start(w) /\ End(w)' = End(w)
      /\ \A w : HasInterval(w)' = HasInterval(w)
      /\ \A w, u : Overlaps(w, u)' = Overlaps(w, u)
  BY <1>4, IntervalsStable
<1>6. /\ valueToReg \in [Value -> Reg \cup {NoReg}] /\ NoReg \notin Reg
      /\ valueToStackSlot \in [Value -> Nat \cup {NoSlot}]
      /\ spillSlotCount \in Nat /\ NoSlot \notin Nat
  BY RegAssumption DEF IInv, TypeOK, NoReg, NoSlot
<1>7. /\ c # v /\ c \in active /\ valueToReg[c] \in Reg
      /\ c \notin pending /\ HasInterval(c)
  BY <1>1, <1>2, <1>3 DEF IInv, ScanOK
<1>8. /\ valueToReg'[v] = valueToReg[c] /\ valueToReg'[c] = NoReg
      /\ \A w \in Value \ {v, c} : valueToReg'[w] = valueToReg[w]
      /\ valueToStackSlot'[c] = spillSlotCount
      /\ \A w \in Value \ {c} : valueToStackSlot'[w] = valueToStackSlot[w]
  BY <1>4, <1>6, <1>7
<1>9. TypeOK'
  <2>1. TypeOK /\ c \in Value /\ v \in Value
    BY <1>2, <1>3, <1>7 DEF IInv, TypeOK
  <2>2. /\ active' \subseteq Value /\ pending' \subseteq Value
        /\ freeRegs' \subseteq Reg
    BY <1>2, <1>3, <1>4, <2>1 DEF TypeOK
  <2>3. valueToReg' \in [Value -> Reg \cup {NoReg}]
    BY <1>4, <1>6, <1>7, <2>1
  <2>4. valueToStackSlot' \in [Value -> Nat \cup {NoSlot}] /\ spillSlotCount' \in Nat
    BY <1>4, <1>6
  <2> QED
    BY <1>4, <2>1, <2>2, <2>3, <2>4 DEF TypeOK
<1>10. RangesOK' /\ NothingYet'
  BY <1>2, <1>4, <1>5 DEF IInv, RangesOK, NothingYet
<1>11. ScanOK'
  BY <1>2, <1>3, <1>4, <1>5, <1>7, <1>8 DEF IInv, ScanOK, TypeOK
<1>12. Past'
  <2> SUFFICES ASSUME NEW x \in Value \ active', valueToReg'[x] # NoReg,
                      NEW u \in pending'
               PROVE  End(x) < Start(u)
    BY <1>5 DEF Past
  <2>1. x # c /\ x # v /\ x \notin Unexpired(v)
    BY <1>4, <1>8
  <2>2. QED
    BY <1>3, <1>4, <1>8, <2>1
<1>13. RegistersConserved'
  <2>1. \A w \in Unexpired(v) \ {c} :
          w # v /\ w \in Value /\ valueToReg'[w] = valueToReg[w]
    BY <1>2, <1>3, <1>8 DEF IInv, TypeOK
  <2>2. Reg = freeRegs' \cup {valueToReg'[w] : w \in active'}
    <3>1. ASSUME NEW r \in Reg PROVE \E w \in active' : valueToReg'[w] = r
      <4>1. PICK w \in Unexpired(v) : valueToReg[w] = r
        BY <1>1, <1>3
      <4>2. QED
        BY <1>4, <1>8, <2>1, <4>1
    <3>2. ASSUME NEW w \in active' PROVE valueToReg'[w] \in Reg
      <4>1. CASE w = v
        BY <1>7, <1>8, <4>1
      <4>2. CASE w \in Unexpired(v) \ {c}
        BY <1>3, <2>1, <4>2 DEF IInv, ScanOK
      <4>3. QED
        BY <1>4, <4>1, <4>2
    <3>3. QED
      BY <1>4, <3>1, <3>2
  <2>3. \A w, u \in active' : valueToReg'[w] = valueToReg'[u] => w = u
    BY <1>1, <1>3, <1>4, <1>8, <2>1 DEF IInv, RegistersConserved
  <2>4. \A w \in active' : valueToReg'[w] \notin freeRegs'
    BY <1>4
  <2>5. QED
    BY <2>2, <2>3, <2>4 DEF RegistersConserved
<1>14. NoRegisterConflict'
  <2> SUFFICES ASSUME NEW x \in Value, NEW y \in Value, x # y,
                      valueToReg'[x] # NoReg, valueToReg'[x] = valueToReg'[y]
               PROVE  ~Overlaps(x, y)
    BY <1>5 DEF NoRegisterConflict
  <2>1. x # c /\ y # c
    BY <1>8
  <2>2. CASE x # v /\ y # v
    BY <1>2, <1>8, <2>1, <2>2 DEF IInv, NoRegisterConflict
  <2>3. ASSUME NEW w \in Value, w # v, w # c, valueToReg[w] = valueToReg[c]
        PROVE  End(w) < Start(v)
    <3>1. w \notin Unexpired(v)
      BY <1>3, <1>7, <2>3 DEF IInv, RegistersConserved
    <3>2. QED
      BY <1>2, <1>3, <1>6, <1>7, <2>3, <3>1
  <2>4. CASE x = v
    BY <1>8, <2>1, <2>3, <2>4 DEF Overlaps
  <2>5. CASE y = v
    BY <1>8, <2>1, <2>3, <2>5 DEF Overlaps
  <2>6. QED
    BY <2>2, <2>4, <2>5
<1>15. SlotsUnshared'
  <2>1. \A w \in Value \ {c} : w \in Spilled' => w \in Spilled
    BY <1>8 DEF Spilled
  <2>2. \A w \in Spilled : valueToStackSlot[w] \in Nat
    BY <1>6 DEF Spilled
  <2> SUFFICES ASSUME NEW x \in Spilled'
               PROVE  /\ valueToStackSlot'[x] < spillSlotCount'
                      /\ \A y \in Spilled' :
                           valueToStackSlot'[x] = valueToStackSlot'[y] => x = y
    BY DEF SlotsUnshared
  <2>3. x \in Value /\ \A y \in Spilled' : y \in Value
    BY DEF Spilled
  <2>4. valueToStackSlot'[x] < spillSlotCount'
    BY <1>4, <1>6, <1>8, <2>1, <2>2, <2>3 DEF IInv, SlotsUnshared
  <2>5. ASSUME NEW y \in Spilled', valueToStackSlot'[x] = valueToStackSlot'[y]
        PROVE  x = y
    BY <1>6, <1>8, <2>1, <2>2, <2>3, <2>5 DEF IInv, SlotsUnshared
  <2>6. QED
    BY <2>4, <2>5
<1>16. OneLocation'
  <2> SUFFICES ASSUME NEW x \in Value
               PROVE  IF x \in Scanned'
                        THEN (valueToReg'[x] # NoReg) # (x \in Spilled')
                        ELSE valueToReg'[x] = NoReg /\ x \notin Spilled'
    BY <1>2, <1>4 DEF OneLocation
  <2>1. Scanned' = Scanned \cup {v} /\ c \in Scanned /\ v \notin Scanned
    BY <1>2, <1>4, <1>5, <1>7 DEF Scanned
  <2>2. CASE x = v
    BY <1>2, <1>6, <1>7, <1>8, <2>1, <2>2 DEF Spilled
  <2>3. CASE x = c
    BY <1>6, <1>8, <2>1, <2>3 DEF Spilled
  <2>4. CASE x # v /\ x # c
    BY <1>2, <1>8, <2>1, <2>4 DEF IInv, OneLocation, Spilled
  <2>5. QED
    BY <2>2, <2>3, <2>4
<1>17. QED
  BY <1>9, <1>10, <1>11, <1>12, <1>13, <1>14, <1>15, <1>16 DEF IInv

\* v itself goes to a fresh slot.
LEMMA SpillCurrentInv ==
  ASSUME IInv, NEW v \in Value, SpillCurrent(v)
  PROVE  IInv'
<1>1. NextInterval(v) /\ Freed(v) = {}
  BY DEF SpillCurrent
<1>2. /\ phase = "scan" /\ v \in pending /\ v \notin active /\ HasInterval(v)
      /\ valueToReg[v] = NoReg /\ valueToStackSlot[v] = NoSlot
  BY <1>1, NextUnplaced
<1>3. /\ Unexpired(v) \subseteq active
      /\ Reg = Freed(v) \cup {valueToReg[w] : w \in Unexpired(v)}
      /\ \A w \in Value \ Unexpired(v) :
           valueToReg[w] # NoReg => \A u \in pending : End(w) < Start(u)
  BY <1>1, AfterExpiry
<1>4. /\ freeRegs' = {} /\ valueToReg' = valueToReg
      /\ active' = Unexpired(v) /\ pending' = pending \ {v}
      /\ phase' = phase /\ code' = code /\ instIndex' = instIndex
      /\ liveRanges' = liveRanges
      /\ valueToStackSlot' = [valueToStackSlot EXCEPT ![v] = spillSlotCount]
      /\ spillSlotCount' = spillSlotCount + 1
  BY <1>1 DEF SpillCurrent, analysis
<1>5. /\ \A w : Start(w)' = Start(w) /\ End(w)' = End(w)
      /\ \A w : HasInterval(w)' = HasInterval(w)
      /\ \A w, u : Overlaps(w, u)' = Overlaps(w, u)
  BY <1>4, IntervalsStable
<1>6. /\ valueToStackSlot \in [Value -> Nat \cup {NoSlot}]
      /\ spillSlotCount \in Nat /\ NoSlot \notin Nat
  BY DEF IInv, TypeOK, NoSlot
<1>7. /\ valueToStackSlot'[v] = spillSlotCount
      /\ \A w \in Value \ {v} : valueToStackSlot'[w] = valueToStackSlot[w]
  BY <1>4, <1>6
<1>8. TypeOK'
  BY <1>3, <1>4, <1>6 DEF IInv, TypeOK
<1>9. RangesOK' /\ NothingYet'
  BY <1>2, <1>4, <1>5 DEF IInv, RangesOK, NothingYet
<1>10. ScanOK' /\ Past'
  BY <1>2, <1>3, <1>4, <1>5 DEF IInv, ScanOK, Past, TypeOK
<1>11. RegistersConserved'
  BY <1>1, <1>3, <1>4 DEF IInv, RegistersConserved
<1>12. NoRegisterConflict'
  BY <1>2, <1>4, <1>5 DEF IInv, NoRegisterConflict
<1>13. SlotsUnshared'
  <2>1. \A w \in Value \ {v} : w \in Spilled' => w \in Spilled
    BY <1>7 DEF Spilled
  <2>2. \A w \in Spilled : valueToStackSlot[w] \in Nat
    BY <1>6 DEF Spilled
  <2> SUFFICES ASSUME NEW x \in Spilled'
               PROVE  /\ valueToStackSlot'[x] < spillSlotCount'
                      /\ \A y \in Spilled' :
                           valueToStackSlot'[x] = valueToStackSlot'[y] => x = y
    BY DEF SlotsUnshared
  <2>3. x \in Value /\ \A y \in Spilled' : y \in Value
    BY DEF Spilled
  <2>4. valueToStackSlot'[x] < spillSlotCount'
    BY <1>4, <1>6, <1>7, <2>1, <2>2, <2>3 DEF IInv, SlotsUnshared
  <2>5. ASSUME NEW y \in Spilled', valueToStackSlot'[x] = valueToStackSlot'[y]
        PROVE  x = y
    BY <1>6, <1>7, <2>1, <2>2, <2>3, <2>5 DEF IInv, SlotsUnshared
  <2>6. QED
    BY <2>4, <2>5
<1>14. OneLocation'
  <2> SUFFICES ASSUME NEW x \in Value
               PROVE  IF x \in Scanned'
                        THEN (valueToReg'[x] # NoReg) # (x \in Spilled')
                        ELSE valueToReg'[x] = NoReg /\ x \notin Spilled'
    BY <1>2, <1>4 DEF OneLocation
  <2>1. Scanned' = Scanned \cup {v} /\ v \notin Scanned
    BY <1>2, <1>4, <1>5 DEF Scanned
  <2>2. CASE x = v
    BY <1>2, <1>4, <1>6, <1>7, <2>1, <2>2 DEF Spilled
  <2>3. CASE x # v
    BY <1>2, <1>4, <1>7, <2>1, <2>3 DEF IInv, OneLocation, Spilled
  <2>4. QED
    BY <2>2, <2>3
<1>15. QED
  BY <1>8, <1>9, <1>10, <1>11, <1>12, <1>13, <1>14 DEF IInv

\* Returning changes no table; stuttering changes nothing.
LEMMA IdleInv ==
  ASSUME IInv, Finish \/ UNCHANGED vars
  PROVE  IInv'
<1>1. /\ pending' = pending /\ active' = active /\ freeRegs' = freeRegs
      /\ valueToReg' = valueToReg /\ valueToStackSlot' = valueToStackSlot
      /\ spillSlotCount' = spillSlotCount /\ code' = code
      /\ instIndex' = instIndex /\ liveRanges' = liveRanges
      /\ phase' = phase \/ (phase = "scan" /\ phase' = "done" /\ pending = {})
  BY DEF Finish, vars, analysis, allocation
<1>2. /\ \A w : Start(w)' = Start(w) /\ End(w)' = End(w)
      /\ \A w : HasInterval(w)' = HasInterval(w)
      /\ \A w, u : Overlaps(w, u)' = Overlaps(w, u)
  BY <1>1, IntervalsStable
<1>3. TypeOK' /\ RangesOK' /\ NothingYet'
  BY <1>1, <1>2 DEF IInv, TypeOK, RangesOK, NothingYet
<1>4. ScanOK' /\ Past' /\ RegistersConserved'
  BY <1>1, <1>2 DEF IInv, ScanOK, Past, RegistersConserved
<1>5. NoRegisterConflict' /\ SlotsUnshared' /\ OneLocation'
  BY <1>1, <1>2 DEF IInv, NoRegisterConflict, SlotsUnshared, OneLocation,
                    Scanned, Spilled
<1>6. QED
  BY <1>3, <1>4, <1>5 DEF IInv

LEMMA StepInv == IInv /\ [Next]_vars => IInv'
BY VisitInv, IntervalsInv, AllocateInv, SpillCandidateInv, SpillCurrentInv,
   IdleInv DEF Next

\* What the scan relies on holds after every interval: the holder of a register that is
\* given away has ended before every interval still to come.
THEOREM Invariance == Spec => []IInv
BY InitInv, StepInv, PTL DEF Spec

-----------------------------------------------------------------------------
(* The properties the runs check, for all constants.                       *)

\* Every variable keeps its type through allocate, for every function.
THEOREM TypeCorrect == Spec => []TypeOK
BY Invariance, PTL DEF IInv

\* Overlapping intervals never hold the same register.
THEOREM RegistersDisjoint == Spec => []NoRegisterConflict
BY Invariance, PTL DEF IInv

\* No register is lost or given out twice.
THEOREM Conservation == Spec => []RegistersConserved
BY Invariance, PTL DEF IInv

\* Stack slots are not shared and lie inside the frame.
THEOREM SlotsDisjoint == Spec => []SlotsUnshared
BY Invariance, PTL DEF IInv

\* Values that are alive together never share a place, register or slot.
THEOREM NothingShared == Spec => []PlacesUnshared
BY RegistersDisjoint, SlotsDisjoint, PTL DEF PlacesUnshared

\* Every scanned value is in exactly one of the two maps, the others in none.
THEOREM LocationUnique == Spec => []OneLocation
BY Invariance, PTL DEF IInv

-----------------------------------------------------------------------------
(* The allocator implements RegisterAssignment.                            *)

\* While the intervals stay the same, so does the interference.
LEMMA InterferenceStable ==
  ASSUME phase # "liveness", phase' # "liveness", UNCHANGED liveRanges
  PROVE  Interference' = Interference
BY IntervalsStable DEF Interference

LEMMA InterferenceType ==
  /\ Interference \subseteq Value \X Value
  /\ \A v, w \in Value : <<v, w>> \in Interference
       => /\ <<w, v>> \in Interference
          /\ v # w /\ phase # "liveness"
          /\ HasInterval(v) /\ HasInterval(w) /\ Overlaps(v, w)
BY DEF Interference, Overlaps

\* A placed value is in Place, and places say which map the value is in.
LEMMA PlaceCases ==
  ASSUME TypeOK, NEW v \in Value
  PROVE  /\ valueToReg[v] # NoReg => PlaceOf(v) = Promise!InReg(valueToReg[v])
         /\ valueToReg[v] = NoReg /\ valueToStackSlot[v] # NoSlot
              => PlaceOf(v) = Promise!InSlot(valueToStackSlot[v])
         /\ valueToReg[v] = NoReg /\ valueToStackSlot[v] = NoSlot
              => PlaceOf(v) = Promise!Unplaced
         /\ PlaceOf(v) \in Promise!Place
BY DEF TypeOK, PlaceOf, Promise!InReg, Promise!InSlot, Promise!Unplaced,
       Promise!Place

LEMMA InitPromise == Init => Promise!AInit
BY DEF Init, Fresh, Promise!AInit, Promise!Unplaced, Interference, PlaceOf

\* Values that interfere are in different places.
Apart ==
  \A v, w \in Value :
    v # w /\ <<v, w>> \in Interference /\ PlaceOf(v) # Promise!Unplaced
      => PlaceOf(w) # PlaceOf(v)

LEMMA PlacesApart == IInv => Apart
<1> SUFFICES ASSUME IInv, NEW v \in Value, NEW w \in Value, v # w,
                    <<v, w>> \in Interference, PlaceOf(v) # Promise!Unplaced
             PROVE  PlaceOf(w) # PlaceOf(v)
  BY DEF Apart
<1>1. phase # "liveness" /\ Overlaps(v, w)
  BY InterferenceType
<1>2. CASE valueToReg[v] # NoReg
  <2>1. valueToReg[w] # valueToReg[v]
    BY <1>1, <1>2 DEF IInv, NoRegisterConflict
  <2>2. QED
    BY <1>2, <2>1 DEF PlaceOf
<1>3. CASE valueToReg[v] = NoReg /\ valueToStackSlot[v] # NoSlot
  <2>1. valueToStackSlot[w] # valueToStackSlot[v]
    BY <1>3 DEF IInv, SlotsUnshared, Spilled
  <2>2. QED
    BY <1>3, <2>1 DEF PlaceOf
<1>4. QED
  BY <1>2, <1>3, PlaceCases DEF IInv

\* v is placed: a step PlaceValue of the abstract allocator.
LEMMA PlacingStep ==
  ASSUME IInv, IInv', Apart', NEW v \in Value,
         phase = "scan", phase' = "scan", UNCHANGED liveRanges,
         PlaceOf(v) = Promise!Unplaced, PlaceOf(v)' # Promise!Unplaced,
         PlaceOf(v)' \in Promise!Place,
         \A w \in Value \ {v} : PlaceOf(w)' = PlaceOf(w)
  PROVE  Promise!PlaceValue(v)
<1>1. Interference' = Interference
  BY InterferenceStable
<1>2. [w \in Value |-> PlaceOf(w)]'
        = [[w \in Value |-> PlaceOf(w)] EXCEPT ![v] = PlaceOf(v)']
  <2>1. \A w \in Value \ {v} : PlaceOf(w)' = PlaceOf(w)
    OBVIOUS
  <2>2. QED
    BY ONLY <2>1
<1>3. ASSUME NEW w \in Value \ {v}, <<v, w>> \in Interference
      PROVE  PlaceOf(w) # PlaceOf(v)'
  BY <1>1, <1>3 DEF Apart, Promise!Unplaced
<1>4. QED
  BY <1>1, <1>2, <1>3 DEF Promise!PlaceValue, Promise!NoConflict

LEMMA StepPromise ==
  ASSUME IInv, IInv', Apart', [Next]_vars
  PROVE  [Promise!ANext]_Promise!avars
<1> USE DEF analysis, allocation
<1>1. CASE VisitInstruction
  BY <1>1 DEF VisitInstruction, Promise!avars, Interference, PlaceOf
<1>2. CASE ComputeLiveIntervals
  <2>1. phase = "liveness" /\ phase' = "scan"
    BY <1>2 DEF ComputeLiveIntervals
  <2>2. Interference' \subseteq Value \X Value /\ Promise!Symmetric(Interference')
    BY DEF Promise!Symmetric, Interference, Overlaps
  <2>3. [v \in Value |-> PlaceOf(v)]' = [v \in Value |-> PlaceOf(v)]
    BY <1>2 DEF ComputeLiveIntervals, PlaceOf
  <2>4. Promise!Analyse
    BY <2>1, <2>2, <2>3 DEF Promise!Analyse
  <2>5. QED
    BY <2>4 DEF Promise!ANext
<1>3. ASSUME NEW v \in Value, NEW r \in Reg, AllocateRegister(v, r)
      PROVE  Promise!ANext
  <2>1. /\ phase = "scan" /\ phase' = "scan" /\ liveRanges' = liveRanges
        /\ valueToReg' = [valueToReg EXCEPT ![v] = r]
        /\ valueToStackSlot' = valueToStackSlot
    BY <1>3 DEF AllocateRegister, NextInterval
  <2>2. valueToReg[v] = NoReg /\ valueToStackSlot[v] = NoSlot
    BY <1>3, NextUnplaced DEF AllocateRegister
  <2>3. r # NoReg /\ valueToReg'[v] = r
    BY <2>1, RegAssumption DEF IInv, TypeOK, NoReg
  <2>4. PlaceOf(v) = Promise!Unplaced
    BY <2>2 DEF PlaceOf, Promise!Unplaced
  <2>5. PlaceOf(v)' = Promise!InReg(r)
    BY <2>3 DEF PlaceOf, Promise!InReg
  <2>6. \A w \in Value \ {v} : PlaceOf(w)' = PlaceOf(w)
    BY <2>1 DEF PlaceOf
  <2>7. Promise!PlaceValue(v)
    BY <2>1, <2>4, <2>5, <2>6, PlacingStep
       DEF Promise!InReg, Promise!Unplaced, Promise!Place
  <2>8. QED
    BY <2>7 DEF Promise!ANext
<1>4. ASSUME NEW v \in Value, NEW c \in Value, SpillCandidate(v, c)
      PROVE  Promise!ANext
  <2>1. /\ phase = "scan" /\ phase' = "scan" /\ liveRanges' = liveRanges
        /\ valueToReg' = [valueToReg EXCEPT ![c] = NoReg, ![v] = valueToReg[c]]
        /\ valueToStackSlot' = [valueToStackSlot EXCEPT ![c] = spillSlotCount]
        /\ c \in active
    BY <1>4 DEF SpillCandidate, NextInterval, EndsLast, Unexpired
  <2>2. /\ valueToReg[v] = NoReg /\ valueToStackSlot[v] = NoSlot
        /\ v \notin active
    BY <1>4, NextUnplaced DEF SpillCandidate
  <2>3. c # v /\ valueToReg[c] # NoReg
    BY <2>1, <2>2, RegAssumption DEF IInv, ScanOK, NoReg
  <2>4. /\ valueToReg'[v] = valueToReg[c] /\ valueToReg'[c] = NoReg
        /\ \A w \in Value \ {v, c} : valueToReg'[w] = valueToReg[w]
        /\ valueToStackSlot'[c] = spillSlotCount
        /\ \A w \in Value \ {c} : valueToStackSlot'[w] = valueToStackSlot[w]
        /\ spillSlotCount \in Nat /\ spillSlotCount # NoSlot
    BY <2>1, <2>3 DEF IInv, TypeOK, NoSlot
  <2>5. PlaceOf(v) = Promise!Unplaced
    BY <2>2 DEF PlaceOf, Promise!Unplaced
  <2>6. PlaceOf(c) = Promise!InReg(valueToReg[c]) /\ PlaceOf(v)' = PlaceOf(c)
    BY <2>3, <2>4 DEF PlaceOf, Promise!InReg
  <2>7. PlaceOf(c)' = Promise!InSlot(spillSlotCount)
    BY <2>4 DEF PlaceOf, Promise!InSlot
  <2>8. \A w \in Value \ {v, c} : PlaceOf(w)' = PlaceOf(w)
    BY <2>4 DEF PlaceOf
  <2>9. \A w \in Value : PlaceOf(w) # Promise!InSlot(spillSlotCount)
    <3> SUFFICES ASSUME NEW w \in Value,
                        PlaceOf(w) = Promise!InSlot(spillSlotCount)
                 PROVE  FALSE
      OBVIOUS
    <3>1. valueToStackSlot[w] = spillSlotCount /\ w \in Spilled
      BY <2>4 DEF PlaceOf, Promise!InSlot, Spilled
    <3>2. QED
      BY <2>4, <3>1 DEF IInv, SlotsUnshared
  <2>10. Interference' = Interference
    BY <2>1, InterferenceStable
  <2>11. ASSUME NEW w \in Value \ {c, v}, <<v, w>> \in Interference
         PROVE  PlaceOf(w) # PlaceOf(c)
    BY <2>6, <2>8, <2>10, <2>11 DEF Apart, Promise!InReg, Promise!Unplaced
  <2>12. [w \in Value |-> PlaceOf(w)]'
           = [[w \in Value |-> PlaceOf(w)]
                EXCEPT ![c] = PlaceOf(c)', ![v] = PlaceOf(c)]
    BY <2>3, <2>6, <2>8
  <2>13. Promise!Displace(c, v)
    <3>1. PlaceOf(c).kind = "reg"
      BY <2>6 DEF Promise!InReg
    <3>2. PlaceOf(c)' \in [kind : {"slot"}, at : Nat]
      BY <2>4, <2>7 DEF Promise!InSlot
    <3>3. \A w \in Value : PlaceOf(w) # PlaceOf(c)'
      BY <2>7, <2>9
    <3>4. phase # "liveness" /\ phase' # "liveness"
      BY <2>1
    <3>5. QED
      BY <2>3, <2>5, <2>10, <2>11, <2>12, <3>1, <3>2, <3>3, <3>4
         DEF Promise!Displace, Promise!NoConflict
  <2>14. QED
    BY <2>13 DEF Promise!ANext
<1>5. ASSUME NEW v \in Value, SpillCurrent(v)
      PROVE  Promise!ANext
  <2>1. /\ phase = "scan" /\ phase' = "scan" /\ liveRanges' = liveRanges
        /\ valueToReg' = valueToReg
        /\ valueToStackSlot' = [valueToStackSlot EXCEPT ![v] = spillSlotCount]
    BY <1>5 DEF SpillCurrent, NextInterval
  <2>2. valueToReg[v] = NoReg /\ valueToStackSlot[v] = NoSlot
    BY <1>5, NextUnplaced DEF SpillCurrent
  <2>3. /\ spillSlotCount \in Nat /\ spillSlotCount # NoSlot
        /\ valueToStackSlot'[v] = spillSlotCount
    BY <2>1 DEF IInv, TypeOK, NoSlot
  <2>4. PlaceOf(v) = Promise!Unplaced
    BY <2>2 DEF PlaceOf, Promise!Unplaced
  <2>5. PlaceOf(v)' = Promise!InSlot(spillSlotCount)
    BY <2>1, <2>2, <2>3 DEF PlaceOf, Promise!InSlot
  <2>6. \A w \in Value \ {v} : PlaceOf(w)' = PlaceOf(w)
    BY <2>1 DEF PlaceOf
  <2>7. Promise!PlaceValue(v)
    BY <2>1, <2>3, <2>4, <2>5, <2>6, PlacingStep
       DEF Promise!InSlot, Promise!Unplaced, Promise!Place
  <2>8. QED
    BY <2>7 DEF Promise!ANext
<1>6. CASE Finish \/ UNCHANGED vars
  <2>1. /\ liveRanges' = liveRanges /\ valueToReg' = valueToReg
        /\ valueToStackSlot' = valueToStackSlot
        /\ phase' = phase \/ (phase = "scan" /\ phase' = "done")
    BY <1>6 DEF Finish, vars
  <2>2. \A v : PlaceOf(v)' = PlaceOf(v)
    BY <2>1 DEF PlaceOf
  <2>3. Interference' = Interference
    BY <2>1, IntervalsStable DEF Interference
  <2>4. QED
    BY <2>1, <2>2, <2>3 DEF Promise!avars
<1>7. QED
  BY <1>1, <1>2, <1>3, <1>4, <1>5, <1>6 DEF Next

\* Whatever the function, the scan behaves as the abstract allocator does.
THEOREM Implementation == Spec => KeepsPromise
<1>1. IInv /\ IInv' /\ Apart' /\ [Next]_vars => [Promise!ANext]_Promise!avars
  BY StepPromise
<1>2. QED
  BY <1>1, InitPromise, Invariance, PlacesApart, PTL
     DEF Spec, KeepsPromise, Promise!ASpec

\* What the backend needs of the abstract allocator holds of this one: values
\* that interfere are never in the same place.
THEOREM PlacesConsistent == Spec => []Promise!Consistent
<1>1. Apart => Promise!Consistent
  BY DEF Apart, Promise!Consistent
<1>2. QED
  BY <1>1, Invariance, PlacesApart, PTL

\* A value stays where it is, but for one move from its register to a slot.
THEOREM Settled == Spec => PlacesSettle
<1> DEFINE Settle ==
      \A v \in Value :
        /\ valueToStackSlot[v] # NoSlot
             => valueToStackSlot'[v] = valueToStackSlot[v]
        /\ valueToReg[v] # NoReg /\ valueToReg'[v] # valueToReg[v]
             => valueToReg'[v] = NoReg /\ valueToStackSlot'[v] # NoSlot
<1>1. IInv /\ [Next]_vars => Settle \/ UNCHANGED vars
  <2> SUFFICES ASSUME IInv, Next
               PROVE  Settle
    OBVIOUS
  <2> USE DEF analysis, allocation
  <2>1. CASE VisitInstruction \/ ComputeLiveIntervals \/ Finish
    BY <2>1 DEF VisitInstruction, ComputeLiveIntervals, Finish
  <2>2. ASSUME NEW v \in Value, NEW r \in Reg, AllocateRegister(v, r)
        PROVE  Settle
    BY <2>2, NextUnplaced DEF AllocateRegister
  <2>3. ASSUME NEW v \in Value, NEW c \in Value, SpillCandidate(v, c)
        PROVE  Settle
    <3>1. /\ NextInterval(v) /\ c \in active
          /\ valueToReg' = [valueToReg EXCEPT ![c] = NoReg, ![v] = valueToReg[c]]
          /\ valueToStackSlot' = [valueToStackSlot EXCEPT ![c] = spillSlotCount]
      BY <2>3 DEF SpillCandidate, EndsLast, Unexpired
    <3>2. /\ valueToReg[v] = NoReg /\ valueToReg[c] # NoReg /\ HasInterval(c)
          /\ c \notin pending
      BY <3>1, NextUnplaced, RegAssumption DEF IInv, ScanOK, NoReg
    <3>3. valueToStackSlot[c] = NoSlot
      BY <3>2 DEF IInv, OneLocation, Scanned, Spilled
    <3>4. spillSlotCount # NoSlot /\ c # v
      BY <3>2 DEF IInv, TypeOK, NoSlot
    <3>5. \A w \in Value \ {v, c} : valueToReg'[w] = valueToReg[w]
      BY <3>1 DEF IInv, TypeOK
    <3>6. \A w \in Value \ {c} : valueToStackSlot'[w] = valueToStackSlot[w]
      BY <3>1 DEF IInv, TypeOK
    <3>7. valueToReg'[c] = NoReg /\ valueToStackSlot'[c] = spillSlotCount
      BY <3>1, <3>4 DEF IInv, TypeOK
    <3>8. QED
      BY <3>2, <3>3, <3>4, <3>5, <3>6, <3>7
  <2>4. ASSUME NEW v \in Value, SpillCurrent(v)
        PROVE  Settle
    BY <2>4, NextUnplaced DEF SpillCurrent
  <2>5. QED
    BY <2>1, <2>2, <2>3, <2>4 DEF Next
<1>2. IInv /\ [Next]_vars => [Settle]_vars
  BY <1>1
<1>3. QED
  BY <1>2, Invariance, PTL DEF Spec, PlacesSettle

-----------------------------------------------------------------------------
(* What is reached along the flow of control.                              *)

\* found is the least subset of B with the start that is closed under next.
IsLeast(found, start, next, B) ==
  /\ found \in SUBSET B
  /\ start \subseteq found
  /\ \A b \in found : next[b] \subseteq found
  /\ \A S : start \subseteq S /\ (\A b \in S \cap B : next[b] \subseteq S) => found \subseteq S

\* ReachedFrom finds it, of a finite set; of the positions in particular.
LEMMA FoundIsLeast ==
  ASSUME NEW B, Paths!IsFiniteSet(B), NEW n \in Nat, Paths!Cardinality(B) <= n,
         NEW start \in SUBSET B, NEW next \in [B -> SUBSET B]
  PROVE  IsLeast(ReachedFrom(start, next, n), start, next, B)
<1>1. 1 \in Nat \ {0}
  OBVIOUS
<1>2. /\ Paths!ReachedFrom(start, next, n) \in SUBSET B
      /\ start \subseteq Paths!ReachedFrom(start, next, n)
      /\ Paths!ClosedUnder(next, B, Paths!ReachedFrom(start, next, n))
      /\ \A S : start \subseteq S /\ Paths!ClosedUnder(next, B, S)
                  => Paths!ReachedFrom(start, next, n) \subseteq S
  BY <1>1, Paths!ReachedIsLeast
<1>3. ReachedFrom(start, next, n) = Paths!ReachedFrom(start, next, n)
  BY Zenon DEF ReachedFrom, Paths!ReachedFrom
<1> QED
  BY <1>2, <1>3 DEF Paths!ClosedUnder, IsLeast

LEMMA PositionsReached ==
  ASSUME NEW n \in Nat, NEW start \in SUBSET (1..n), NEW next \in [1..n -> SUBSET (1..n)]
  PROVE  IsLeast(ReachedFrom(start, next, n), start, next, 1..n)
<1>1. Paths!IsFiniteSet(1..n) /\ Paths!Cardinality(1..n) <= n
  BY Paths!FS_Interval
<1> QED
  BY <1>1, FoundIsLeast, Zenon


-----------------------------------------------------------------------------
(* Registers and liveness over the flow of control.                        *)

\* The ranges are the positions, counted from 0, that have been read and mention
\* the value; all positions have been read when the intervals are made.
Recorded ==
  /\ code \in Programs
  /\ liveRanges = [v \in Value |-> {i \in 0..(instIndex - 1) : v \in Mentions(code[i + 1])}]
  /\ phase # "liveness" => instIndex = Len(code)

LEMMA RecordedInit == Init => Recorded
<1> SUFFICES ASSUME Init PROVE Recorded
  OBVIOUS
<1>1. 0..(0 - 1) = {}
  OBVIOUS
<1> QED
  BY <1>1 DEF Init, Fresh, Recorded

LEMMA RecordedStep ==
  ASSUME IInv, Recorded, [Next]_vars
  PROVE  Recorded'
<1>0. code \in Seq(Instruction) /\ instIndex \in Nat /\ Len(code) \in Nat
  BY ProgramsAssumption DEF IInv, TypeOK
<1>1. CASE VisitInstruction
  <2>1. instIndex' = instIndex + 1 /\ code' = code /\ phase' = "liveness"
    BY <1>1 DEF VisitInstruction
  <2>2. \A i : i \in 0..(instIndex' - 1) <=> i \in 0..(instIndex - 1) \/ i = instIndex
    BY <1>0, <2>1
  <2>3. ASSUME NEW v \in Value
        PROVE  (IF v \in Mentions(code[instIndex + 1]) THEN liveRanges[v] \cup {instIndex}
                                                       ELSE liveRanges[v])
                 = {i \in 0..(instIndex' - 1) : v \in Mentions(code'[i + 1])}
    <3>1. liveRanges[v] = {i \in 0..(instIndex - 1) : v \in Mentions(code[i + 1])}
      BY DEF Recorded
    <3> QED
      BY <2>1, <2>2, <3>1
  <2>4. liveRanges' = [v \in Value |-> IF v \in Mentions(code[instIndex + 1])
                                         THEN liveRanges[v] \cup {instIndex} ELSE liveRanges[v]]
    BY <1>1 DEF VisitInstruction
  <2>5. liveRanges' = [v \in Value |-> {i \in 0..(instIndex' - 1) : v \in Mentions(code'[i + 1])}]
    BY <2>3, <2>4
  <2> QED
    BY <2>1, <2>5 DEF Recorded
<1>2. CASE ~VisitInstruction
  <2>1. /\ UNCHANGED <<code, instIndex, liveRanges>>
        /\ phase' # "liveness" => phase # "liveness" \/ instIndex = Len(code)
    <3>1. CASE ComputeLiveIntervals
      BY <3>1 DEF ComputeLiveIntervals, analysis
    <3>2. CASE Finish
      BY <3>2 DEF Finish, analysis
    <3>3. CASE \E v \in Value, r \in Reg : AllocateRegister(v, r)
      BY <3>3 DEF AllocateRegister, NextInterval, analysis
    <3>4. CASE \E v \in Value, c \in Value : SpillCandidate(v, c)
      BY <3>4 DEF SpillCandidate, NextInterval, analysis
    <3>5. CASE \E v \in Value : SpillCurrent(v)
      BY <3>5 DEF SpillCurrent, NextInterval, analysis
    <3>6. CASE UNCHANGED vars
      BY <3>6 DEF vars
    <3> QED
      BY <1>2, <3>1, <3>2, <3>3, <3>4, <3>5, <3>6 DEF Next
  <2> QED
    BY <2>1 DEF Recorded
<1> QED
  BY <1>1, <1>2

\* The recorded ranges are exactly the positions read so far that mention the value.
THEOREM RangesRecorded == Spec => []Recorded
BY RecordedInit, RecordedStep, Invariance, PTL DEF Spec

\* What LiveAt is: the least set of positions with those that use v that goes back
\* over every position that does not define v.
LEMMA LiveAtIsLeast ==
  ASSUME IInv, Recorded, NEW v \in Value
  PROVE  /\ LiveAt(code, v) \subseteq Index
         /\ \A i \in Index : v \in code[i].uses => i \in LiveAt(code, v)
         /\ \A i \in Index : v \notin code[i].defs /\ code[i].succ \cap LiveAt(code, v) # {}
                               => i \in LiveAt(code, v)
         /\ \A S : /\ \A i \in Index : v \in code[i].uses => i \in S
                   /\ \A i \in Index : code[i].succ \cap S # {} => i \in S
                   => LiveAt(code, v) \subseteq S
<1> DEFINE start == {i \in Index : v \in code[i].uses}
           back == [s \in Index |-> {i \in Index : v \notin code[i].defs /\ s \in code[i].succ}]
<1>0. Len(code) \in Nat /\ Index = 1..Len(code)
  BY DEF IInv, TypeOK, Index
<1>1. LiveAt(code, v) = ReachedFrom(start, back, Len(code))
  BY DEF LiveAt, Index
<1>2. start \in SUBSET (1..Len(code)) /\ back \in [1..Len(code) -> SUBSET (1..Len(code))]
  BY <1>0
<1> HIDE DEF start, back
<1>3. IsLeast(LiveAt(code, v), start, back, Index)
  BY <1>0, <1>1, <1>2, PositionsReached
<1>4. LiveAt(code, v) \subseteq Index /\ start \subseteq LiveAt(code, v)
  BY <1>3 DEF IsLeast
<1>5. ASSUME NEW i \in Index, v \notin code[i].defs, NEW s \in code[i].succ \cap LiveAt(code, v)
      PROVE  i \in LiveAt(code, v)
  <2>1. back[s] \subseteq LiveAt(code, v) /\ s \in Index
    BY <1>3, <1>4 DEF IsLeast
  <2>2. i \in back[s]
    BY <1>5, <2>1 DEF back
  <2> QED
    BY <2>1, <2>2
<1>6. ASSUME NEW S,
             \A i \in Index : v \in code[i].uses => i \in S,
             \A i \in Index : code[i].succ \cap S # {} => i \in S
      PROVE  LiveAt(code, v) \subseteq S
  <2>1. start \subseteq S
    BY <1>6 DEF start
  <2>2. \A s \in S \cap Index : back[s] \subseteq S
    BY <1>6 DEF back
  <2> QED
    BY <1>3, <2>1, <2>2 DEF IsLeast
<1>7. \A i \in Index : v \in code[i].uses => i \in LiveAt(code, v)
  BY <1>4 DEF start
<1> QED
  BY <1>4, <1>5, <1>6, <1>7

\* The positions that are reached are in every set with the first one that is closed
\* under succ.
LEMMA ReachableIsLeast ==
  ASSUME IInv, Recorded
  PROVE  /\ Reachable \subseteq Index
         /\ \A S : /\ 1 \in S
                   /\ \A i \in S \cap Index : code[i].succ \subseteq S
                   => Reachable \subseteq S
<1> DEFINE next == [i \in Index |-> code[i].succ]
<1>0. Len(code) \in Nat /\ Index = 1..Len(code)
  BY DEF IInv, TypeOK, Index
<1>1. Reachable = ReachedFrom({1} \cap Index, next, Len(code))
  BY DEF Reachable
<1>2. {1} \cap Index \in SUBSET (1..Len(code)) /\ next \in [1..Len(code) -> SUBSET (1..Len(code))]
  BY <1>0, SuccessorsAssumption DEF Recorded
<1>3. \A i \in Index : next[i] = code[i].succ
  OBVIOUS
<1> HIDE DEF next
<1>4. IsLeast(Reachable, {1} \cap Index, next, Index)
  BY <1>0, <1>1, <1>2, PositionsReached
<1> QED
  BY <1>3, <1>4 DEF IsLeast

\* In a function without loops, what is live is used there or later, and what is live
\* after a position that is reached is mentioned there or before, if nothing is live at
\* the entry.
LEMMA LiveIsUsedLater ==
  ASSUME IInv, Recorded, Forward, NEW v \in Value, NEW s \in LiveAt(code, v)
  PROVE  \E j \in Index : s <= j /\ v \in Mentions(code[j])
<1> DEFINE S == {i \in Index : \E j \in Index : i <= j /\ v \in Mentions(code[j])}
<1>0. Index \subseteq Nat
  BY DEF Index
<1>1. \A i \in Index : v \in code[i].uses => i \in S
  BY <1>0 DEF Mentions
<1>2. ASSUME NEW i \in Index, NEW b \in code[i].succ \cap S PROVE i \in S
  <2>1. PICK j \in Index : b <= j /\ v \in Mentions(code[j])
    OBVIOUS
  <2>2. b \in Nat /\ i < b
    BY <1>0 DEF Forward
  <2> QED
    BY <1>0, <2>1, <2>2
<1>3. LiveAt(code, v) \subseteq S
  <2> HIDE DEF S
  <2> QED
    BY <1>1, <1>2, LiveAtIsLeast
<1> QED
  BY <1>3

LEMMA LiveIsMentionedBefore ==
  ASSUME IInv, Recorded, Forward, DefinitionsReachUses(code), NEW v \in Value,
         NEW i \in Reachable, code[i].succ \cap LiveAt(code, v) # {}
  PROVE  \E j \in Index : j <= i /\ v \in Mentions(code[j])
<1> SUFFICES ASSUME \A j \in Index : j <= i => v \notin Mentions(code[j]) PROVE FALSE
  OBVIOUS
<1>0. Index \subseteq Nat /\ i \in Index
  BY ReachableIsLeast DEF Index
<1> DEFINE S == {j \in Nat : j > i \/ j \notin LiveAt(code, v)}
<1>1. 1 \in S
  BY DEF DefinitionsReachUses
<1>2. ASSUME NEW j \in S \cap Index, NEW s \in code[j].succ PROVE s \in S
  <2>1. s \in Nat /\ j < s
    <3>1. s \in 1..Len(code) /\ j \in 1..Len(code)
      BY SuccessorsAssumption DEF Recorded, Index
    <3> QED
      BY <3>1 DEF Forward
  <2>2. CASE s > i
    BY <2>1, <2>2
  <2>3. CASE s <= i
    <3>1. j <= i /\ v \notin code[j].defs /\ j \notin LiveAt(code, v)
      BY <1>0, <2>1, <2>3 DEF Mentions
    <3> QED
      BY <2>1, <3>1, LiveAtIsLeast
  <2>4. i \in Nat
    BY <1>0
  <2> HIDE DEF S
  <2> QED
    BY <2>1, <2>2, <2>3, <2>4
<1>3. i \in S
  <2> HIDE DEF S
  <2> QED
    BY <1>1, <1>2, ReachableIsLeast
<1>4. i \notin LiveAt(code, v) /\ v \notin code[i].defs
  BY <1>0, <1>3 DEF Mentions
<1> QED
  BY <1>0, <1>4, LiveAtIsLeast

LEMMA NothingClobbered ==
  ASSUME IInv, Recorded
  PROVE  NoClobber
<1> SUFFICES ASSUME phase = "done", Forward, DefinitionsReachUses(code), NEW v \in Value,
                    NEW i \in Reachable, NEW w \in code[i].defs \ {v}, valueToReg[w] # NoReg,
                    code[i].succ \cap LiveAt(code, v) # {}, valueToReg[v] = valueToReg[w]
             PROVE  FALSE
  BY DEF NoClobber
<1>0. code \in Seq(Instruction) /\ Len(code) \in Nat /\ Index = 1..Len(code) /\ i \in Index
  BY ReachableIsLeast DEF IInv, TypeOK, Index
<1>1. code[i] \in Instruction /\ w \in Value
  <2>1. code[i] \in Instruction
    BY <1>0
  <2> QED
    BY <2>1 DEF Instruction
<1>2. PICK s \in code[i].succ : s \in LiveAt(code, v)
  OBVIOUS
<1>3. s \in Nat /\ i < s
  BY <1>0, <1>2, LiveAtIsLeast DEF Forward
<1>4. PICK j \in Index : j <= i /\ v \in Mentions(code[j])
  BY LiveIsMentionedBefore
<1>5. PICK k \in Index : s <= k /\ v \in Mentions(code[k])
  BY <1>2, LiveIsUsedLater
<1>6. i - 1 \in liveRanges[w] /\ j - 1 \in liveRanges[v] /\ k - 1 \in liveRanges[v]
  <2>1. ASSUME NEW n \in Index, NEW x \in Value, x \in Mentions(code[n]) PROVE n - 1 \in liveRanges[x]
    <3>1. n - 1 \in 0..(Len(code) - 1) /\ (n - 1) + 1 = n
      BY <1>0
    <3>2. liveRanges[x] = {m \in 0..(Len(code) - 1) : x \in Mentions(code[m + 1])}
      BY DEF Recorded
    <3> QED
      BY <2>1, <3>1, <3>2
  <2> QED
    BY <1>0, <1>1, <1>4, <1>5, <2>1 DEF Mentions
<1>7. /\ Start(w) \in Nat /\ End(w) \in Nat /\ Start(w) <= i - 1 /\ i - 1 <= End(w)
      /\ Start(v) \in Nat /\ End(v) \in Nat /\ Start(v) <= j - 1 /\ k - 1 <= End(v)
  BY <1>1, <1>6, IntervalEnds DEF IInv, HasInterval
<1>8. Overlaps(v, w)
  BY <1>0, <1>3, <1>4, <1>5, <1>7 DEF Overlaps
<1>9. v # w /\ valueToReg[v] # NoReg
  OBVIOUS
<1>10. phase # "liveness" /\ NoRegisterConflict
  BY DEF IInv
<1> QED
  BY <1>1, <1>8, <1>9, <1>10 DEF NoRegisterConflict

\* In a function without loops that defines what it uses on every path, no instruction
\* overwrites the register of another value that is still to be used.
THEOREM NothingIsClobbered == Spec => []NoClobber
BY RangesRecorded, Invariance, NothingClobbered, PTL


-----------------------------------------------------------------------------
(* Spilling the interval that ends last spills as few as possible.         *)

LEMMA Parts ==
  ASSUME NEW X, IsFiniteSet(X), NEW Y
  PROVE  /\ IsFiniteSet(X \cap Y) /\ IsFiniteSet(X \ Y)
         /\ Cardinality(X) \in Nat /\ Cardinality(X \cap Y) \in Nat /\ Cardinality(X \ Y) \in Nat
         /\ Cardinality(X) = Cardinality(X \cap Y) + Cardinality(X \ Y)
<1>1. IsFiniteSet(X \cap Y) /\ IsFiniteSet(X \ Y)
  BY FS_Intersection, FS_Difference
<1>2. Cardinality(X) \in Nat /\ Cardinality(X \cap Y) \in Nat /\ Cardinality(X \ Y) \in Nat
  BY <1>1, FS_CardinalityType
<1>3. Cardinality(X \ Y) = Cardinality(X) - Cardinality(X \cap Y)
  BY FS_Difference
<1> QED
  BY <1>1, <1>2, <1>3

\* C is what covers a position: the K in registers, all of them in E, and the spilled P.
\* If at most n of C are outside of Q, and K are more than n, then E has more of Q
\* than of P.
LEMMA OneMoreNeeded ==
  ASSUME NEW C, IsFiniteSet(C), NEW n \in Nat,
         NEW K, NEW P, C = K \cup P, K \cap P = {}, Cardinality(K) > n,
         NEW Q \in SUBSET C, Cardinality(C \ Q) <= n,
         NEW E, K \subseteq E
  PROVE  /\ Cardinality(P \cap E) \in Nat /\ Cardinality(Q \cap E) \in Nat
         /\ Cardinality(P \cap E) + 1 <= Cardinality(Q \cap E)
<1>1. C \cap K = K /\ C \ K = P /\ C \cap Q = Q
  OBVIOUS
<1>2. /\ IsFiniteSet(K) /\ IsFiniteSet(P) /\ Cardinality(K) \in Nat /\ Cardinality(P) \in Nat
      /\ Cardinality(C) = Cardinality(K) + Cardinality(P)
  <2>1. /\ IsFiniteSet(C \cap K) /\ IsFiniteSet(C \ K)
        /\ Cardinality(C \cap K) \in Nat /\ Cardinality(C \ K) \in Nat
        /\ Cardinality(C) = Cardinality(C \cap K) + Cardinality(C \ K)
    BY Parts, Zenon
  <2> QED
    BY <1>1, <2>1
<1>3. /\ IsFiniteSet(Q) /\ Cardinality(Q) \in Nat /\ Cardinality(C \ Q) \in Nat
      /\ Cardinality(C) = Cardinality(Q) + Cardinality(C \ Q)
  <2>1. /\ IsFiniteSet(C \cap Q)
        /\ Cardinality(C \cap Q) \in Nat /\ Cardinality(C \ Q) \in Nat
        /\ Cardinality(C) = Cardinality(C \cap Q) + Cardinality(C \ Q)
    BY Parts, Zenon
  <2> QED
    BY <1>1, <2>1
<1>4. /\ Cardinality(P \cap E) \in Nat /\ Cardinality(P \ E) \in Nat /\ IsFiniteSet(P \ E)
      /\ Cardinality(P) = Cardinality(P \cap E) + Cardinality(P \ E)
  BY <1>2, Parts
<1>5. /\ Cardinality(Q \cap E) \in Nat /\ Cardinality(Q \ E) \in Nat
      /\ Cardinality(Q) = Cardinality(Q \cap E) + Cardinality(Q \ E)
  BY <1>3, Parts
<1>6. Q \ E \in SUBSET (P \ E)
  OBVIOUS
<1>7. Cardinality(Q \ E) <= Cardinality(P \ E)
  BY <1>4, <1>6, FS_Subset
<1> QED
  BY <1>2, <1>3, <1>4, <1>5, <1>7

\* Those of S that end before t.
EndedBefore(t, S) == {w \in S : End(w) < t}

\* Taking S off the scanned intervals leaves registers enough.
RelievesOf(scanned, S) ==
  \A p \in 0..Len(code) - 1 :
    Cardinality({w \in scanned \ S : CoversPoint(w, p)}) <= Cardinality(Reg)

\* Whatever set relieves the pressure, at least as many of it have ended at any
\* moment from now on.
Fewest(scanned, spilled) ==
  \A S \in SUBSET scanned : RelievesOf(scanned, S) =>
    \A t \in Nat : (\A w \in scanned : Start(w) <= t) =>
      Cardinality(EndedBefore(t, spilled)) <= Cardinality(EndedBefore(t, S))

\* The intervals to come start after those that were scanned.
InOrder == \A v \in Scanned, w \in pending : Start(v) <= Start(w)

SpillInv ==
  /\ spillSlotCount = Cardinality(Spilled)
  /\ phase # "liveness" => InOrder /\ Fewest(Scanned, Spilled)

\* One more interval that need not be spilled.
LEMMA FewestWithout ==
  ASSUME NEW scanned, scanned \subseteq Value, NEW spilled, NEW v \in Value \ scanned,
         \A w \in scanned \cup {v} : Start(w) \in Nat /\ End(w) \in Nat,
         Fewest(scanned, spilled)
  PROVE  \A S \in SUBSET (scanned \cup {v}) : RelievesOf(scanned \cup {v}, S) =>
           \A t \in Nat : (\A w \in scanned : Start(w) <= t) =>
             Cardinality(EndedBefore(t, spilled)) <= Cardinality(EndedBefore(t, S \ {v}))
<1> SUFFICES ASSUME NEW S \in SUBSET (scanned \cup {v}), RelievesOf(scanned \cup {v}, S)
             PROVE  RelievesOf(scanned, S \ {v})
  BY DEF Fewest
<1>1. ASSUME NEW p \in 0..Len(code) - 1
      PROVE  Cardinality({w \in scanned \ (S \ {v}) : CoversPoint(w, p)}) <= Cardinality(Reg)
  <2> DEFINE small == {w \in scanned \ (S \ {v}) : CoversPoint(w, p)}
             large == {w \in (scanned \cup {v}) \ S : CoversPoint(w, p)}
  <2>1. small \in SUBSET large /\ large \in SUBSET Value
    OBVIOUS
  <2>2. Cardinality(large) <= Cardinality(Reg)
    BY DEF RelievesOf
  <2> HIDE DEF small, large
  <2>3. IsFiniteSet(large) /\ IsFiniteSet(small)
    BY <2>1, ValueAssumption, FS_Subset
  <2>4. Cardinality(small) <= Cardinality(large)
    BY <2>1, <2>3, FS_Subset
  <2>5. Cardinality(small) \in Nat /\ Cardinality(large) \in Nat /\ Cardinality(Reg) \in Nat
    BY <2>3, RegAssumption, FS_CardinalityType
  <2>6. Cardinality(small) <= Cardinality(Reg)
    BY <2>2, <2>4, <2>5
  <2> QED
    BY <2>6 DEF small
<1> QED
  BY <1>1 DEF RelievesOf


LEMMA SetsOfValuesFinite ==
  ASSUME NEW S, S \subseteq Value
  PROVE  IsFiniteSet(S) /\ Cardinality(S) \in Nat
<1>1. S \in SUBSET Value
  OBVIOUS
<1>2. IsFiniteSet(S)
  BY <1>1, ValueAssumption, FS_Subset
<1> QED
  BY <1>2, FS_CardinalityType

LEMMA SubsetsAreSmaller ==
  ASSUME NEW S, S \subseteq Value, NEW T, T \subseteq S
  PROVE  Cardinality(T) <= Cardinality(S)
<1>1. T \in SUBSET S /\ IsFiniteSet(S)
  BY SetsOfValuesFinite
<1> QED
  BY <1>1, FS_Subset

LEMMA FewestUnspilled ==
  ASSUME NEW scanned, scanned \subseteq Value, NEW spilled, spilled \subseteq scanned,
         NEW v \in Value \ scanned,
         \A w \in scanned \cup {v} : Start(w) \in Nat /\ End(w) \in Nat,
         Fewest(scanned, spilled)
  PROVE  Fewest(scanned \cup {v}, spilled)
<1> SUFFICES ASSUME NEW S \in SUBSET (scanned \cup {v}), RelievesOf(scanned \cup {v}, S),
                    NEW t \in Nat, \A w \in scanned \cup {v} : Start(w) <= t
             PROVE  Cardinality(EndedBefore(t, spilled)) <= Cardinality(EndedBefore(t, S))
  BY DEF Fewest
<1>1. Cardinality(EndedBefore(t, spilled)) <= Cardinality(EndedBefore(t, S \ {v}))
  BY FewestWithout
<1>2. /\ EndedBefore(t, S \ {v}) \subseteq EndedBefore(t, S)
      /\ EndedBefore(t, S) \subseteq Value
      /\ EndedBefore(t, S \ {v}) \subseteq Value
      /\ EndedBefore(t, spilled) \subseteq Value
  BY DEF EndedBefore
<1>3. Cardinality(EndedBefore(t, S \ {v})) <= Cardinality(EndedBefore(t, S))
  BY <1>2, SubsetsAreSmaller
<1>4. /\ Cardinality(EndedBefore(t, S \ {v})) \in Nat /\ Cardinality(EndedBefore(t, S)) \in Nat
      /\ Cardinality(EndedBefore(t, spilled)) \in Nat
  BY <1>2, SetsOfValuesFinite
<1> QED
  BY <1>1, <1>3, <1>4

\* What ended before t: what ended before an earlier s, and what covers s and ended.
EndedAmong(C, t, S) == {w \in C \cap S : End(w) < t}

LEMMA EndedInParts ==
  ASSUME NEW S, S \subseteq Value, NEW s \in Nat, NEW t \in Nat, s <= t,
         \A w \in S : End(w) \in Nat,
         NEW C, \A w \in S : w \in C <=> s <= End(w)
  PROVE  Cardinality(EndedBefore(t, S))
           = Cardinality(EndedBefore(s, S)) + Cardinality(EndedAmong(C, t, S))
<1> DEFINE X == EndedBefore(t, S)
           Y == EndedBefore(s, S)
           Z == EndedAmong(C, t, S)
<1>1. X \cap Y = Y /\ X \ Y = Z /\ X \subseteq Value
  BY DEF EndedBefore, EndedAmong
<1> HIDE DEF X, Y, Z
<1>2. IsFiniteSet(X)
  BY <1>1, SetsOfValuesFinite
<1>3. Cardinality(X) = Cardinality(X \cap Y) + Cardinality(X \ Y)
  BY <1>2, Parts, Zenon
<1> QED
  BY <1>1, <1>3 DEF X, Y, Z

\* K and the spilled are what covers the start of v; K is one more than there are
\* registers, and c ends last of K.
LEMMA FewestSpilled ==
  ASSUME NEW scanned, scanned \subseteq Value, NEW spilled, spilled \subseteq scanned,
         NEW v \in Value \ scanned,
         \A w \in scanned \cup {v} : Start(w) \in Nat /\ End(w) \in Nat,
         Start(v) <= End(v), Start(v) \in 0..Len(code) - 1,
         \A w \in scanned : Start(w) <= Start(v),
         Fewest(scanned, spilled),
         NEW K, K \subseteq scanned \cup {v}, v \in K, K \cap spilled = {},
         Cardinality(K) > Cardinality(Reg),
         \A w \in scanned \cup {v} : Start(v) <= End(w) => w \in K \cup spilled,
         NEW c \in K, \A w \in K : Start(v) <= End(w) /\ End(w) <= End(c)
  PROVE  Fewest(scanned \cup {v}, spilled \cup {c})
<1> SUFFICES ASSUME NEW S \in SUBSET (scanned \cup {v}), RelievesOf(scanned \cup {v}, S),
                    NEW t \in Nat, \A w \in scanned \cup {v} : Start(w) <= t
             PROVE  Cardinality(EndedBefore(t, spilled \cup {c})) <= Cardinality(EndedBefore(t, S))
  BY DEF Fewest
<1>1. /\ Cardinality(EndedBefore(t, spilled)) <= Cardinality(EndedBefore(t, S \ {v}))
      /\ Cardinality(EndedBefore(Start(v), spilled)) <= Cardinality(EndedBefore(Start(v), S \ {v}))
  BY FewestWithout
<1> DEFINE s == Start(v)
           C == {w \in scanned \cup {v} : CoversPoint(w, s)}
           E == {w \in Value : End(w) < t}
<1>0. s \in Nat /\ c \in Value /\ End(c) \in Nat
  OBVIOUS
<1>2. \A w \in scanned \cup {v} : w \in C <=> s <= End(w)
  BY <1>0 DEF CoversPoint
<1>3. CASE t <= End(c)
  <2>1. EndedBefore(t, spilled \cup {c}) = EndedBefore(t, spilled)
    BY <1>0, <1>3 DEF EndedBefore
  <2>2. /\ EndedBefore(t, S \ {v}) \subseteq EndedBefore(t, S)
        /\ EndedBefore(t, S) \subseteq Value
        /\ EndedBefore(t, S \ {v}) \subseteq Value
        /\ EndedBefore(t, spilled) \subseteq Value
    BY DEF EndedBefore
  <2>3. Cardinality(EndedBefore(t, S \ {v})) <= Cardinality(EndedBefore(t, S))
    BY <2>2, SubsetsAreSmaller
  <2>4. /\ Cardinality(EndedBefore(t, S \ {v})) \in Nat /\ Cardinality(EndedBefore(t, S)) \in Nat
        /\ Cardinality(EndedBefore(t, spilled)) \in Nat
    BY <2>2, SetsOfValuesFinite
  <2> QED
    BY <1>1, <2>1, <2>3, <2>4
<1>4. CASE End(c) < t
  <2>1. K \subseteq E /\ s <= t
    BY <1>0, <1>4
  <2>2. C \subseteq Value /\ C = K \cup (C \cap spilled) /\ K \cap (C \cap spilled) = {}
    BY <1>2
  <2>3. Cardinality(C \ (C \cap S)) <= Cardinality(Reg)
    <3>1. C \ (C \cap S) = {w \in (scanned \cup {v}) \ S : CoversPoint(w, s)}
      OBVIOUS
    <3> QED
      BY <3>1 DEF RelievesOf
  <2>4. s <= t /\ s \in Nat
    BY <1>0, <2>1
  <2> HIDE DEF s, C, E
  <2>5. IsFiniteSet(C) /\ Cardinality(Reg) \in Nat
    BY <2>2, SetsOfValuesFinite, RegAssumption, FS_CardinalityType
  <2>6. /\ Cardinality(EndedAmong(C, t, spilled)) \in Nat
        /\ Cardinality(EndedAmong(C, t, S)) \in Nat
        /\ Cardinality(EndedAmong(C, t, spilled)) + 1 <= Cardinality(EndedAmong(C, t, S))
    <3> DEFINE P == C \cap spilled
               Q == C \cap S
    <3>1. Q \in SUBSET C
      OBVIOUS
    <3>2. C = K \cup P /\ K \cap P = {}
      BY <2>2
    <3>3. EndedAmong(C, t, spilled) = P \cap E /\ EndedAmong(C, t, S) = Q \cap E
      BY <2>2 DEF EndedAmong, E
    <3> HIDE DEF P, Q
    <3>4. Cardinality(C \ Q) <= Cardinality(Reg)
      BY <2>3 DEF Q
    <3>5. /\ Cardinality(P \cap E) \in Nat /\ Cardinality(Q \cap E) \in Nat
          /\ Cardinality(P \cap E) + 1 <= Cardinality(Q \cap E)
      BY <2>1, <2>5, <3>1, <3>2, <3>4, OneMoreNeeded
    <3> QED
      BY <3>3, <3>5
  <2>7. \A X : X \subseteq scanned \cup {v} =>
          Cardinality(EndedBefore(t, X))
            = Cardinality(EndedBefore(s, X)) + Cardinality(EndedAmong(C, t, X))
    <3> TAKE X
    <3> HAVE X \subseteq scanned \cup {v}
    <3>1. X \subseteq Value /\ \A w \in X : End(w) \in Nat
      OBVIOUS
    <3>2. \A w \in X : w \in C <=> s <= End(w)
      BY <1>2
    <3> QED
      BY <2>4, <3>1, <3>2, EndedInParts
  <2>8. Cardinality(EndedBefore(t, S))
          = Cardinality(EndedBefore(s, S)) + Cardinality(EndedAmong(C, t, S))
    BY <2>7
  <2>9. EndedBefore(s, S \ {v}) = EndedBefore(s, S)
    BY DEF EndedBefore, s
  <2>10. /\ EndedBefore(t, spilled \cup {c}) = EndedBefore(t, spilled) \cup {c}
         /\ c \notin EndedBefore(t, spilled)
    BY <1>4 DEF EndedBefore
  <2>11. /\ EndedBefore(t, spilled) \subseteq Value
         /\ EndedBefore(s, spilled) \subseteq Value
         /\ EndedBefore(s, S) \subseteq Value
    BY DEF EndedBefore
  <2>12. /\ IsFiniteSet(EndedBefore(t, spilled))
         /\ Cardinality(EndedBefore(s, spilled)) \in Nat /\ Cardinality(EndedBefore(s, S)) \in Nat
    BY <2>11, SetsOfValuesFinite
  <2>13. Cardinality(EndedBefore(t, spilled) \cup {c}) = Cardinality(EndedBefore(t, spilled)) + 1
    BY <2>10, <2>12, FS_AddElement
  <2>14. Cardinality(EndedBefore(s, spilled)) <= Cardinality(EndedBefore(s, S))
    BY <1>1, <2>9 DEF s
  <2>15. Cardinality(EndedBefore(t, spilled \cup {c}))
           = Cardinality(EndedBefore(s, spilled)) + Cardinality(EndedAmong(C, t, spilled)) + 1
    BY <2>7, <2>10, <2>13
  <2> QED
    BY <2>6, <2>8, <2>12, <2>14, <2>15
<1> QED
  BY <1>0, <1>3, <1>4


\* When no register is free, each is held by an active value.
LEMMA RegistersHeld ==
  ASSUME IInv, freeRegs = {}
  PROVE  IsFiniteSet(active) /\ Cardinality(Reg) <= Cardinality(active)
<1> DEFINE f == [w \in active |-> valueToReg[w]]
<1>1. active \subseteq Value /\ IsFiniteSet(active)
  BY SetsOfValuesFinite DEF IInv, TypeOK
<1>2. f \in Surjection(active, Reg)
  <2>1. \A w \in active : valueToReg[w] \in Reg
    BY DEF IInv, ScanOK
  <2>2. \A r \in Reg : \E w \in active : valueToReg[w] = r
    BY DEF IInv, RegistersConserved
  <2> QED
    BY <2>1, <2>2 DEF Surjection
<1> QED
  BY <1>1, <1>2, FS_Surjection

\* What is known of the next interval and of those scanned before it.
LEMMA NextIsLast ==
  ASSUME IInv, Recorded, SpillInv, NEW v \in Value, NextInterval(v)
  PROVE  /\ v \in pending /\ HasInterval(v)
         /\ Scanned \subseteq Value /\ v \notin Scanned
         /\ Spilled \subseteq Scanned
         /\ \A w \in Scanned \cup {v} : /\ Start(w) \in Nat /\ End(w) \in Nat
                                        /\ Start(w) <= Start(v)
         /\ Start(v) <= End(v) /\ Start(v) \in 0..Len(code) - 1
<1>1. v \in pending /\ HasInterval(v) /\ phase = "scan"
  BY DEF NextInterval, IInv, ScanOK
<1>2. Scanned \subseteq Value /\ v \notin Scanned /\ Spilled \subseteq Scanned
  BY <1>1 DEF Scanned, Spilled, IInv, OneLocation
<1>3. \A w \in Scanned \cup {v} : Start(w) \in Nat /\ End(w) \in Nat
  BY <1>1, IntervalEnds DEF Scanned, IInv
<1>4. \A w \in Scanned \cup {v} : Start(w) <= Start(v)
  BY <1>1, <1>3 DEF SpillInv, InOrder
<1>5. Start(v) <= End(v) /\ Start(v) \in 0..Len(code) - 1
  <2>1. PICK i : i \in liveRanges[v]
    BY <1>1 DEF HasInterval
  <2>2. Start(v) <= i /\ Start(v) <= End(v)
    BY <1>1, <2>1, IntervalEnds DEF IInv
  <2>3. i \in 0..(Len(code) - 1)
    BY <1>1, <2>1 DEF Recorded
  <2> QED
    BY <1>3, <2>2, <2>3
<1> QED
  BY <1>1, <1>2, <1>3, <1>4, <1>5

LEMMA KeepingIsFewest ==
  ASSUME IInv, Recorded, SpillInv, NEW v \in Value, NextInterval(v)
  PROVE  Fewest(Scanned \cup {v}, Spilled)
<1>1. Fewest(Scanned, Spilled)
  BY DEF SpillInv, NextInterval
<1> QED
  BY <1>1, NextIsLast, FewestUnspilled

LEMMA SpillingIsFewest ==
  ASSUME IInv, Recorded, SpillInv, NEW v \in Value, NextInterval(v), Freed(v) = {},
         NEW c \in Unexpired(v) \cup {v}, \A w \in Unexpired(v) \cup {v} : End(w) <= End(c)
  PROVE  c \notin Spilled /\ Fewest(Scanned \cup {v}, Spilled \cup {c})
<1> DEFINE K == active \cup {v}
<1>1. Fewest(Scanned, Spilled) /\ phase = "scan"
  BY DEF SpillInv, NextInterval
<1>2. Unexpired(v) = active /\ freeRegs = {}
  BY DEF Freed, Unexpired
<1>3. v \notin active /\ \A w \in active : w \in Scanned /\ valueToReg[w] \in Reg
  BY NextIsLast DEF IInv, ScanOK, Scanned, TypeOK
<1>4. \A w \in active : valueToReg[w] # NoReg
  BY <1>3, RegAssumption DEF NoReg
<1>5. K \cap Spilled = {}
  BY <1>1, <1>3, <1>4, NextIsLast DEF IInv, OneLocation
<1>6. Cardinality(K) > Cardinality(Reg)
  <2>1. IsFiniteSet(active) /\ Cardinality(Reg) <= Cardinality(active)
    BY <1>2, RegistersHeld
  <2>2. Cardinality(K) = Cardinality(active) + 1
    BY <1>3, <2>1, FS_AddElement
  <2>3. Cardinality(active) \in Nat /\ Cardinality(Reg) \in Nat
    BY <2>1, RegAssumption, FS_CardinalityType
  <2> QED
    BY <2>1, <2>2, <2>3
<1>7. \A w \in Scanned \cup {v} : Start(v) <= End(w) => w \in K \cup Spilled
  <2> SUFFICES ASSUME NEW w \in Scanned, Start(v) <= End(w), w \notin active, w \notin Spilled
               PROVE  FALSE
    OBVIOUS
  <2>1. w \in Value /\ valueToReg[w] # NoReg
    BY <1>1, NextIsLast DEF IInv, OneLocation
  <2>2. End(w) < Start(v)
    BY <2>1, NextIsLast DEF IInv, Past
  <2>3. Start(v) \in Nat /\ End(w) \in Nat
    BY NextIsLast
  <2> QED
    BY <2>2, <2>3
<1>8. \A w \in K : Start(v) <= End(w) /\ End(w) <= End(c)
  <2>1. \A w \in active : Start(v) <= End(w)
    <3>1. \A w \in active : ~(End(w) < Start(v))
      BY <1>2 DEF Unexpired
    <3> QED
      BY <1>3, <3>1, NextIsLast
  <2> QED
    BY <1>2, <2>1, NextIsLast
<1>9. K \subseteq Scanned \cup {v} /\ v \in K /\ c \in K
  BY <1>2, <1>3
<1> HIDE DEF K
<1>10. Fewest(Scanned \cup {v}, Spilled \cup {c})
  BY <1>1, <1>5, <1>6, <1>7, <1>8, <1>9, NextIsLast, FewestSpilled
<1> QED
  BY <1>5, <1>9, <1>10


\* The scan leaves what is said of the intervals alone.
LEMMA SpillInvKept ==
  ASSUME UNCHANGED <<code, liveRanges>>,
         spillSlotCount' = Cardinality(Spilled'),
         phase' # "liveness" =>
           /\ Fewest(Scanned', Spilled')
           /\ \A x \in Scanned', w \in pending' : Start(x) <= Start(w)
  PROVE  SpillInv'
<1>1. /\ \A x : Start(x)' = Start(x) /\ End(x)' = End(x)
      /\ code' = code
  BY IntervalsStable
<1> QED
  BY <1>1 DEF SpillInv, InOrder, Fewest, RelievesOf, EndedBefore, CoversPoint

LEMMA ScannedGrows ==
  ASSUME IInv, Recorded, SpillInv, NEW v \in Value, NextInterval(v),
         UNCHANGED <<code, liveRanges>>, pending' = pending \ {v}
  PROVE  /\ Scanned' = Scanned \cup {v}
         /\ \A x \in Scanned', w \in pending' : Start(x) <= Start(w)
<1>1. \A x : HasInterval(x)' = HasInterval(x)
  BY IntervalsStable
<1>2. v \in pending /\ HasInterval(v) /\ phase = "scan"
  BY NextIsLast DEF NextInterval
<1>3. Scanned' = Scanned \cup {v}
  BY <1>1, <1>2 DEF Scanned
<1> QED
  BY <1>2, <1>3 DEF NextInterval, SpillInv, InOrder

LEMMA SpillInvStep ==
  ASSUME IInv, Recorded, SpillInv, [Next]_vars
  PROVE  SpillInv'
<1>1. ASSUME NEW v \in Value, NEW r \in Reg, AllocateRegister(v, r) PROVE SpillInv'
  <2>1. NextInterval(v) /\ pending' = pending \ {v}
    BY <1>1 DEF AllocateRegister
  <2>2. UNCHANGED <<code, liveRanges, valueToStackSlot, spillSlotCount>>
    BY <1>1 DEF AllocateRegister, analysis
  <2>3. Spilled' = Spilled
    BY <2>2 DEF Spilled
  <2>4. /\ Scanned' = Scanned \cup {v}
        /\ \A x \in Scanned', w \in pending' : Start(x) <= Start(w)
    BY <2>1, <2>2, ScannedGrows
  <2>5. Fewest(Scanned \cup {v}, Spilled)
    BY <2>1, KeepingIsFewest
  <2>6. spillSlotCount' = Cardinality(Spilled') /\ Fewest(Scanned', Spilled')
    BY <2>2, <2>3, <2>4, <2>5 DEF SpillInv
  <2> QED
    BY <2>2, <2>4, <2>6, SpillInvKept
<1>2. ASSUME NEW v \in Value, NEW c \in Unexpired(v) \cup {v}, NextInterval(v), Freed(v) = {},
             \A w \in Unexpired(v) \cup {v} : End(w) <= End(c),
             UNCHANGED <<code, liveRanges>>, pending' = pending \ {v},
             valueToStackSlot' = [valueToStackSlot EXCEPT ![c] = spillSlotCount],
             spillSlotCount' = spillSlotCount + 1
      PROVE  SpillInv'
  <2>1. c \notin Spilled /\ Fewest(Scanned \cup {v}, Spilled \cup {c})
    BY <1>2, SpillingIsFewest
  <2>2. c \in Value /\ spillSlotCount \in Nat
    BY <1>2 DEF Unexpired, IInv, TypeOK
  <2>3. Spilled' = Spilled \cup {c}
    <3>1. spillSlotCount # NoSlot
      BY <2>2 DEF NoSlot
    <3>2. valueToStackSlot \in [Value -> Nat \cup {NoSlot}]
      BY DEF IInv, TypeOK
    <3>3. /\ valueToStackSlot'[c] = spillSlotCount
          /\ \A w \in Value \ {c} : valueToStackSlot'[w] = valueToStackSlot[w]
      BY <1>2, <2>2, <3>2
    <3> QED
      BY <2>2, <3>1, <3>3 DEF Spilled
  <2>4. /\ Scanned' = Scanned \cup {v}
        /\ \A x \in Scanned', w \in pending' : Start(x) <= Start(w)
    BY <1>2, ScannedGrows
  <2>5. spillSlotCount' = Cardinality(Spilled')
    <3>1. Spilled \subseteq Value
      BY DEF Spilled
    <3>2. Cardinality(Spilled \cup {c}) = Cardinality(Spilled) + 1
      BY <2>1, <3>1, SetsOfValuesFinite, FS_AddElement
    <3> QED
      BY <1>2, <2>3, <3>2 DEF SpillInv
  <2>6. Fewest(Scanned', Spilled')
    BY <2>1, <2>3, <2>4
  <2> QED
    BY <1>2, <2>4, <2>5, <2>6, SpillInvKept
<1>3. ASSUME NEW v \in Value, NEW c \in Value, SpillCandidate(v, c) PROVE SpillInv'
  <2> USE DEF SpillCandidate, analysis
  <2>1. NextInterval(v) /\ Freed(v) = {} /\ c \in Unexpired(v)
    BY <1>3 DEF EndsLast
  <2>2. \A w \in Unexpired(v) \cup {v} : End(w) <= End(c)
    <3>1. End(v) \in Nat /\ End(c) \in Nat /\ End(c) > End(v)
      BY <1>3, <2>1, NextIsLast, IntervalEnds DEF Unexpired, IInv, ScanOK
    <3> QED
      BY <1>3, <3>1 DEF EndsLast
  <2>3. /\ UNCHANGED <<code, liveRanges>> /\ pending' = pending \ {v}
        /\ valueToStackSlot' = [valueToStackSlot EXCEPT ![c] = spillSlotCount]
        /\ spillSlotCount' = spillSlotCount + 1
    BY <1>3
  <2> QED
    BY <1>2, <2>1, <2>2, <2>3
<1>4. ASSUME NEW v \in Value, SpillCurrent(v) PROVE SpillInv'
  <2> USE DEF SpillCurrent, analysis
  <2>1. NextInterval(v) /\ Freed(v) = {}
    BY <1>4
  <2>2. \A w \in Unexpired(v) \cup {v} : End(w) <= End(v)
    BY <1>4, <2>1, NextIsLast
  <2>3. /\ UNCHANGED <<code, liveRanges>> /\ pending' = pending \ {v}
        /\ valueToStackSlot' = [valueToStackSlot EXCEPT ![v] = spillSlotCount]
        /\ spillSlotCount' = spillSlotCount + 1
    BY <1>4
  <2> QED
    BY <1>2, <2>1, <2>2, <2>3
<1>5. CASE VisitInstruction
  <2>1. phase' = "liveness" /\ UNCHANGED <<valueToStackSlot, spillSlotCount>>
    BY <1>5 DEF VisitInstruction, allocation
  <2> QED
    BY <2>1 DEF SpillInv, Spilled
<1>6. CASE ComputeLiveIntervals
  <2>1. /\ UNCHANGED <<code, liveRanges, valueToStackSlot, spillSlotCount>>
        /\ pending' = {v \in Value : HasInterval(v)}
        /\ phase = "liveness"
    BY <1>6 DEF ComputeLiveIntervals, analysis
  <2>2. Spilled' = Spilled /\ Spilled = {}
    BY <2>1 DEF Spilled, IInv, NothingYet
  <2>3. Scanned' = {}
    <3>1. \A x : HasInterval(x)' = HasInterval(x)
      BY <2>1, IntervalsStable
    <3> QED
      BY <2>1, <3>1 DEF Scanned
  <2>4. \A t, S : S = {} => EndedBefore(t, S) = {}
    BY DEF EndedBefore
  <2>5. Fewest({}, {})
    <3>1. Cardinality({}) <= Cardinality({})
      BY FS_EmptySet
    <3> QED
      BY <2>4, <3>1 DEF Fewest
  <2>6. spillSlotCount' = Cardinality(Spilled') /\ Fewest(Scanned', Spilled')
    BY <2>1, <2>2, <2>3, <2>5 DEF SpillInv
  <2> QED
    BY <2>1, <2>3, <2>6, SpillInvKept
<1>7. CASE Finish \/ UNCHANGED vars
  <2>1. /\ UNCHANGED <<code, liveRanges, valueToStackSlot, spillSlotCount, pending>>
        /\ phase' # "liveness" => phase # "liveness"
    BY <1>7 DEF Finish, vars, analysis, allocation
  <2>2. Spilled' = Spilled
    BY <2>1 DEF Spilled
  <2>3. Scanned' = Scanned
    <3>1. \A x : HasInterval(x)' = HasInterval(x)
      BY <2>1, IntervalsStable
    <3> QED
      BY <2>1, <3>1 DEF Scanned
  <2>4. /\ spillSlotCount' = Cardinality(Spilled')
        /\ phase' # "liveness" =>
             /\ Fewest(Scanned', Spilled')
             /\ \A x \in Scanned', w \in pending' : Start(x) <= Start(w)
    BY <2>1, <2>2, <2>3 DEF SpillInv, InOrder
  <2> QED
    BY <2>1, <2>4, SpillInvKept
<1> QED
  BY <1>1, <1>3, <1>4, <1>5, <1>6, <1>7 DEF Next

LEMMA SpillInvInit == Init => SpillInv
<1> SUFFICES ASSUME Init PROVE SpillInv
  OBVIOUS
<1>1. Spilled = {}
  BY DEF Init, Fresh, Spilled
<1>2. Cardinality({}) = 0
  BY FS_EmptySet
<1> QED
  BY <1>1, <1>2 DEF Init, Fresh, SpillInv

\* At the end everything has ended.
LEMMA FewestIsMinimal ==
  ASSUME IInv, Recorded, SpillInv
  PROVE  SpillsMinimal
<1> SUFFICES ASSUME phase = "done", NEW S \in SUBSET Scanned, Relieves(S)
             PROVE  Cardinality(S) >= spillSlotCount
  BY DEF SpillsMinimal
<1>1. RelievesOf(Scanned, S)
  BY DEF Relieves, RelievesOf
<1>2. \A w \in Scanned : Start(w) <= Len(code) /\ End(w) < Len(code)
  <2> TAKE w \in Scanned
  <2>1. HasInterval(w) /\ w \in Value
    BY DEF Scanned
  <2>2. Start(w) \in Nat /\ End(w) \in Nat /\ Start(w) <= End(w) /\ End(w) \in liveRanges[w]
    BY <2>1, IntervalEnds DEF IInv
  <2>3. Len(code) \in Nat /\ End(w) \in 0..(Len(code) - 1)
    BY <2>1, <2>2 DEF Recorded, IInv, TypeOK
  <2> QED
    BY <2>2, <2>3
<1>3. Spilled \subseteq Scanned
  BY DEF IInv, OneLocation, Spilled
<1>4. EndedBefore(Len(code), S) = S /\ EndedBefore(Len(code), Spilled) = Spilled
  BY <1>2, <1>3 DEF EndedBefore
<1>5. Len(code) \in Nat
  BY DEF IInv, TypeOK
<1>6. Cardinality(EndedBefore(Len(code), Spilled)) <= Cardinality(EndedBefore(Len(code), S))
  BY <1>1, <1>2, <1>5 DEF SpillInv, Fewest
<1>7. Cardinality(Spilled) <= Cardinality(S)
  BY <1>4, <1>6
<1>8. Cardinality(S) \in Nat /\ Cardinality(Spilled) \in Nat
  BY <1>3, SetsOfValuesFinite DEF Scanned
<1> QED
  BY <1>7, <1>8 DEF SpillInv

\* No smaller set of values than those spilled would leave registers enough.
THEOREM FewestAreSpilled == Spec => []SpillsMinimal
<1>1. Spec => []SpillInv
  BY RangesRecorded, SpillInvInit, SpillInvStep, Invariance, PTL DEF Spec
<1> QED
  BY <1>1, RangesRecorded, Invariance, FewestIsMinimal, PTL
=============================================================================
