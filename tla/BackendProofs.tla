---------------------------- MODULE BackendProofs ----------------------------
(***************************************************************************)
(* Proofs about Backend for any functions that the verifier lets pass: DCE *)
(* and GVN change neither what a function calls nor what it returns nor    *)
(* what is in its stack slots, what constant propagation takes for a       *)
(* constant is one, and the allocator does under the backend what it does  *)
(* alone.                                                                  *)
(*                                                                         *)
(* Dead code elimination erases nothing and constant propagation leaves    *)
(* the IR alone, so the function that is compiled is the source after      *)
(* value numbering.  The two are executed side by side.  An operand may be *)
(* replaced if the instruction that computes it and the one that computed  *)
(* the same before agree, and they agree once both were executed: in their *)
(* block nothing redefines what the first has read.                        *)
(*                                                                         *)
(* At the end, what the machine does with the lines of an operation and    *)
(* with texts that are joined: FaithfulProofs needs it of every function.  *)
(***************************************************************************)
EXTENDS Backend, RegisterAllocatorProofs

-----------------------------------------------------------------------------
(* Functions of the IR.                                                    *)

LEMMA FunctionShape ==
  ASSUME NEW f, IsFunction(f)
  PROVE  /\ Len(f) \in Nat /\ DOMAIN f = 1..Len(f) /\ 1 \in DOMAIN f
         /\ f = [b \in DOMAIN f |-> f[b]]
         /\ \A b \in DOMAIN f :
              /\ f[b] \in [code : Seq(IRInstruction(f)), succs : Seq(Nat), preds : Seq(Nat)]
              /\ f[b].code \in Seq(IRInstruction(f))
              /\ Len(f[b].code) \in Nat /\ DOMAIN f[b].code = 1..Len(f[b].code)
<1> DEFINE B == [code : Seq(IRInstruction(f)), succs : Seq(Nat), preds : Seq(Nat)]
<1>1. f \in Seq(B) /\ f # <<>>
  BY DEF IsFunction
<1>2. Len(f) \in Nat /\ DOMAIN f = 1..Len(f) /\ 1 \in DOMAIN f /\ f = [b \in DOMAIN f |-> f[b]]
  <2> HIDE DEF B
  <2> QED
    BY <1>1
<1>3. ASSUME NEW b \in DOMAIN f PROVE f[b] \in B
  <2> HIDE DEF B
  <2> QED
    BY <1>1
<1>4. ASSUME NEW b \in DOMAIN f
      PROVE  /\ f[b].code \in Seq(IRInstruction(f))
             /\ Len(f[b].code) \in Nat /\ DOMAIN f[b].code = 1..Len(f[b].code)
  BY <1>3
<1> QED
  BY <1>2, <1>3, <1>4

LEMMA InstructionShape ==
  ASSUME NEW f, IsFunction(f), NEW b \in DOMAIN f, NEW i \in DOMAIN f[b].code
  PROVE  /\ f[b].code[i] \in IRInstruction(f)
         /\ <<b, i>> \in IR!Positions(f) /\ IR!At(f, <<b, i>>) = f[b].code[i]
         /\ WellFormed(f[b].code[i])
<1>1. f[b].code \in Seq(IRInstruction(f))
  BY FunctionShape
<1>2. f[b].code[i] \in IRInstruction(f)
  BY <1>1
<1>3. <<b, i>> \in IR!Positions(f) /\ IR!At(f, <<b, i>>) = f[b].code[i]
  BY DEF IR!Positions, IR!At
<1> QED
  BY <1>2, <1>3 DEF IsFunction

LEMMA PositionShape ==
  ASSUME NEW f, NEW p \in IR!Positions(f)
  PROVE  /\ p = <<p[1], p[2]>> /\ p[1] \in DOMAIN f /\ p[2] \in DOMAIN f[p[1]].code
         /\ IR!At(f, p) = f[p[1]].code[p[2]]
  BY DEF IR!Positions, IR!At

LEMMA PositionNumbers ==
  ASSUME NEW f, IsFunction(f), NEW p \in IR!Positions(f)
  PROVE  p[1] \in Nat \ {0} /\ p[2] \in Nat \ {0}
<1>1. p[1] \in DOMAIN f /\ p[2] \in DOMAIN f[p[1]].code
  BY PositionShape
<1>2. DOMAIN f = 1..Len(f) /\ Len(f) \in Nat
  BY FunctionShape
<1>3. DOMAIN f[p[1]].code = 1..Len(f[p[1]].code) /\ Len(f[p[1]].code) \in Nat
  BY <1>1, FunctionShape
<1>4. p[1] \in Nat \ {0}
  BY <1>1, <1>2
<1>5. p[2] \in Nat \ {0}
  BY <1>1, <1>3
<1> QED
  BY <1>4, <1>5

-----------------------------------------------------------------------------
(* Dead code elimination erases nothing.                                   *)

Blocks(I) == Seq([code : Seq(I), succs : Seq(Nat), preds : Seq(Nat)])

LEMMA BlocksShape ==
  ASSUME NEW I, NEW g \in Blocks(I)
  PROVE  /\ Len(g) \in Nat /\ DOMAIN g = 1..Len(g) /\ g = [b \in 1..Len(g) |-> g[b]]
         /\ \A b \in DOMAIN g :
              /\ g[b] \in [code : Seq(I), succs : Seq(Nat), preds : Seq(Nat)]
              /\ g[b].code \in Seq(I)
<1> DEFINE B == [code : Seq(I), succs : Seq(Nat), preds : Seq(Nat)]
<1>1. g \in Seq(B)
  BY DEF Blocks
<1>2. Len(g) \in Nat /\ DOMAIN g = 1..Len(g) /\ g = [b \in 1..Len(g) |-> g[b]]
  <2> HIDE DEF B
  <2> QED
    BY <1>1
<1>3. ASSUME NEW b \in DOMAIN g PROVE g[b] \in B
  <2> HIDE DEF B
  <2> QED
    BY <1>1
<1> QED
  BY <1>2, <1>3

\* Rewritten changes the instructions and nothing else.
LEMMA RewrittenIs ==
  ASSUME NEW I, NEW g \in Blocks(I), NEW J, NEW code_, \A b \in DOMAIN g : code_[b] \in Seq(J)
  PROVE  /\ IR!Rewritten(g, code_) \in Blocks(J)
         /\ Len(IR!Rewritten(g, code_)) = Len(g)
         /\ \A b \in DOMAIN g : IR!Rewritten(g, code_)[b] = [g[b] EXCEPT !.code = code_[b]]
<1> DEFINE B == [code : Seq(J), succs : Seq(Nat), preds : Seq(Nat)]
           r == [b \in DOMAIN g |-> [g[b] EXCEPT !.code = code_[b]]]
<1>1. Len(g) \in Nat /\ DOMAIN g = 1..Len(g)
  BY BlocksShape
<1>2. ASSUME NEW b \in DOMAIN g PROVE [g[b] EXCEPT !.code = code_[b]] \in B
  <2>1. g[b] \in [code : Seq(I), succs : Seq(Nat), preds : Seq(Nat)] /\ code_[b] \in Seq(J)
    BY BlocksShape
  <2> QED
    BY <2>1
<1>3. r \in [1..Len(g) -> B] /\ \A b \in DOMAIN g : r[b] = [g[b] EXCEPT !.code = code_[b]]
  <2> HIDE DEF B
  <2> QED
    BY <1>1, <1>2
<1>4. r \in Seq(B) /\ Len(r) = Len(g)
  <2> HIDE DEF B, r
  <2> QED
    BY <1>1, <1>3
<1>5. SubSeq(r, 1, Len(g)) = r
  <2> HIDE DEF B, r
  <2> QED
    BY <1>1, <1>4
<1>6. IR!Rewritten(g, code_) = r
  BY <1>5 DEF IR!Rewritten
<1> QED
  <2> HIDE DEF r
  <2> QED
    BY <1>3, <1>4, <1>6 DEF Blocks

LEMMA FiniteImage ==
  ASSUME NEW S, IsFiniteSet(S), NEW F
  PROVE  IsFiniteSet({F[x] : x \in S})
<1> DEFINE T == {F[x] : x \in S}
           f == [x \in S |-> F[x]]
<1>1. f \in Surjection(S, T)
  BY DEF Surjection
<1> QED
  BY <1>1, FS_Surjection

LEMMA PositionsFinite ==
  ASSUME NEW I, NEW g \in Blocks(I)
  PROVE  IsFiniteSet(IR!Positions(g)) /\ Cardinality(IR!Positions(g)) \in Nat
<1> DEFINE Row(b) == {<<b, i>> : i \in DOMAIN g[b].code}
<1>1. IsFiniteSet(DOMAIN g)
  BY BlocksShape, FS_Interval
<1>2. ASSUME NEW b \in DOMAIN g PROVE IsFiniteSet(Row(b))
  <2>1. g[b].code \in Seq(I)
    BY BlocksShape
  <2>2. IsFiniteSet(DOMAIN g[b].code)
    BY <2>1, FS_Interval
  <2> DEFINE F == [i \in DOMAIN g[b].code |-> <<b, i>>]
  <2>3. {F[i] : i \in DOMAIN g[b].code} = Row(b)
    OBVIOUS
  <2> HIDE DEF F
  <2>4. IsFiniteSet({F[i] : i \in DOMAIN g[b].code})
    BY <2>2, FiniteImage
  <2> QED
    BY <2>3, <2>4
<1>3. IsFiniteSet({Row(b) : b \in DOMAIN g})
  <2> DEFINE F == [b \in DOMAIN g |-> Row(b)]
  <2>1. {F[b] : b \in DOMAIN g} = {Row(b) : b \in DOMAIN g}
    OBVIOUS
  <2> HIDE DEF F
  <2>2. IsFiniteSet({F[b] : b \in DOMAIN g})
    BY <1>1, FiniteImage
  <2> QED
    BY <2>1, <2>2
<1>4. IsFiniteSet(UNION {Row(b) : b \in DOMAIN g})
  BY <1>2, <1>3, FS_UNION
<1> QED
  BY <1>4, FS_CardinalityType DEF IR!Positions

LEMMA SameCardinality == ASSUME NEW S PROVE IR!Cardinality(S) = Cardinality(S)
  BY DEF IR!Cardinality, Cardinality

\* What has an effect is live.
LEMMA EffectsLive ==
  ASSUME NEW I, NEW g \in Blocks(I)
  PROVE  IR!CollectLiveInstructions(g) \subseteq IR!LiveInstructions(g)
<1> DEFINE B == IR!Positions(g)
           start == IR!CollectLiveInstructions(g)
           n == Cardinality(B)
           step == [S \in SUBSET B |-> IR!MarkOperands(g, S)]
           Live[k \in 0..n] == IF k = 0 THEN start ELSE IR!MarkOperands(g, Live[k - 1])
<1>1. IR!LiveInstructions(g) = Live[n]
  BY SameCardinality DEF IR!LiveInstructions
<1>2. n \in Nat /\ start \in SUBSET B
  BY PositionsFinite DEF IR!CollectLiveInstructions
<1>3. \A S \in SUBSET B : IR!MarkOperands(g, S) \in SUBSET B /\ S \subseteq IR!MarkOperands(g, S)
  BY DEF IR!MarkOperands
<1>4. Paths!IsStep(B, step)
  BY <1>3 DEF Paths!IsStep
<1>5. PICK w \in [0..n -> SUBSET B] : Paths!Rounds(w, B, step, start, n)
  <2>1. 1 \in Nat \ {0}
    OBVIOUS
  <2> HIDE DEF step, start, n, B
  <2> QED
    BY <2>1, <1>2, <1>4, Paths!RoundsExist
<1> HIDE DEF n, start, B
<1>6. /\ w[0] = start
      /\ \A k \in 1..n : w[k] = IR!MarkOperands(g, w[k - 1])
  <2>1. ASSUME NEW k \in 1..n PROVE w[k - 1] \in SUBSET B
    BY <1>2
  <2> QED
    BY <1>5, <2>1 DEF Paths!Rounds
<1>7. w = [k \in 0..n |-> IF k = 0 THEN start ELSE IR!MarkOperands(g, w[k - 1])]
  <2>1. ASSUME NEW k \in 0..n, k # 0 PROVE w[k] = IR!MarkOperands(g, w[k - 1])
    BY <1>2, <1>6, <2>1
  <2> QED
    BY <1>6, <2>1
<1>8. Live = [k \in 0..n |-> IF k = 0 THEN start ELSE IR!MarkOperands(g, Live[k - 1])]
  BY <1>7
<1> HIDE DEF Live
<1> DEFINE Above == {k \in Nat : k <= n => Live[k] \in SUBSET B /\ start \subseteq Live[k]}
<1>9. 0 \in Above
  BY <1>2, <1>8
<1>10. ASSUME NEW k \in Nat, k \in Above PROVE k + 1 \in Above
  <2> SUFFICES ASSUME k + 1 <= n PROVE Live[k + 1] \in SUBSET B /\ start \subseteq Live[k + 1]
    OBVIOUS
  <2>1. k + 1 \in 0..n /\ k + 1 # 0 /\ (k + 1) - 1 = k
    BY <1>2
  <2>2. Live[k + 1] = IR!MarkOperands(g, Live[k])
    BY <1>8, <2>1
  <2> QED
    BY <1>3, <1>10, <2>2, <1>2
<1>11. \A k \in Nat : k \in Above
  <2> HIDE DEF Above
  <2> QED
    BY <1>9, <1>10, Paths!CountingUp
<1>12. n \in Above
  <2> HIDE DEF Above
  <2> QED
    BY <1>2, <1>11
<1> QED
  BY <1>1, <1>2, <1>12 DEF start, n

LEMMA NothingErased ==
  ASSUME NEW I, NEW g \in Blocks(I), NEW b \in DOMAIN g, NEW live,
         IR!CollectLiveInstructions(g) \subseteq live
  PROVE  IR!WithoutErased(g, live, b) = g[b].code
<1> DEFINE c == g[b].code
           n == Len(c)
           Kept[i \in 0..n] ==
             IF i = 0 THEN <<>>
             ELSE IF IR!Erased(g, live, <<b, i>>) THEN Kept[i - 1]
             ELSE Append(Kept[i - 1], c[i])
           w == [i \in 0..n |-> SubSeq(c, 1, i)]
<1>1. c \in Seq(I) /\ n \in Nat
  BY BlocksShape
<1>2. IR!WithoutErased(g, live, b) = Kept[n]
  BY DEF IR!WithoutErased
<1>3. ASSUME NEW i \in 1..n PROVE ~IR!Erased(g, live, <<b, i>>)
  <2>1. <<b, i>> \in IR!Positions(g)
    BY <1>1 DEF IR!Positions
  <2> QED
    BY <2>1 DEF IR!Erased, IR!CollectLiveInstructions, IR!IsInstructionDead
<1> HIDE DEF c, n
<1>4. ASSUME NEW i \in 1..n PROVE SubSeq(c, 1, i) = Append(SubSeq(c, 1, i - 1), c[i])
  BY <1>1 DEF n
<1>5. SubSeq(c, 1, 0) = <<>> /\ SubSeq(c, 1, n) = c
  BY <1>1 DEF n
<1>6. w = [i \in 0..n |-> IF i = 0 THEN <<>>
                          ELSE IF IR!Erased(g, live, <<b, i>>) THEN w[i - 1]
                          ELSE Append(w[i - 1], c[i])]
  <2>1. ASSUME NEW i \in 0..n, i # 0 PROVE i \in 1..n /\ i - 1 \in 0..n
    BY <1>1, <2>1
  <2> QED
    BY <1>3, <1>4, <1>5, <2>1
<1>7. Kept = [i \in 0..n |-> IF i = 0 THEN <<>>
                             ELSE IF IR!Erased(g, live, <<b, i>>) THEN Kept[i - 1]
                             ELSE Append(Kept[i - 1], c[i])]
  <2> HIDE DEF w
  <2> QED
    BY <1>6
<1> HIDE DEF Kept
<1> DEFINE Whole == {i \in Nat : i <= n => Kept[i] = SubSeq(c, 1, i)}
<1>8. 0 \in Whole
  BY <1>1, <1>5, <1>7
<1>9. ASSUME NEW i \in Nat, i \in Whole PROVE i + 1 \in Whole
  <2> SUFFICES ASSUME i + 1 <= n PROVE Kept[i + 1] = SubSeq(c, 1, i + 1)
    OBVIOUS
  <2>1. i + 1 \in 0..n /\ i + 1 # 0 /\ i + 1 \in 1..n /\ (i + 1) - 1 = i
    BY <1>1
  <2>2. Kept[i + 1] = Append(Kept[i], c[i + 1])
    BY <1>3, <1>7, <2>1
  <2> QED
    BY <1>1, <1>4, <1>9, <2>1, <2>2
<1>10. \A i \in Nat : i \in Whole
  <2> HIDE DEF Whole
  <2> QED
    BY <1>8, <1>9, Paths!CountingUp
<1> QED
  BY <1>1, <1>2, <1>5, <1>10 DEF c

\* DCE leaves the function as it is.
LEMMA DCEKeeps ==
  ASSUME NEW I, NEW g \in Blocks(I)
  PROVE  IR!DCE(g) = g
<1> DEFINE new == [b \in DOMAIN g |-> IR!WithoutErased(g, IR!LiveInstructions(g), b)]
<1>1. ASSUME NEW b \in DOMAIN g PROVE new[b] = g[b].code /\ new[b] \in Seq(I)
  BY EffectsLive, NothingErased, BlocksShape
<1>2. IR!DCE(g) = IR!Rewritten(g, new)
  BY DEF IR!DCE
<1> HIDE DEF new
<1>3. /\ IR!Rewritten(g, new) \in Blocks(I) /\ Len(IR!Rewritten(g, new)) = Len(g)
      /\ \A b \in DOMAIN g : IR!Rewritten(g, new)[b] = [g[b] EXCEPT !.code = new[b]]
  BY <1>1, RewrittenIs
<1>4. ASSUME NEW b \in DOMAIN g PROVE [g[b] EXCEPT !.code = new[b]] = g[b]
  <2>1. g[b] \in [code : Seq(I), succs : Seq(Nat), preds : Seq(Nat)]
    BY BlocksShape
  <2> QED
    BY <1>1, <2>1
<1>5. /\ DOMAIN g = 1..Len(g) /\ g = [b \in 1..Len(g) |-> g[b]]
      /\ IR!Rewritten(g, new) = [b \in 1..Len(g) |-> IR!Rewritten(g, new)[b]]
  BY <1>3, BlocksShape
<1> QED
  BY <1>2, <1>3, <1>4, <1>5

-----------------------------------------------------------------------------
(* Value numbering.                                                        *)

LEMMA FunctionBlocks ==
  ASSUME NEW f, IsFunction(f)
  PROVE  f \in Blocks(IRInstruction(f))
  BY DEF IsFunction, Blocks

\* The instruction at p computes once more what the one at q has computed, before
\* it in the same block.
Repeats(f, q, p) ==
  /\ q \in IR!Positions(f) /\ p \in IR!Positions(f)
  /\ q[1] = p[1] /\ q[2] < p[2]
  /\ IR!IsPure(IR!At(f, q)) /\ IR!IsPure(IR!At(f, p))
  /\ IR!At(f, q).op = IR!At(f, p).op /\ IR!At(f, q).args = IR!At(f, p).args

LEMMA ExistingRepeats ==
  ASSUME NEW f, IsFunction(f), NEW p \in IR!Redundant(f)
  PROVE  Repeats(f, IR!FindExisting(f, p), p)
<1>1. \A q \in IR!Computed(f, p) : q \in IR!Positions(f) /\ q[2] \in Nat
  <2>1. \A q \in IR!Computed(f, p) : q \in IR!Positions(f)
    BY DEF IR!Computed, IR!Earlier
  <2>2. \A q \in IR!Positions(f) : q[2] \in Nat
    BY PositionShape, FunctionShape
  <2> QED
    BY <2>1, <2>2
<1>2. IR!Computed(f, p) # {} /\ p \in IR!Positions(f) /\ IR!IsPure(IR!At(f, p))
  BY DEF IR!Redundant
<1> DEFINE seconds == {q[2] : q \in IR!Computed(f, p)}
<1>3. seconds # {} /\ seconds \subseteq Nat
  BY <1>1, <1>2
<1>4. PICK m \in seconds : \A k \in seconds : m <= k
  <2>1. 1 \in Nat \ {0}
    OBVIOUS
  <2> HIDE DEF seconds
  <2> QED
    BY <1>3, <2>1, Paths!LeastNumber
<1>5. \E q \in IR!Computed(f, p) : \A r \in IR!Computed(f, p) : q[2] <= r[2]
  BY <1>4
<1>6. IR!FindExisting(f, p) \in IR!Computed(f, p)
  BY <1>5 DEF IR!FindExisting
<1> QED
  BY <1>2, <1>6 DEF IR!Computed, IR!Earlier, IR!Expression, Repeats

LEMMA ReplacementRepeats ==
  ASSUME NEW f, IsFunction(f), NEW v \in DOMAIN IR!Replacements(f)
  PROVE  \E q, p \in IR!Positions(f) :
           /\ Repeats(f, q, p)
           /\ IR!At(f, p).res = v /\ IR!At(f, q).res = IR!Replacements(f)[v]
<1> DEFINE defining == CHOOSE p \in IR!Redundant(f) : IR!At(f, p).res = v
<1>1. /\ v \in {IR!At(f, p).res : p \in IR!Redundant(f)}
      /\ IR!Replacements(f)[v] = IR!At(f, IR!FindExisting(f, defining)).res
  BY DEF IR!Replacements
<1>2. defining \in IR!Redundant(f) /\ IR!At(f, defining).res = v
  BY <1>1
<1> HIDE DEF defining
<1>3. Repeats(f, IR!FindExisting(f, defining), defining)
  BY <1>2, ExistingRepeats
<1> QED
  BY <1>1, <1>2, <1>3 DEF Repeats

LEMMA PureResults ==
  ASSUME NEW f, IsFunction(f), NEW p \in IR!Positions(f), IR!IsPure(IR!At(f, p))
  PROVE  IR!At(f, p).res \in Temporaries /\ IR!At(f, p).res # IR!Null
<1>1. p[1] \in DOMAIN f /\ p[2] \in DOMAIN f[p[1]].code /\ IR!At(f, p) = f[p[1]].code[p[2]]
  BY PositionShape
<1>2. IR!At(f, p) \in IRInstruction(f) /\ WellFormed(IR!At(f, p))
  BY <1>1, InstructionShape
<1> QED
  BY <1>2 DEF IR!IsPure, WellFormed, IRInstruction

\* A replacement is a temporary, and no constant is replaced.
LEMMA ReplacementTemporary ==
  ASSUME NEW f, IsFunction(f), NEW v \in DOMAIN IR!Replacements(f)
  PROVE  v \in Temporaries /\ IR!Replacements(f)[v] \in Temporaries
<1>1. PICK q, p \in IR!Positions(f) :
        /\ Repeats(f, q, p)
        /\ IR!At(f, p).res = v /\ IR!At(f, q).res = IR!Replacements(f)[v]
  BY ReplacementRepeats
<1> QED
  BY <1>1, PureResults DEF Repeats

LEMMA ReplacedInstruction ==
  ASSUME NEW f, IsFunction(f), NEW inst \in IRInstruction(f)
  PROVE  IR!ReplaceUses(inst, IR!Replacements(f)) \in IRInstruction(f)
<1> DEFINE R == IR!Replacements(f)
           new == [i \in DOMAIN inst.args |-> IF inst.args[i] \in DOMAIN R
                                                THEN R[inst.args[i]] ELSE inst.args[i]]
<1>1. inst.args \in Seq(Operands)
  BY DEF IRInstruction
<1>2. \A v \in DOMAIN R : R[v] \in Operands
  BY ReplacementTemporary DEF Operands
<1> HIDE DEF R
<1>3. new \in Seq(Operands)
  BY <1>1, <1>2
<1>4. [inst EXCEPT !.args = new] \in IRInstruction(f)
  <2> HIDE DEF new
  <2> QED
    BY <1>3 DEF IRInstruction
<1> QED
  BY <1>4 DEF IR!ReplaceUses, R

\* GVN changes operands and leaves every instruction in its place.
LEMMA GVNIs ==
  ASSUME NEW f, IsFunction(f)
  PROVE  /\ IR!GVN(f) \in Blocks(IRInstruction(f))
         /\ Len(IR!GVN(f)) = Len(f)
         /\ \A b \in DOMAIN f :
              /\ Len(IR!GVN(f)[b].code) = Len(f[b].code)
              /\ IR!GVN(f)[b].preds = f[b].preds
              /\ \A i \in DOMAIN f[b].code :
                   IR!GVN(f)[b].code[i] = IR!ReplaceUses(f[b].code[i], IR!Replacements(f))
<1> DEFINE R == IR!Replacements(f)
           I == IRInstruction(f)
           new == [b \in DOMAIN f |-> [i \in DOMAIN f[b].code |-> IR!ReplaceUses(f[b].code[i], R)]]
<1>1. IR!GVN(f) = IR!Rewritten(f, new)
  BY DEF IR!GVN
<1>2. ASSUME NEW b \in DOMAIN f
      PROVE  /\ new[b] \in Seq(I) /\ Len(new[b]) = Len(f[b].code)
             /\ \A i \in DOMAIN f[b].code : new[b][i] = IR!ReplaceUses(f[b].code[i], R)
  <2>1. f[b].code \in Seq(I) /\ DOMAIN f[b].code = 1..Len(f[b].code) /\ Len(f[b].code) \in Nat
    BY FunctionShape
  <2>2. \A i \in DOMAIN f[b].code : IR!ReplaceUses(f[b].code[i], R) \in I
    <3> HIDE DEF R
    <3> QED
      BY <2>1, ReplacedInstruction DEF R
  <2>3. new[b] = [i \in DOMAIN f[b].code |-> IR!ReplaceUses(f[b].code[i], R)]
    OBVIOUS
  <2> HIDE DEF R, I, new
  <2> QED
    BY <2>1, <2>2, <2>3
<1>3. f \in Blocks(I)
  BY FunctionBlocks
<1> HIDE DEF new, I
<1>4. /\ IR!Rewritten(f, new) \in Blocks(I) /\ Len(IR!Rewritten(f, new)) = Len(f)
      /\ \A b \in DOMAIN f : IR!Rewritten(f, new)[b] = [f[b] EXCEPT !.code = new[b]]
  BY <1>2, <1>3, RewrittenIs
<1>5. \A b \in DOMAIN f : /\ [f[b] EXCEPT !.code = new[b]].code = new[b]
                          /\ [f[b] EXCEPT !.code = new[b]].preds = f[b].preds
  BY <1>3, BlocksShape
<1>6. \A b \in DOMAIN f : IR!GVN(f)[b].code = new[b] /\ IR!GVN(f)[b].preds = f[b].preds
  BY <1>1, <1>4, <1>5
<1>7. IR!GVN(f) \in Blocks(I) /\ Len(IR!GVN(f)) = Len(f)
  BY <1>1, <1>4
<1> QED
  BY <1>2, <1>6, <1>7 DEF I

LEMMA OptimizedIs ==
  ASSUME NEW f, IsFunction(f)
  PROVE  IR!Optimized(f) = IR!GVN(f)
  BY FunctionBlocks, GVNIs, DCEKeeps DEF IR!Optimized

-----------------------------------------------------------------------------
(* What the verifier and createTemp promise.                               *)

\* The instruction at p comes before the i-th of block b in the text.
Before(p, b, i) == p[1] < b \/ (p[1] = b /\ p[2] < i)

\* Two instructions with the same result are one.
LEMMA OneDefinition ==
  ASSUME NEW f, IsFunction(f), NEW p \in IR!Positions(f), NEW q \in IR!Positions(f),
         IR!At(f, p).res \in Temporaries, IR!At(f, q).res = IR!At(f, p).res
  PROVE  q = p
<1>1. \A v \in Temporaries : v # IR!Null
  <2>1. \A v \in Temporaries : v[1] = "temp"
    BY DEF Temporaries
  <2> QED
    BY <2>1 DEF IR!Null
<1> QED
  BY <1>1 DEF IsFunction, SingleDefinitions

\* What an instruction uses is defined before it in the text, unless it is a phi node.
LEMMA DefinedEarlier ==
  ASSUME NEW f, IsFunction(f), NEW b \in DOMAIN f, NEW i \in DOMAIN f[b].code,
         f[b].code[i].op # "phi", NEW k \in DOMAIN f[b].code[i].args,
         f[b].code[i].args[k] \in Temporaries
  PROVE  \E p \in IR!Positions(f) :
           IR!At(f, p).res = f[b].code[i].args[k] /\ Before(p, b, i)
<1> DEFINE v == f[b].code[i].args[k]
<1>1. /\ b \in 1..Len(f) /\ DOMAIN f = 1..Len(f) /\ Len(f) \in Nat
      /\ i \in 1..Len(f[b].code) /\ DOMAIN f[b].code = 1..Len(f[b].code) /\ Len(f[b].code) \in Nat
  BY FunctionShape
<1>2. Verifier!CheckDefBeforeUse(f, 0)
  BY DEF IsFunction, Verified
<1>3. v \in Verifier!ToSet(f[b].code[i].args)
  BY DEF Verifier!ToSet
<1>4. Verifier!IsConstant(v) \/ v \in Verifier!DefinedBefore(f, 0, b, i)
  BY <1>1, <1>2, <1>3 DEF Verifier!CheckDefBeforeUse
<1>5. ~Verifier!IsConstant(v)
  BY DEF Verifier!IsConstant, Temporaries
<1> HIDE DEF v
<1>6. \/ \E j \in 1..b - 1 : \E m \in 1..Len(f[j].code) : f[j].code[m].res = v
      \/ \E m \in 1..i - 1 : f[b].code[m].res = v
  <2> DEFINE params == {Verifier!Param(p) : p \in 1..0}
             above == UNION {{f[j].code[m].res : m \in 1..Len(f[j].code)} : j \in 1..b - 1}
             here == {f[b].code[m].res : m \in 1..i - 1}
  <2>1. v \in params \cup above \cup here
    BY <1>4, <1>5 DEF Verifier!DefinedBefore
  <2>2. params = {}
    OBVIOUS
  <2>3. v \in above => \E j \in 1..b - 1 : v \in {f[j].code[m].res : m \in 1..Len(f[j].code)}
    BY ZenonT(30)
  <2> HIDE DEF params
  <2> QED
    BY <2>1, <2>2, <2>3
<1>7. \A j \in DOMAIN f : \A m \in DOMAIN f[j].code :
        <<j, m>> \in IR!Positions(f) /\ IR!At(f, <<j, m>>) = f[j].code[m]
  BY InstructionShape
<1>8. CASE \E j \in 1..b - 1 : \E m \in 1..Len(f[j].code) : f[j].code[m].res = v
  <2>1. PICK j \in 1..b - 1 : \E m \in 1..Len(f[j].code) : f[j].code[m].res = v
    BY <1>8
  <2>2. j \in DOMAIN f /\ j < b
    <3> DEFINE n == Len(f)
    <3>1. n \in Nat /\ b \in 1..n /\ DOMAIN f = 1..n
      BY <1>1
    <3> HIDE DEF n
    <3> QED
      BY <3>1
  <2>3. PICK m \in DOMAIN f[j].code : f[j].code[m].res = v
    <3>1. DOMAIN f[j].code = 1..Len(f[j].code)
      BY <2>2, FunctionShape
    <3> QED
      BY <2>1, <3>1
  <2>4. Before(<<j, m>>, b, i)
    BY <2>2 DEF Before
  <2> QED
    BY <1>7, <2>2, <2>3, <2>4 DEF v
<1>9. CASE \E m \in 1..i - 1 : f[b].code[m].res = v
  <2>1. PICK m \in 1..i - 1 : f[b].code[m].res = v
    BY <1>9
  <2>2. m \in DOMAIN f[b].code /\ m < i
    BY <1>1
  <2>3. Before(<<b, m>>, b, i)
    BY <2>2 DEF Before
  <2> QED
    BY <1>7, <2>1, <2>2, <2>3 DEF v
<1> QED
  BY <1>6, <1>8, <1>9

\* A block that control can enter ends with its only terminator.
LEMMA TerminatorLast ==
  ASSUME NEW f, IsFunction(f), NEW b \in Enterable(f)
  PROVE  /\ b \in DOMAIN f
         /\ Len(f[b].code) \in DOMAIN f[b].code
         /\ IR!IsTerminator(f[b].code[Len(f[b].code)])
         /\ \A i \in DOMAIN f[b].code :
              i # Len(f[b].code) => ~IR!IsTerminator(f[b].code[i])
<1>1. b \in DOMAIN f /\ IR!Terminated(f[b]) /\ Verifier!CheckBlockTerminator(f, b)
  BY DEF IsFunction, Verified, Enterable
<1>2. f[b].code # <<>> /\ IR!IsTerminator(f[b].code[Len(f[b].code)])
  BY <1>1 DEF IR!Terminated, IR!Last
<1>3. \A k \in 1..Len(f[b].code) - 1 : ~IR!IsTerminator(f[b].code[k])
  BY <1>1, <1>2 DEF Verifier!CheckBlockTerminator, Verifier!Last, Verifier!IsTerminator, IR!IsTerminator
<1>4. f[b].code \in Seq(IRInstruction(f)) /\ Len(f[b].code) \in Nat
      /\ DOMAIN f[b].code = 1..Len(f[b].code)
  BY <1>1, FunctionShape
<1>5. Len(f[b].code) # 0
  <2> DEFINE I == IRInstruction(f)
  <2>1. f[b].code \in Seq(I)
    BY <1>4
  <2> HIDE DEF I
  <2> QED
    BY <1>2, <2>1
<1> QED
  BY <1>1, <1>2, <1>3, <1>4, <1>5


-----------------------------------------------------------------------------
(* What one instruction does.                                              *)

LEMMA TemporaryShape ==
  ASSUME NEW v \in Temporaries
  PROVE  v[1] = "temp" /\ v[2] \in Value /\ v = <<"temp", v[2]>> /\ v # IR!Null
<1>1. v[1] = "temp" /\ v[2] \in Value /\ v = <<"temp", v[2]>>
  BY DEF Temporaries
<1>2. IR!Null[1] = "null"
  BY DEF IR!Null
<1> QED
  BY <1>1, <1>2

LEMMA OperandShape ==
  ASSUME NEW v \in Operands
  PROVE  v \in Temporaries \/ (v[1] = "const" /\ v \notin Temporaries)
<1>1. CASE v \in {"const"} \X Int
  BY <1>1, TemporaryShape
<1>2. CASE v \in {"const"} \X Int \X Int
  BY <1>2, TemporaryShape
<1> QED
  BY <1>1, <1>2 DEF Operands

\* An execution of the IR.
IsState(s) ==
  /\ s = [mode |-> s.mode, to |-> s.to, from |-> s.from, env |-> s.env, entry |-> s.entry,
          mem |-> s.mem, answers |-> s.answers, calls |-> s.calls, val |-> s.val]
  /\ s.env = [v \in Value |-> s.env[v]]

\* The value of an instruction that looks at its operands only.
PureValue(s, inst) ==
  IF inst.op = "not" THEN IR!Negated(IR!ValueIn(s, inst.args[1]))
  ELSE IR!Applied(inst.op, IR!ValueIn(s, inst.args[1]), IR!ValueIn(s, inst.args[2]))

LEMMA DefinedEffects ==
  ASSUME NEW s, IsState(s), NEW inst, inst.res \in Temporaries, NEW v
  PROVE  /\ IsState(IR!Defined(s, inst, v))
         /\ IR!Defined(s, inst, v) = [s EXCEPT !.env = [s.env EXCEPT ![inst.res[2]] = v]]
         /\ IR!Defined(s, inst, v).env[inst.res[2]] = v
         /\ \A w \in Temporaries : w # inst.res =>
              IR!Defined(s, inst, v).env[w[2]] = s.env[w[2]]
<1> DEFINE e == [s.env EXCEPT ![inst.res[2]] = v]
<1>1. IR!Defined(s, inst, v) = [s EXCEPT !.env = e]
  BY DEF IR!Defined
<1>2. e = [w \in Value |-> e[w]] /\ e[inst.res[2]] = v
      /\ \A w \in Value : w # inst.res[2] => e[w] = s.env[w]
  BY TemporaryShape DEF IsState
<1>3. \A w \in Temporaries : w # inst.res => w[2] \in Value /\ w[2] # inst.res[2]
  BY TemporaryShape
<1> HIDE DEF e
<1>4. [s EXCEPT !.env = e].env = e /\ IsState([s EXCEPT !.env = e])
  BY <1>2 DEF IsState
<1> QED
  BY <1>1, <1>2, <1>3, <1>4 DEF e


\* The effect of an instruction on the state s, which becomes t.
Effect(s, inst, t) ==
  /\ IsState(t) /\ t.entry = s.entry /\ t.from = s.from
  /\ \A w \in Temporaries : w # inst.res => t.env[w[2]] = s.env[w[2]]
  /\ s.mode # "run" => t = s
  /\ s.mode = "run" /\ IR!IsTerminator(inst) =>
       /\ t.mode \in {"next", "done", "stuck"}
       /\ t.mode = "next" => t.to \in IR!ToSet(inst.to)
  /\ s.mode = "run" /\ ~IR!IsTerminator(inst) => t.mode \in {"run", "stuck"}
  /\ s.mode = "run" /\ IR!IsPure(inst) => t.env[inst.res[2]] = PureValue(s, inst)

LEMMA DefinedEffect ==
  ASSUME NEW f, NEW s, IsState(s), s.mode = "run", NEW inst, inst.res \in Temporaries, NEW v,
         ~IR!IsTerminator(inst), IR!IsPure(inst) => v = PureValue(s, inst)
  PROVE  Effect(s, inst, IR!Defined(s, inst, v))
<1> DEFINE t == IR!Defined(s, inst, v)
<1>1. /\ IsState(t) /\ t = [s EXCEPT !.env = [s.env EXCEPT ![inst.res[2]] = v]]
      /\ t.env[inst.res[2]] = v
      /\ \A w \in Temporaries : w # inst.res => t.env[w[2]] = s.env[w[2]]
  BY DefinedEffects
<1>2. s = [mode |-> s.mode, to |-> s.to, from |-> s.from, env |-> s.env, entry |-> s.entry,
           mem |-> s.mem, answers |-> s.answers, calls |-> s.calls, val |-> s.val]
  BY DEF IsState
<1>3. t.entry = s.entry /\ t.from = s.from /\ t.mode = s.mode
  BY <1>1, <1>2
<1> HIDE DEF t
<1> QED
  BY <1>1, <1>3 DEF Effect, t

LEMMA ExecutedEffect ==
  ASSUME NEW f, IsFunction(f), NEW inst \in IRInstruction(f), WellFormed(inst),
         NEW s, IsState(s)
  PROVE  Effect(s, inst, IR!Executed(s, inst))
<1> DEFINE t == IR!Executed(s, inst)
           arg(i) == IR!ValueIn(s, inst.args[i])
<1>1. inst.op \in Opcodes
  BY DEF IRInstruction
<1>2. s = [mode |-> s.mode, to |-> s.to, from |-> s.from, env |-> s.env, entry |-> s.entry,
           mem |-> s.mem, answers |-> s.answers, calls |-> s.calls, val |-> s.val]
      /\ s.env = [v \in Value |-> s.env[v]]
  BY DEF IsState
<1>3. CASE s.mode # "run"
  <2>1. t = s
    BY <1>3 DEF IR!Executed
  <2> QED
    BY <1>3, <2>1 DEF Effect
<1> SUFFICES ASSUME s.mode = "run" PROVE Effect(s, inst, t)
  BY <1>3
<1>4. inst.op \in IR!BinaryOperators \cup {"not", "load", "phi", "call"} => inst.res \in Temporaries
  BY DEF IRInstruction, WellFormed
<1>5. CASE inst.op \in {"label", "alloca"}
  <2>1. t = s /\ ~IR!IsTerminator(inst) /\ ~IR!IsPure(inst)
    BY <1>5 DEF IR!Executed, IR!IsTerminator, IR!IsPure, IR!BinaryOperators, IR!Relations,
                IR!Equalities, IR!BitOperators
  <2> QED
    BY <2>1 DEF Effect
<1>6. CASE inst.op = "store"
  <2>1. t = [s EXCEPT !.mem = [s.mem EXCEPT ![inst.args[2][2]] = arg(1)]]
    BY <1>2, <1>6 DEF IR!Executed, IR!BinaryOperators, IR!Relations, IR!Equalities, IR!BitOperators
  <2>2. ~IR!IsTerminator(inst) /\ ~IR!IsPure(inst)
    BY <1>6 DEF IR!IsTerminator, IR!IsPure, IR!BinaryOperators, IR!Relations,
                IR!Equalities, IR!BitOperators
  <2>3. IsState(t) /\ t.env = s.env /\ t.mode = "run" /\ t.entry = s.entry /\ t.from = s.from
    BY <1>2, <2>1 DEF IsState
  <2> QED
    BY <2>2, <2>3 DEF Effect
<1>7. CASE inst.op = "load"
  <2>1. t = IR!Defined(s, inst, s.mem[inst.args[1][2]])
    BY <1>7 DEF IR!Executed, IR!BinaryOperators, IR!Relations, IR!Equalities, IR!BitOperators
  <2>2. ~IR!IsTerminator(inst) /\ ~IR!IsPure(inst)
    BY <1>7 DEF IR!IsTerminator, IR!IsPure, IR!BinaryOperators, IR!Relations,
                IR!Equalities, IR!BitOperators
  <2> QED
    BY <1>4, <1>7, <2>1, <2>2, DefinedEffect
<1>8. CASE inst.op \in IR!BinaryOperators
  <2>1. t = IR!Defined(s, inst, IR!Applied(inst.op, arg(1), arg(2)))
    BY <1>8 DEF IR!Executed, IR!BinaryOperators, IR!Relations, IR!Equalities, IR!BitOperators
  <2>2. ~IR!IsTerminator(inst) /\ PureValue(s, inst) = IR!Applied(inst.op, arg(1), arg(2))
    BY <1>8 DEF IR!IsTerminator, PureValue, IR!BinaryOperators, IR!Relations, IR!Equalities,
                IR!BitOperators
  <2> QED
    BY <1>4, <1>8, <2>1, <2>2, DefinedEffect
<1>9. CASE inst.op = "not"
  <2>1. t = IR!Defined(s, inst, IR!Negated(arg(1)))
    BY <1>9 DEF IR!Executed, IR!BinaryOperators, IR!Relations, IR!Equalities, IR!BitOperators
  <2>2. ~IR!IsTerminator(inst) /\ PureValue(s, inst) = IR!Negated(arg(1))
    BY <1>9 DEF IR!IsTerminator, PureValue
  <2> QED
    BY <1>4, <1>9, <2>1, <2>2, DefinedEffect
<1>10. CASE inst.op = "phi"
  <2>1. t = IR!Defined(s, inst, IR!IncomingFrom(s, inst))
    BY <1>10 DEF IR!Executed, IR!BinaryOperators, IR!Relations, IR!Equalities, IR!BitOperators
  <2>2. ~IR!IsTerminator(inst) /\ ~IR!IsPure(inst)
    BY <1>10 DEF IR!IsTerminator, IR!IsPure, IR!BinaryOperators, IR!Relations,
                IR!Equalities, IR!BitOperators
  <2> QED
    BY <1>4, <1>10, <2>1, <2>2, DefinedEffect
<1>11. CASE inst.op = "call"
  <2>1. ~IR!IsTerminator(inst) /\ ~IR!IsPure(inst)
    BY <1>11 DEF IR!IsTerminator, IR!IsPure, IR!BinaryOperators, IR!Relations,
                IR!Equalities, IR!BitOperators
  <2>2. CASE s.answers = <<>>
    <3>1. t = [s EXCEPT !.mode = "stuck"]
      BY <1>11, <2>2 DEF IR!Executed, IR!BinaryOperators, IR!Relations, IR!Equalities, IR!BitOperators
    <3>2. IsState(t) /\ t.env = s.env /\ t.mode = "stuck" /\ t.entry = s.entry /\ t.from = s.from
      BY <1>2, <3>1 DEF IsState
    <3> QED
      BY <2>1, <3>2 DEF Effect
  <2>3. CASE s.answers # <<>>
    <3> DEFINE d == IR!Defined(s, inst, Head(s.answers))
               passed == <<inst.callee, [i \in DOMAIN inst.args |-> arg(i)]>>
    <3>1. Effect(s, inst, d)
      BY <1>4, <1>11, <2>1, DefinedEffect
    <3>2. t = [d EXCEPT !.answers = Tail(d.answers), !.calls = Append(d.calls, passed)]
      BY <1>11, <2>3 DEF IR!Executed, IR!BinaryOperators, IR!Relations, IR!Equalities, IR!BitOperators
    <3> HIDE DEF d, passed
    <3>3. IsState(t) /\ t.env = d.env /\ t.mode = d.mode /\ t.entry = d.entry /\ t.from = d.from
      BY <3>1, <3>2 DEF IsState, Effect
    <3> QED
      BY <2>1, <3>1, <3>3 DEF Effect
  <2> QED
    BY <2>2, <2>3
<1>12. CASE inst.op = "ret"
  <2>1. t = [s EXCEPT !.mode = "done", !.val = IF inst.args = <<>> THEN IR!Undefined ELSE arg(1)]
    BY <1>12 DEF IR!Executed, IR!BinaryOperators, IR!Relations, IR!Equalities, IR!BitOperators
  <2>2. IR!IsTerminator(inst) /\ ~IR!IsPure(inst)
    BY <1>12 DEF IR!IsTerminator, IR!IsPure, IR!BinaryOperators, IR!Relations,
                IR!Equalities, IR!BitOperators
  <2>3. IsState(t) /\ t.env = s.env /\ t.mode = "done" /\ t.entry = s.entry /\ t.from = s.from
    BY <1>2, <2>1 DEF IsState
  <2> QED
    BY <2>2, <2>3 DEF Effect
<1>13. CASE inst.op \in {"br", "condbr"}
  <2>1. IR!IsTerminator(inst) /\ ~IR!IsPure(inst)
    BY <1>13 DEF IR!IsTerminator, IR!IsPure, IR!BinaryOperators, IR!Relations,
                IR!Equalities, IR!BitOperators
  <2>2. \/ t = [s EXCEPT !.mode = "stuck"]
        \/ inst.op = "br" /\ t = [s EXCEPT !.mode = "next", !.to = inst.to[1]]
        \/ inst.op = "condbr" /\ t = [s EXCEPT !.mode = "next", !.to = inst.to[1]]
        \/ inst.op = "condbr" /\ t = [s EXCEPT !.mode = "next", !.to = inst.to[2]]
    BY <1>13 DEF IR!Executed, IR!BinaryOperators, IR!Relations, IR!Equalities, IR!BitOperators
  <2>3. /\ inst.op = "br" => inst.to[1] \in IR!ToSet(inst.to)
        /\ inst.op = "condbr" => inst.to[1] \in IR!ToSet(inst.to) /\ inst.to[2] \in IR!ToSet(inst.to)
    <3>1. inst.to \in Seq(DOMAIN f)
      BY DEF IRInstruction
    <3>2. /\ inst.op = "br" => Len(inst.to) = 1
          /\ inst.op = "condbr" => Len(inst.to) = 2
      BY DEF WellFormed
    <3> QED
      BY <3>1, <3>2 DEF IR!ToSet
  <2>4. /\ IsState(t) /\ t.env = s.env /\ t.entry = s.entry /\ t.from = s.from
        /\ t.mode = "stuck" \/ (t.mode = "next" /\ t.to \in IR!ToSet(inst.to))
    BY <1>2, <2>2, <2>3 DEF IsState
  <2> QED
    BY <2>1, <2>4 DEF Effect
<1> QED
  BY <1>1, <1>5, <1>6, <1>7, <1>8, <1>9, <1>10, <1>11, <1>12, <1>13 DEF Opcodes


-----------------------------------------------------------------------------
(* An instruction and the one value numbering makes of it.                 *)

\* In s, a replaced operand of the instruction has the value of its replacement.
ReadsAlike(f, s, inst) ==
  \A k \in DOMAIN inst.args :
    inst.args[k] \in DOMAIN IR!Replacements(f) =>
      IF inst.op = "phi"
        THEN s.entry[IR!Replacements(f)[inst.args[k]][2]] = s.entry[inst.args[k][2]]
        ELSE s.env[IR!Replacements(f)[inst.args[k]][2]] = s.env[inst.args[k][2]]

LEMMA ReplacedShape ==
  ASSUME NEW f, IsFunction(f), NEW inst \in IRInstruction(f),
         inst.op \notin {"call", "load"}
  PROVE  LET new == IR!ReplaceUses(inst, IR!Replacements(f))
         IN /\ new.op = inst.op /\ new.res = inst.res /\ new.to = inst.to /\ new.from = inst.from
            /\ DOMAIN new.args = DOMAIN inst.args
            /\ \A k \in DOMAIN inst.args :
                 new.args[k] = IF inst.args[k] \in DOMAIN IR!Replacements(f)
                                 THEN IR!Replacements(f)[inst.args[k]] ELSE inst.args[k]
            /\ new.args = <<>> <=> inst.args = <<>>
<1> DEFINE R == IR!Replacements(f)
           as == [i \in DOMAIN inst.args |-> IF inst.args[i] \in DOMAIN R
                                               THEN R[inst.args[i]] ELSE inst.args[i]]
           new == IR!ReplaceUses(inst, R)
<1>1. new = [inst EXCEPT !.args = as]
  BY DEF IR!ReplaceUses
<1>2. inst = [op |-> inst.op, callee |-> inst.callee, res |-> inst.res, args |-> inst.args,
              to |-> inst.to, from |-> inst.from]
      /\ inst.args \in Seq(Operands)
  BY DEF IRInstruction
<1>3. DOMAIN as = DOMAIN inst.args
      /\ \A k \in DOMAIN inst.args :
           as[k] = IF inst.args[k] \in DOMAIN R THEN R[inst.args[k]] ELSE inst.args[k]
  OBVIOUS
<1>4. new \in IRInstruction(f)
  BY ReplacedInstruction
<1>5. new.args \in Seq(Operands)
  BY <1>4 DEF IRInstruction
<1> HIDE DEF new
<1>6. /\ new.op = inst.op /\ new.res = inst.res /\ new.to = inst.to /\ new.from = inst.from
      /\ new.args = as
  <2> HIDE DEF as
  <2> QED
    BY <1>1, <1>2
<1>7. new.args = <<>> <=> inst.args = <<>>
  BY <1>2, <1>3, <1>5, <1>6
<1> QED
  <2> HIDE DEF as
  <2> QED
    BY <1>3, <1>6, <1>7 DEF new, R

LEMMA OperandsAlike ==
  ASSUME NEW f, IsFunction(f), NEW inst \in IRInstruction(f), inst.op \notin {"call", "load", "phi"},
         NEW s, ReadsAlike(f, s, inst), NEW k \in DOMAIN inst.args
  PROVE  IR!ValueIn(s, IR!ReplaceUses(inst, IR!Replacements(f)).args[k])
           = IR!ValueIn(s, inst.args[k])
<1> DEFINE R == IR!Replacements(f)
           new == IR!ReplaceUses(inst, R)
           v == inst.args[k]
<1>1. new.args[k] = IF v \in DOMAIN R THEN R[v] ELSE v
  BY ReplacedShape
<1>2. CASE v \in DOMAIN R
  <2>1. v[1] = "temp" /\ R[v][1] = "temp"
    BY <1>2, ReplacementTemporary, TemporaryShape
  <2>2. s.env[R[v][2]] = s.env[v[2]]
    BY <1>2 DEF ReadsAlike
  <2>3. IR!ValueIn(s, R[v]) = s.env[R[v][2]] /\ IR!ValueIn(s, v) = s.env[v[2]]
    BY <2>1 DEF IR!ValueIn
  <2> QED
    BY <1>1, <1>2, <2>2, <2>3
<1>3. CASE v \notin DOMAIN R
  BY <1>1, <1>3
<1> QED
  BY <1>2, <1>3

\* The entry of a phi node for a block it names is the first one.
LEMMA FirstEntry ==
  ASSUME NEW S, NEW phi, phi.from \in Seq(S), NEW b, b \in IR!ToSet(phi.from)
  PROVE  IR!EntryFor(phi, b) \in DOMAIN phi.from /\ phi.from[IR!EntryFor(phi, b)] = b
<1> DEFINE named == {i \in DOMAIN phi.from : phi.from[i] = b}
<1>1. DOMAIN phi.from \subseteq Nat /\ named \subseteq Nat
  OBVIOUS
<1>2. named # {}
  BY DEF IR!ToSet
<1>3. \E i \in named : \A j \in named : i <= j
  <2> HIDE DEF named
  <2>1. 1 \in Nat \ {0}
    OBVIOUS
  <2> QED
    BY <1>1, <1>2, <2>1, Paths!LeastNumber
<1> QED
  BY <1>3 DEF IR!EntryFor

LEMMA IncomingAlike ==
  ASSUME NEW f, IsFunction(f), NEW inst \in IRInstruction(f), inst.op = "phi", WellFormed(inst),
         NEW s, IsState(s), ReadsAlike(f, s, inst)
  PROVE  IR!IncomingFrom(s, IR!ReplaceUses(inst, IR!Replacements(f))) = IR!IncomingFrom(s, inst)
<1> DEFINE R == IR!Replacements(f)
           new == IR!ReplaceUses(inst, R)
           e == [s EXCEPT !.env = s.entry]
           k == IR!EntryFor(inst, s.from)
           v == inst.args[k]
<1>1. /\ new.from = inst.from
      /\ \A j \in DOMAIN inst.args :
           new.args[j] = IF inst.args[j] \in DOMAIN R THEN R[inst.args[j]] ELSE inst.args[j]
  BY ReplacedShape
<1>2. /\ IR!IncomingFrom(s, inst)
           = IF s.from \in IR!ToSet(inst.from) THEN IR!ValueIn(e, inst.args[k]) ELSE IR!Undefined
      /\ IR!IncomingFrom(s, new)
           = IF s.from \in IR!ToSet(inst.from) THEN IR!ValueIn(e, new.args[k]) ELSE IR!Undefined
  <2> HIDE DEF new
  <2> QED
    BY <1>1 DEF IR!IncomingFrom, IR!EntryFor
<1>3. CASE s.from \notin IR!ToSet(inst.from)
  BY <1>2, <1>3
<1>4. CASE s.from \in IR!ToSet(inst.from)
  <2>1. inst.from \in Seq(DOMAIN f)
    BY DEF IRInstruction
  <2>2. k \in DOMAIN inst.from
    BY <1>4, <2>1, FirstEntry
  <2>3. DOMAIN inst.from = DOMAIN inst.args
    <3>1. inst.args \in Seq(Operands) /\ inst.from \in Seq(DOMAIN f) /\ Len(inst.args) = Len(inst.from)
      BY DEF IRInstruction, WellFormed
    <3> QED
      BY <3>1
  <2> HIDE DEF k
  <2>4. new.args[k] = IF v \in DOMAIN R THEN R[v] ELSE v
    BY <1>1, <2>2, <2>3
  <2>5. CASE v \in DOMAIN R
    <3>1. v[1] = "temp" /\ R[v][1] = "temp"
      BY <2>5, ReplacementTemporary, TemporaryShape
    <3>2. s.entry[R[v][2]] = s.entry[v[2]]
      BY <2>2, <2>3, <2>5 DEF ReadsAlike
    <3>3. e.env = s.entry
      BY DEF IsState
    <3>4. IR!ValueIn(e, R[v]) = s.entry[R[v][2]] /\ IR!ValueIn(e, v) = s.entry[v[2]]
      BY <3>1, <3>3 DEF IR!ValueIn
    <3> QED
      BY <1>2, <2>4, <2>5, <3>2, <3>4
  <2>6. CASE v \notin DOMAIN R
    BY <1>2, <2>4, <2>6
  <2> QED
    BY <2>5, <2>6
<1> QED
  BY <1>3, <1>4


\* What is stored to is a stack slot, which no other instruction computes.
LEMMA SlotKept ==
  ASSUME NEW f, IsFunction(f), NEW b \in DOMAIN f, NEW i \in DOMAIN f[b].code,
         f[b].code[i].op = "store"
  PROVE  f[b].code[i].args[2] \notin DOMAIN IR!Replacements(f)
<1> DEFINE v == f[b].code[i].args[2]
<1>1. <<b, i>> \in IR!Positions(f) /\ IR!At(f, <<b, i>>) = f[b].code[i]
  BY InstructionShape
<1>2. PICK p \in IR!Positions(f) : IR!At(f, p).op = "alloca" /\ IR!At(f, p).res = v
  BY <1>1 DEF IsFunction, StoresToSlots
<1>3. SUFFICES ASSUME v \in DOMAIN IR!Replacements(f) PROVE FALSE
  OBVIOUS
<1>4. PICK q \in IR!Positions(f) : IR!IsPure(IR!At(f, q)) /\ IR!At(f, q).res = v
  BY <1>3, ReplacementRepeats DEF Repeats
<1>5. v \in Temporaries
  BY <1>3, ReplacementTemporary
<1> HIDE DEF v
<1>6. p = q
  BY <1>2, <1>4, <1>5, OneDefinition
<1> QED
  BY <1>2, <1>4, <1>6 DEF IR!IsPure, IR!BinaryOperators, IR!Relations, IR!Equalities, IR!BitOperators

\* If the replaced operands have the value of their replacements, the instruction
\* does what it did.
LEMMA SameExecuted ==
  ASSUME NEW f, IsFunction(f), NEW b \in DOMAIN f, NEW i \in DOMAIN f[b].code,
         NEW s, IsState(s), s.mode = "run" => ReadsAlike(f, s, f[b].code[i])
  PROVE  IR!Executed(s, IR!ReplaceUses(f[b].code[i], IR!Replacements(f)))
           = IR!Executed(s, f[b].code[i])
<1> DEFINE inst == f[b].code[i]
           new == IR!ReplaceUses(inst, IR!Replacements(f))
<1>1. inst \in IRInstruction(f) /\ WellFormed(inst)
  BY InstructionShape
<1>2. inst.op \in Opcodes /\ inst.args \in Seq(Operands)
  BY <1>1 DEF IRInstruction
<1>3. CASE s.mode # "run"
  BY <1>3 DEF IR!Executed
<1>4. CASE inst.op \in {"call", "load"}
  BY <1>4 DEF IR!ReplaceUses
<1>5. CASE s.mode = "run" /\ inst.op \notin {"call", "load"}
  <2>1. /\ new.op = inst.op /\ new.res = inst.res /\ new.to = inst.to /\ new.from = inst.from
        /\ new.args = <<>> <=> inst.args = <<>>
        /\ DOMAIN new.args = DOMAIN inst.args
        /\ \A k \in DOMAIN inst.args :
             new.args[k] = IF inst.args[k] \in DOMAIN IR!Replacements(f)
                             THEN IR!Replacements(f)[inst.args[k]] ELSE inst.args[k]
    BY <1>1, <1>5, ReplacedShape
  <2>2. \A v : IR!Defined(s, new, v) = IR!Defined(s, inst, v)
    BY <2>1 DEF IR!Defined
  <2>3. inst.op = "phi" => IR!IncomingFrom(s, new) = IR!IncomingFrom(s, inst)
    BY <1>1, <1>5, IncomingAlike
  <2>4. inst.op # "phi" =>
          \A k \in DOMAIN inst.args : IR!ValueIn(s, new.args[k]) = IR!ValueIn(s, inst.args[k])
    BY <1>1, <1>5, OperandsAlike
  <2>5. /\ inst.op \in IR!BinaryOperators \cup {"store"} => 1 \in DOMAIN inst.args /\ 2 \in DOMAIN inst.args
        /\ inst.op \in {"not", "condbr"} => 1 \in DOMAIN inst.args
        /\ inst.args # <<>> => 1 \in DOMAIN inst.args
    BY <1>1, <1>2 DEF WellFormed
  <2>6. inst.op = "store" => new.args[2] = inst.args[2]
    BY <2>1, <2>5, SlotKept
  <2> SUFFICES IR!Executed(s, new) = IR!Executed(s, inst)
    OBVIOUS
  <2> HIDE DEF inst, new
  <2>7. CASE inst.op \in {"label", "alloca", "br"}
    BY <1>5, <2>1, <2>7 DEF IR!Executed, IR!BinaryOperators, IR!Relations, IR!Equalities, IR!BitOperators
  <2>8. CASE inst.op = "phi"
    BY <1>5, <2>1, <2>2, <2>3, <2>8
       DEF IR!Executed, IR!BinaryOperators, IR!Relations, IR!Equalities, IR!BitOperators
  <2>9. CASE inst.op = "store"
    BY <1>5, <2>1, <2>4, <2>5, <2>6, <2>9
       DEF IR!Executed, IR!BinaryOperators, IR!Relations, IR!Equalities, IR!BitOperators
  <2>10. CASE inst.op \in IR!BinaryOperators
    BY <1>5, <2>1, <2>2, <2>4, <2>5, <2>10
       DEF IR!Executed, IR!BinaryOperators, IR!Relations, IR!Equalities, IR!BitOperators
  <2>11. CASE inst.op = "not"
    BY <1>5, <2>1, <2>2, <2>4, <2>5, <2>11
       DEF IR!Executed, IR!BinaryOperators, IR!Relations, IR!Equalities, IR!BitOperators
  <2>12. CASE inst.op \in {"ret", "condbr"}
    BY <1>5, <2>1, <2>4, <2>5, <2>12
       DEF IR!Executed, IR!BinaryOperators, IR!Relations, IR!Equalities, IR!BitOperators
  <2> QED
    BY <1>2, <1>5, <2>7, <2>8, <2>9, <2>10, <2>11, <2>12 DEF Opcodes
<1> QED
  BY <1>3, <1>4, <1>5


-----------------------------------------------------------------------------
(* The execution of a block, one instruction after the other.              *)

Entered(s) == [s EXCEPT !.mode = "run", !.entry = s.env]

\* w[i] is the state after the first i instructions of the block control is in.
IsTrace(w, g, s, n) ==
  /\ w[0] = Entered(s)
  /\ \A i \in 1..n : w[i] = IR!Executed(w[i - 1], g[s.to].code[i])

LEMMA BlockRun ==
  ASSUME NEW g, NEW s, NEW n \in Nat, n = Len(g[s.to].code)
  PROVE  \E w : IsTrace(w, g, s, n) /\ IR!ExecuteBlock(g, s) = [w[n] EXCEPT !.from = s.to]
<1> DEFINE c == g[s.to].code
           After[i \in 0..n] == IF i = 0 THEN [s EXCEPT !.mode = "run", !.entry = s.env]
                                ELSE IR!Executed(After[i - 1], c[i])
           Prefix(w, m) == w = [i \in 0..m |-> IF i = 0 THEN Entered(s)
                                               ELSE IR!Executed(w[i - 1], c[i])]
           Built == {m \in Nat : \E w : Prefix(w, m)}
<1>1. IR!ExecuteBlock(g, s) = [After[n] EXCEPT !.from = s.to]
  BY DEF IR!ExecuteBlock
<1> HIDE DEF c
<1>2. 0 \in Built
  <2>1. Prefix([i \in 0..0 |-> Entered(s)], 0)
    OBVIOUS
  <2> QED
    BY <2>1
<1>3. ASSUME NEW m \in Nat, m \in Built PROVE m + 1 \in Built
  <2>1. PICK w : Prefix(w, m)
    BY <1>3
  <2> DEFINE v == [i \in 0..m + 1 |-> IF i = m + 1 THEN IR!Executed(w[m], c[m + 1]) ELSE w[i]]
  <2>2. \A i \in 0..m : v[i] = w[i]
    OBVIOUS
  <2>3. v[m + 1] = IR!Executed(w[m], c[m + 1])
    OBVIOUS
  <2>4. v = [i \in 0..m + 1 |-> v[i]]
    OBVIOUS
  <2> HIDE DEF v
  <2>5. ASSUME NEW i \in 0..m + 1
        PROVE  v[i] = IF i = 0 THEN Entered(s) ELSE IR!Executed(v[i - 1], c[i])
    <3>1. CASE i = m + 1
      <4>1. i # 0 /\ i - 1 = m /\ m \in 0..m
        BY <3>1
      <4> QED
        BY <2>2, <2>3, <3>1, <4>1
    <3>2. CASE i = 0
      BY <2>1, <2>2, <3>2
    <3>3. CASE i \in 1..m
      <4>1. i \in 0..m /\ i - 1 \in 0..m /\ i # 0
        BY <3>3
      <4>2. w[i] = IR!Executed(w[i - 1], c[i])
        BY <2>1, <4>1
      <4> QED
        BY <2>2, <4>1, <4>2
    <3> QED
      BY <3>1, <3>2, <3>3
  <2>6. Prefix(v, m + 1)
    BY <2>4, <2>5
  <2> HIDE DEF Prefix
  <2> QED
    BY <2>6
<1>4. \A m \in Nat : m \in Built
  <2> HIDE DEF Built
  <2> QED
    BY <1>2, <1>3, Paths!CountingUp
<1>5. PICK w : Prefix(w, n)
  BY <1>4
<1>6. After = [i \in 0..n |-> IF i = 0 THEN Entered(s) ELSE IR!Executed(After[i - 1], c[i])]
  BY <1>5 DEF Entered
<1> HIDE DEF After
<1>7. After[0] = Entered(s)
  BY <1>6
<1>8. ASSUME NEW i \in 1..n PROVE After[i] = IR!Executed(After[i - 1], c[i])
  <2>1. i \in 0..n /\ i # 0
    OBVIOUS
  <2> QED
    BY <1>6, <2>1
<1>9. IsTrace(After, g, s, n)
  BY <1>7, <1>8 DEF IsTrace, c
<1> QED
  BY <1>1, <1>9


\* Where no instruction of the block that has been executed is concerned, what is
\* computed twice has one value: i instructions of block b have been executed.
Agree(f, b, i, env) ==
  \A q, p \in IR!Positions(f) :
    Repeats(f, q, p) /\ (p[1] # b \/ i < q[2] \/ p[2] <= i) =>
      env[IR!At(f, q).res[2]] = env[IR!At(f, p).res[2]]

AgreeAll(f, env) ==
  \A q, p \in IR!Positions(f) :
    Repeats(f, q, p) => env[IR!At(f, q).res[2]] = env[IR!At(f, p).res[2]]

\* What the first i instructions of block b have computed is still so.
Held(f, b, i, s) ==
  \A j \in 1..i : IR!IsPure(f[b].code[j]) =>
    s.env[f[b].code[j].res[2]] = PureValue(s, f[b].code[j])

LEMMA Reads ==
  ASSUME NEW f, IsFunction(f), NEW b \in DOMAIN f, NEW i \in Nat, i + 1 \in DOMAIN f[b].code,
         NEW s, Agree(f, b, i, s.env), AgreeAll(f, s.entry)
  PROVE  ReadsAlike(f, s, f[b].code[i + 1])
<1> DEFINE inst == f[b].code[i + 1]
           R == IR!Replacements(f)
<1> SUFFICES ASSUME NEW k \in DOMAIN inst.args, inst.args[k] \in DOMAIN R
             PROVE  IF inst.op = "phi" THEN s.entry[R[inst.args[k]][2]] = s.entry[inst.args[k][2]]
                                       ELSE s.env[R[inst.args[k]][2]] = s.env[inst.args[k][2]]
  BY DEF ReadsAlike
<1> DEFINE v == inst.args[k]
<1>1. PICK q, p \in IR!Positions(f) :
        Repeats(f, q, p) /\ IR!At(f, p).res = v /\ IR!At(f, q).res = R[v]
  BY ReplacementRepeats
<1>2. CASE inst.op = "phi"
  BY <1>1, <1>2 DEF AgreeAll
<1>3. CASE inst.op # "phi"
  <2>1. v \in Temporaries
    BY ReplacementTemporary
  <2>2. PICK r \in IR!Positions(f) : IR!At(f, r).res = v /\ Before(r, b, i + 1)
    BY <1>3, <2>1, DefinedEarlier
  <2> HIDE DEF v
  <2>3. p = r
    BY <1>1, <2>1, <2>2, OneDefinition
  <2>4. p[1] \in Nat /\ p[2] \in Nat /\ b \in Nat
    BY PositionNumbers, FunctionShape
  <2>5. p[1] # b \/ p[2] <= i
    BY <2>2, <2>3, <2>4 DEF Before
  <2>6. s.env[IR!At(f, q).res[2]] = s.env[IR!At(f, p).res[2]]
    BY <1>1, <2>5 DEF Agree
  <2> QED
    BY <1>1, <1>3, <2>6 DEF v
<1> QED
  BY <1>2, <1>3

LEMMA PureOperands ==
  ASSUME NEW f, IsFunction(f), NEW b \in DOMAIN f, NEW i \in DOMAIN f[b].code,
         IR!IsPure(f[b].code[i])
  PROVE  /\ f[b].code[i].res \in Temporaries /\ f[b].code[i].op # "phi"
         /\ 1 \in DOMAIN f[b].code[i].args
         /\ f[b].code[i].op # "not" => 2 \in DOMAIN f[b].code[i].args
         /\ \A k \in DOMAIN f[b].code[i].args : f[b].code[i].args[k] \in Operands
<1> DEFINE inst == f[b].code[i]
<1>1. inst \in IRInstruction(f) /\ WellFormed(inst)
  BY InstructionShape
<1>2. inst.args \in Seq(Operands)
  BY <1>1 DEF IRInstruction
<1>3. inst.op \in IR!BinaryOperators \cup {"not"}
  BY DEF IR!IsPure
<1>4. inst.res \in Temporaries
  BY <1>1, <1>3 DEF IRInstruction, WellFormed
<1>5. inst.op # "phi"
  BY <1>3 DEF IR!BinaryOperators, IR!Relations, IR!Equalities, IR!BitOperators
<1>6. 1 \in DOMAIN inst.args /\ (inst.op # "not" => 2 \in DOMAIN inst.args)
  BY <1>1, <1>2, <1>3 DEF WellFormed
<1>7. \A k \in DOMAIN inst.args : inst.args[k] \in Operands
  BY <1>2
<1> QED
  BY <1>4, <1>5, <1>6, <1>7

\* No instruction changes what an earlier one of the block, or it itself, has read.
LEMMA PureValueKept ==
  ASSUME NEW f, IsFunction(f), NEW b \in DOMAIN f, NEW i \in DOMAIN f[b].code,
         NEW j \in DOMAIN f[b].code, j <= i, IR!IsPure(f[b].code[j]),
         NEW s, NEW t, Effect(s, f[b].code[i], t)
  PROVE  PureValue(t, f[b].code[j]) = PureValue(s, f[b].code[j])
<1> DEFINE inst == f[b].code[j]
<1>1. /\ inst.op # "phi" /\ 1 \in DOMAIN inst.args /\ (inst.op # "not" => 2 \in DOMAIN inst.args)
      /\ \A k \in DOMAIN inst.args : inst.args[k] \in Operands
  BY PureOperands
<1>2. ASSUME NEW k \in DOMAIN inst.args
      PROVE  IR!ValueIn(t, inst.args[k]) = IR!ValueIn(s, inst.args[k])
  <2> DEFINE v == inst.args[k]
  <2>1. CASE v \in Temporaries
    <3>1. PICK p \in IR!Positions(f) : IR!At(f, p).res = v /\ Before(p, b, j)
      BY <1>1, <2>1, DefinedEarlier
    <3>2. <<b, i>> \in IR!Positions(f) /\ IR!At(f, <<b, i>>) = f[b].code[i]
      BY InstructionShape
    <3>3. v # f[b].code[i].res
      <4>1. SUFFICES ASSUME v = f[b].code[i].res PROVE FALSE
        OBVIOUS
      <4>2. <<b, i>> = p
        BY <2>1, <3>1, <3>2, <4>1, OneDefinition
      <4>3. p[1] = b /\ p[2] = i
        BY <4>2
      <4>4. b \in Nat /\ i \in Nat /\ j \in Nat
        BY FunctionShape
      <4> QED
        BY <3>1, <4>3, <4>4 DEF Before
    <3>4. t.env[v[2]] = s.env[v[2]]
      BY <2>1, <3>3 DEF Effect
    <3> QED
      BY <2>1, <3>4, TemporaryShape DEF IR!ValueIn
  <2>2. CASE v \notin Temporaries
    <3>1. v[1] = "const"
      BY <1>1, <2>2, OperandShape
    <3> QED
      BY <3>1 DEF IR!ValueIn
  <2> QED
    BY <2>1, <2>2
<1> QED
  BY <1>1, <1>2 DEF PureValue


LEMMA HeldNext ==
  ASSUME NEW f, IsFunction(f), NEW b \in DOMAIN f, NEW i \in Nat, i + 1 \in DOMAIN f[b].code,
         NEW s, s.mode = "run", Held(f, b, i, s),
         NEW t, Effect(s, f[b].code[i + 1], t)
  PROVE  Held(f, b, i + 1, t)
<1> SUFFICES ASSUME NEW j \in 1..i + 1, IR!IsPure(f[b].code[j])
             PROVE  t.env[f[b].code[j].res[2]] = PureValue(t, f[b].code[j])
  BY DEF Held
<1>1. DOMAIN f[b].code = 1..Len(f[b].code) /\ Len(f[b].code) \in Nat
  BY FunctionShape
<1>2. j \in DOMAIN f[b].code /\ j <= i + 1 /\ j \in Nat
  BY <1>1
<1>3. PureValue(t, f[b].code[j]) = PureValue(s, f[b].code[j])
  BY <1>2, PureValueKept
<1>4. CASE j = i + 1
  BY <1>3, <1>4 DEF Effect
<1>5. CASE j # i + 1
  <2>1. s.env[f[b].code[j].res[2]] = PureValue(s, f[b].code[j])
    <3>1. j \in 1..i
      BY <1>2, <1>5
    <3> QED
      BY <3>1 DEF Held
  <2>2. f[b].code[j].res \in Temporaries
    BY <1>2, PureOperands
  <2>3. f[b].code[j].res # f[b].code[i + 1].res
    <3>1. /\ <<b, j>> \in IR!Positions(f) /\ IR!At(f, <<b, j>>) = f[b].code[j]
          /\ <<b, i + 1>> \in IR!Positions(f) /\ IR!At(f, <<b, i + 1>>) = f[b].code[i + 1]
      BY <1>2, InstructionShape
    <3>2. <<b, j>> # <<b, i + 1>>
      BY <1>5
    <3> QED
      BY <2>2, <3>1, <3>2, OneDefinition
  <2>4. t.env[f[b].code[j].res[2]] = s.env[f[b].code[j].res[2]]
    BY <2>2, <2>3 DEF Effect
  <2> QED
    BY <1>3, <2>1, <2>4
<1> QED
  BY <1>4, <1>5

LEMMA AgreeNext ==
  ASSUME NEW f, IsFunction(f), NEW b \in DOMAIN f, NEW i \in Nat, i + 1 \in DOMAIN f[b].code,
         NEW s, s.mode = "run", Agree(f, b, i, s.env),
         NEW t, Effect(s, f[b].code[i + 1], t), Held(f, b, i + 1, t)
  PROVE  Agree(f, b, i + 1, t.env)
<1> SUFFICES ASSUME NEW q \in IR!Positions(f), NEW p \in IR!Positions(f), Repeats(f, q, p),
                    p[1] # b \/ i + 1 < q[2] \/ p[2] <= i + 1
             PROVE  t.env[IR!At(f, q).res[2]] = t.env[IR!At(f, p).res[2]]
  BY DEF Agree
<1> DEFINE now == <<b, i + 1>>
<1>1. IR!At(f, q).res \in Temporaries /\ IR!At(f, p).res \in Temporaries
  BY PureResults DEF Repeats
<1>2. /\ q[1] \in DOMAIN f /\ q[2] \in DOMAIN f[q[1]].code /\ IR!At(f, q) = f[q[1]].code[q[2]]
      /\ p[1] \in DOMAIN f /\ p[2] \in DOMAIN f[p[1]].code /\ IR!At(f, p) = f[p[1]].code[p[2]]
  BY PositionShape
<1>3. p[1] \in Nat /\ p[2] \in Nat \ {0} /\ b \in Nat /\ q[2] \in Nat \ {0}
  BY PositionNumbers, FunctionShape
<1>4. now \in IR!Positions(f) /\ IR!At(f, now) = f[b].code[i + 1]
  BY InstructionShape
<1>5. q[1] = p[1] /\ q[2] < p[2]
  BY DEF Repeats
<1>6. CASE p # now
  <2>1. q # now
    BY <1>3, <1>5, <1>6, PositionShape
  <2>2. IR!At(f, p).res # f[b].code[i + 1].res /\ IR!At(f, q).res # f[b].code[i + 1].res
    BY <1>1, <1>4, <1>6, <2>1, OneDefinition
  <2>3. /\ t.env[IR!At(f, p).res[2]] = s.env[IR!At(f, p).res[2]]
        /\ t.env[IR!At(f, q).res[2]] = s.env[IR!At(f, q).res[2]]
    BY <1>1, <2>2 DEF Effect
  <2>4. p[1] # b \/ i < q[2] \/ p[2] <= i
    <3>1. p = <<p[1], p[2]>>
      BY PositionShape
    <3> QED
      BY <1>3, <1>6, <3>1
  <2> QED
    BY <2>3, <2>4 DEF Agree
<1>7. CASE p = now
  <2>1. p[1] = b /\ p[2] = i + 1 /\ q[1] = b /\ q[2] \in 1..i
    BY <1>3, <1>5, <1>7
  <2>2. IR!At(f, q) = f[b].code[q[2]] /\ IR!At(f, p) = f[b].code[i + 1]
    BY <1>2, <2>1
  <2>3. IR!IsPure(f[b].code[q[2]]) /\ IR!IsPure(f[b].code[i + 1])
        /\ f[b].code[q[2]].op = f[b].code[i + 1].op /\ f[b].code[q[2]].args = f[b].code[i + 1].args
    BY <2>2 DEF Repeats
  <2>4. q[2] \in 1..i + 1 /\ i + 1 \in 1..i + 1
    BY <2>1
  <2>5. /\ t.env[f[b].code[q[2]].res[2]] = PureValue(t, f[b].code[q[2]])
        /\ t.env[f[b].code[i + 1].res[2]] = PureValue(t, f[b].code[i + 1])
    BY <2>3, <2>4 DEF Held
  <2>6. PureValue(t, f[b].code[q[2]]) = PureValue(t, f[b].code[i + 1])
    BY <2>3 DEF PureValue
  <2> QED
    BY <2>2, <2>5, <2>6
<1> QED
  BY <1>6, <1>7


\* After i instructions of block b, which control entered with the values env.
Midway(f, b, env, i, s) ==
  /\ IsState(s) /\ s.entry = env
  /\ s.mode \in {"run", "next"} => Agree(f, b, i, s.env) /\ Held(f, b, i, s)
  /\ i < Len(f[b].code) => s.mode \in {"run", "stuck"}
  /\ i = Len(f[b].code) =>
       /\ s.mode \in {"next", "done", "stuck"}
       /\ s.mode = "next" => s.to \in Enterable(f)

LEMMA BranchTargets ==
  ASSUME NEW f, IsFunction(f), NEW b \in DOMAIN f, NEW i \in DOMAIN f[b].code
  PROVE  IR!ToSet(f[b].code[i].to) \subseteq Enterable(f)
<1>1. <<b, i>> \in IR!Positions(f) /\ IR!At(f, <<b, i>>) = f[b].code[i]
  BY InstructionShape
<1>2. f[b].code[i].to \in Seq(DOMAIN f)
  BY InstructionShape DEF IRInstruction
<1>3. IR!ToSet(f[b].code[i].to) \subseteq DOMAIN f
  BY <1>2 DEF IR!ToSet
<1> QED
  BY <1>1, <1>3 DEF Enterable

LEMMA EnteredMidway ==
  ASSUME NEW f, IsFunction(f), NEW s, IsState(s), s.to \in Enterable(f), AgreeAll(f, s.env)
  PROVE  Midway(f, s.to, s.env, 0, Entered(s))
<1> DEFINE t == Entered(s)
<1>1. s = [mode |-> s.mode, to |-> s.to, from |-> s.from, env |-> s.env, entry |-> s.entry,
           mem |-> s.mem, answers |-> s.answers, calls |-> s.calls, val |-> s.val]
      /\ s.env = [v \in Value |-> s.env[v]]
  BY DEF IsState
<1>2. IsState(t) /\ t.entry = s.env /\ t.env = s.env /\ t.mode = "run"
  <2> DEFINE e == s.env
  <2>1. t = [s EXCEPT !.mode = "run", !.entry = e]
    BY DEF Entered
  <2> HIDE DEF t, e
  <2>2. t.env = s.env /\ t.mode = "run" /\ t.entry = e /\ IsState(t)
    BY <1>1, <2>1 DEF IsState
  <2> QED
    BY <2>2 DEF e
<1>3. Len(f[s.to].code) \in Nat /\ Len(f[s.to].code) # 0
  <2>1. s.to \in DOMAIN f /\ Len(f[s.to].code) \in DOMAIN f[s.to].code
    BY TerminatorLast
  <2> QED
    BY <2>1, FunctionShape
<1> HIDE DEF t
<1>4. Agree(f, s.to, 0, t.env)
  BY <1>2 DEF Agree, AgreeAll
<1>5. Held(f, s.to, 0, t)
  BY DEF Held
<1> QED
  BY <1>2, <1>3, <1>4, <1>5 DEF Midway, t

LEMMA MidwayNext ==
  ASSUME NEW f, IsFunction(f), NEW b \in Enterable(f), NEW i \in Nat, i + 1 \in DOMAIN f[b].code,
         NEW env, NEW s, Midway(f, b, env, i, s)
  PROVE  Midway(f, b, env, i + 1, IR!Executed(s, f[b].code[i + 1]))
<1> DEFINE inst == f[b].code[i + 1]
           t == IR!Executed(s, inst)
<1>0. b \in DOMAIN f
  BY DEF Enterable
<1>1. Effect(s, inst, t)
  BY <1>0, InstructionShape, ExecutedEffect DEF Midway
<1>2. DOMAIN f[b].code = 1..Len(f[b].code) /\ Len(f[b].code) \in Nat
  BY <1>0, FunctionShape
<1>3. s.mode \in {"run", "stuck"}
  BY <1>2 DEF Midway
<1> HIDE DEF t
<1>4. IsState(t) /\ t.entry = env
  BY <1>1 DEF Effect, Midway
<1>5. CASE s.mode = "stuck"
  <2>1. t.mode = "stuck"
    BY <1>1, <1>5 DEF Effect
  <2> QED
    BY <1>4, <2>1 DEF Midway, t
<1>6. CASE s.mode = "run"
  <2>1. Agree(f, b, i, s.env) /\ Held(f, b, i, s)
    BY <1>6 DEF Midway
  <2>2. Held(f, b, i + 1, t)
    BY <1>0, <1>1, <1>6, <2>1, HeldNext
  <2>3. Agree(f, b, i + 1, t.env)
    BY <1>0, <1>1, <1>6, <2>1, <2>2, AgreeNext
  <2>4. i + 1 < Len(f[b].code) => t.mode \in {"run", "stuck"}
    <3>1. i + 1 < Len(f[b].code) => ~IR!IsTerminator(inst)
      BY <1>2, TerminatorLast
    <3> QED
      BY <1>1, <1>6, <3>1 DEF Effect
  <2>5. i + 1 = Len(f[b].code) => /\ t.mode \in {"next", "done", "stuck"}
                                  /\ t.mode = "next" => t.to \in Enterable(f)
    <3>1. i + 1 = Len(f[b].code) => IR!IsTerminator(inst)
      BY TerminatorLast
    <3>2. IR!ToSet(inst.to) \subseteq Enterable(f)
      BY <1>0, BranchTargets
    <3> QED
      BY <1>1, <1>6, <3>1, <3>2 DEF Effect
  <2> QED
    BY <1>4, <2>2, <2>3, <2>4, <2>5 DEF Midway, t
<1> QED
  BY <1>3, <1>5, <1>6

\* The two executions of a block go through the same states.
LEMMA TracesAgree ==
  ASSUME NEW f, IsFunction(f), NEW s, IsState(s), s.to \in Enterable(f), AgreeAll(f, s.env),
         NEW n \in Nat, n = Len(f[s.to].code),
         NEW w, IsTrace(w, f, s, n), NEW v, IsTrace(v, IR!GVN(f), s, n)
  PROVE  w[n] = v[n] /\ Midway(f, s.to, s.env, n, w[n])
<1>0. s.to \in DOMAIN f
  BY DEF Enterable
<1> DEFINE Good == {i \in Nat : i <= n => w[i] = v[i] /\ Midway(f, s.to, s.env, i, w[i])}
<1>1. 0 \in Good
  BY EnteredMidway DEF IsTrace
<1>2. ASSUME NEW i \in Nat, i \in Good PROVE i + 1 \in Good
  <2> SUFFICES ASSUME i + 1 <= n
               PROVE  w[i + 1] = v[i + 1] /\ Midway(f, s.to, s.env, i + 1, w[i + 1])
    OBVIOUS
  <2>1. w[i] = v[i] /\ Midway(f, s.to, s.env, i, w[i])
    BY <1>2
  <2>2. i + 1 \in 1..n /\ (i + 1) - 1 = i /\ i < n
    OBVIOUS
  <2>3. i + 1 \in DOMAIN f[s.to].code
    BY <2>2, <1>0, FunctionShape
  <2>4. w[i + 1] = IR!Executed(w[i], f[s.to].code[i + 1])
    BY <2>2 DEF IsTrace
  <2>5. v[i + 1] = IR!Executed(v[i], IR!GVN(f)[s.to].code[i + 1])
    BY <2>2 DEF IsTrace
  <2>6. IR!GVN(f)[s.to].code[i + 1] = IR!ReplaceUses(f[s.to].code[i + 1], IR!Replacements(f))
    BY <1>0, <2>3, GVNIs
  <2>7. Midway(f, s.to, s.env, i + 1, w[i + 1])
    BY <2>1, <2>3, <2>4, MidwayNext
  <2>8. w[i].mode = "run" => ReadsAlike(f, w[i], f[s.to].code[i + 1])
    BY <1>0, <2>1, <2>3, Reads DEF Midway
  <2>9. IsState(w[i])
    BY <2>1 DEF Midway
  <2>10. w[i + 1] = v[i + 1]
    BY <2>1, <2>3, <2>4, <2>5, <2>6, <2>8, <2>9, <1>0, SameExecuted
  <2> QED
    BY <2>7, <2>10
<1>3. \A i \in Nat : i \in Good
  <2> HIDE DEF Good
  <2> QED
    BY <1>1, <1>2, Paths!CountingUp
<1> QED
  BY <1>3

\* A block does after value numbering what it did before it.
LEMMA BlockKept ==
  ASSUME NEW f, IsFunction(f), NEW s, IsState(s), s.to \in Enterable(f), AgreeAll(f, s.env)
  PROVE  LET t == IR!ExecuteBlock(f, s)
         IN /\ t = IR!ExecuteBlock(IR!GVN(f), s)
            /\ IsState(t)
            /\ t.mode \in {"next", "done", "stuck"}
            /\ t.mode = "next" => t.to \in Enterable(f) /\ AgreeAll(f, t.env)
<1>0. s.to \in DOMAIN f
  BY DEF Enterable
<1> DEFINE n == Len(f[s.to].code)
<1>1. n \in Nat /\ Len(IR!GVN(f)[s.to].code) = n
  BY <1>0, FunctionShape, GVNIs
<1>2. PICK w : IsTrace(w, f, s, n) /\ IR!ExecuteBlock(f, s) = [w[n] EXCEPT !.from = s.to]
  BY <1>1, BlockRun
<1>3. PICK v : /\ IsTrace(v, IR!GVN(f), s, n)
               /\ IR!ExecuteBlock(IR!GVN(f), s) = [v[n] EXCEPT !.from = s.to]
  BY <1>1, BlockRun
<1>4. w[n] = v[n] /\ Midway(f, s.to, s.env, n, w[n])
  BY <1>1, <1>2, <1>3, TracesAgree
<1> DEFINE t == [w[n] EXCEPT !.from = s.to]
<1>5. IsState(t) /\ t.mode = w[n].mode /\ t.to = w[n].to /\ t.env = w[n].env
  <2> DEFINE u == w[n]
             b == s.to
  <2>1. IsState(u) /\ t = [u EXCEPT !.from = b]
    BY <1>4 DEF Midway
  <2> HIDE DEF u, b, t
  <2>2. IsState(t) /\ t.mode = u.mode /\ t.to = u.to /\ t.env = u.env
    BY <2>1 DEF IsState
  <2> QED
    BY <2>2 DEF u
<1>6. t.mode \in {"next", "done", "stuck"} /\ (t.mode = "next" => t.to \in Enterable(f))
  BY <1>4, <1>5 DEF Midway
<1>7. t.mode = "next" => AgreeAll(f, t.env)
  <2> SUFFICES ASSUME t.mode = "next", NEW q \in IR!Positions(f), NEW p \in IR!Positions(f),
                      Repeats(f, q, p)
               PROVE  t.env[IR!At(f, q).res[2]] = t.env[IR!At(f, p).res[2]]
    BY DEF AgreeAll
  <2>1. Agree(f, s.to, n, t.env)
    BY <1>4, <1>5 DEF Midway
  <2>2. p[1] # s.to \/ p[2] <= n
    <3>1. p[2] \in DOMAIN f[p[1]].code
      BY PositionShape
    <3> QED
      BY <1>1, <3>1, <1>0, FunctionShape
  <2> QED
    BY <2>1, <2>2 DEF Agree
<1> QED
  BY <1>2, <1>3, <1>4, <1>5, <1>6, <1>7


-----------------------------------------------------------------------------
(* Constant propagation.                                                   *)

\* The instruction p computes the value v has according to known.
Justifies(f, known, v, p) ==
  /\ IR!At(f, p).res = v /\ IR!At(f, p).op \in IR!BinaryOperators
  /\ \A k \in DOMAIN IR!At(f, p).args : IR!ConstantOrKnown(IR!At(f, p).args[k], known)
  /\ known[v] = IR!Folded(IR!At(f, p), known) /\ known[v] # IR!Undefined

Justified(f, known) ==
  \A v \in DOMAIN known : \E p \in IR!Positions(f) : Justifies(f, known, v, p)

LEMMA BinaryPosition ==
  ASSUME NEW f, IsFunction(f), NEW p \in IR!Positions(f), IR!At(f, p).op \in IR!BinaryOperators
  PROVE  /\ IR!IsPure(IR!At(f, p)) /\ IR!At(f, p).op # "not"
         /\ IR!At(f, p).res \in Temporaries
         /\ 1 \in DOMAIN IR!At(f, p).args /\ 2 \in DOMAIN IR!At(f, p).args
         /\ \A k \in DOMAIN IR!At(f, p).args : IR!At(f, p).args[k] \in Operands
<1>1. IR!At(f, p).op # "not"
  BY DEF IR!BinaryOperators, IR!Relations, IR!Equalities, IR!BitOperators
<1>2. IR!IsPure(IR!At(f, p))
  BY DEF IR!IsPure
<1> QED
  BY <1>1, <1>2, PositionShape, PureOperands

\* What is known stays known, and so does what follows from it.
LEMMA FoldedKept ==
  ASSUME NEW f, IsFunction(f), NEW known, NEW more,
         DOMAIN known \subseteq DOMAIN more, \A v \in DOMAIN known : more[v] = known[v],
         NEW p \in IR!Positions(f), IR!At(f, p).op \in IR!BinaryOperators,
         \A k \in DOMAIN IR!At(f, p).args : IR!ConstantOrKnown(IR!At(f, p).args[k], known)
  PROVE  /\ \A k \in DOMAIN IR!At(f, p).args : IR!ConstantOrKnown(IR!At(f, p).args[k], more)
         /\ IR!Folded(IR!At(f, p), more) = IR!Folded(IR!At(f, p), known)
<1>1. ASSUME NEW k \in DOMAIN IR!At(f, p).args
      PROVE  /\ IR!ConstantOrKnown(IR!At(f, p).args[k], more)
             /\ IR!ConstantIn(IR!At(f, p).args[k], more) = IR!ConstantIn(IR!At(f, p).args[k], known)
  BY DEF IR!ConstantOrKnown, IR!ConstantIn
<1>2. 1 \in DOMAIN IR!At(f, p).args /\ 2 \in DOMAIN IR!At(f, p).args
  BY BinaryPosition
<1> QED
  BY <1>1, <1>2 DEF IR!Folded

LEMMA FoldJustified ==
  ASSUME NEW f, IsFunction(f), NEW known, Justified(f, known)
  PROVE  Justified(f, IR!Fold(f, known))
<1> DEFINE new == {p \in IR!Positions(f) : /\ IR!At(f, p).res \notin DOMAIN known
                                           /\ IR!CanFold(IR!At(f, p), known)}
           defining(v) == CHOOSE p \in new : IR!At(f, p).res = v
           more == IR!Fold(f, known)
<1>1. /\ DOMAIN more = DOMAIN known \cup {IR!At(f, p).res : p \in new}
      /\ \A v \in DOMAIN more :
           more[v] = IF v \in DOMAIN known THEN known[v] ELSE IR!Folded(IR!At(f, defining(v)), known)
  BY DEF IR!Fold
<1>2. ASSUME NEW v \in DOMAIN more \ DOMAIN known
      PROVE  defining(v) \in new /\ IR!At(f, defining(v)).res = v
  <2>1. \E p \in new : IR!At(f, p).res = v
    BY <1>1
  <2> QED
    BY <2>1
<1> HIDE DEF defining, more
<1>3. DOMAIN known \subseteq DOMAIN more /\ \A v \in DOMAIN known : more[v] = known[v]
  BY <1>1
<1>4. ASSUME NEW v \in DOMAIN more PROVE \E p \in IR!Positions(f) : Justifies(f, more, v, p)
  <2>1. CASE v \in DOMAIN known
    <3>1. PICK p \in IR!Positions(f) : Justifies(f, known, v, p)
      BY <2>1 DEF Justified
    <3>2. /\ \A k \in DOMAIN IR!At(f, p).args : IR!ConstantOrKnown(IR!At(f, p).args[k], more)
          /\ IR!Folded(IR!At(f, p), more) = IR!Folded(IR!At(f, p), known)
      BY <1>3, <3>1, FoldedKept DEF Justifies
    <3> QED
      BY <1>3, <2>1, <3>1, <3>2 DEF Justifies
  <2>2. CASE v \notin DOMAIN known
    <3> DEFINE p == defining(v)
    <3>1. p \in new /\ IR!At(f, p).res = v /\ more[v] = IR!Folded(IR!At(f, p), known)
      BY <1>1, <1>2, <2>2
    <3> HIDE DEF p
    <3>2. /\ p \in IR!Positions(f) /\ IR!At(f, p).op \in IR!BinaryOperators
          /\ \A k \in DOMAIN IR!At(f, p).args : IR!ConstantOrKnown(IR!At(f, p).args[k], known)
          /\ IR!Folded(IR!At(f, p), known) # IR!Undefined
      BY <3>1 DEF IR!CanFold
    <3>3. /\ \A k \in DOMAIN IR!At(f, p).args : IR!ConstantOrKnown(IR!At(f, p).args[k], more)
          /\ IR!Folded(IR!At(f, p), more) = IR!Folded(IR!At(f, p), known)
      BY <1>3, <3>2, FoldedKept
    <3> QED
      BY <3>1, <3>2, <3>3 DEF Justifies
  <2> QED
    BY <2>1, <2>2
<1> QED
  BY <1>4 DEF Justified, more

LEMMA ConstantsJustified ==
  ASSUME NEW f, IsFunction(f)
  PROVE  Justified(f, IR!ConstantValues(f))
<1> DEFINE n == Cardinality(IR!Positions(f))
           Known[k \in 0..n] == IF k = 0 THEN <<>> ELSE IR!Fold(f, Known[k - 1])
           Prefix(w, m) == w = [k \in 0..m |-> IF k = 0 THEN <<>> ELSE IR!Fold(f, w[k - 1])]
           Built == {m \in Nat : \E w : Prefix(w, m)}
<1>1. IR!ConstantValues(f) = Known[n]
  BY SameCardinality DEF IR!ConstantValues
<1>2. n \in Nat
  BY FunctionBlocks, PositionsFinite
<1> HIDE DEF n
<1>3. 0 \in Built
  <2>1. Prefix([k \in 0..0 |-> <<>>], 0)
    OBVIOUS
  <2> QED
    BY <2>1
<1>4. ASSUME NEW m \in Nat, m \in Built PROVE m + 1 \in Built
  <2>1. PICK w : Prefix(w, m)
    BY <1>4
  <2> DEFINE v == [k \in 0..m + 1 |-> IF k = m + 1 THEN IR!Fold(f, w[m]) ELSE w[k]]
  <2>2. (\A k \in 0..m : v[k] = w[k]) /\ v[m + 1] = IR!Fold(f, w[m])
    OBVIOUS
  <2>3. v = [k \in 0..m + 1 |-> v[k]]
    OBVIOUS
  <2> HIDE DEF v
  <2>4. ASSUME NEW k \in 0..m + 1
        PROVE  v[k] = IF k = 0 THEN <<>> ELSE IR!Fold(f, v[k - 1])
    <3>1. CASE k = m + 1
      <4>1. k # 0 /\ k - 1 = m /\ m \in 0..m
        BY <3>1
      <4> QED
        BY <2>2, <3>1, <4>1
    <3>2. CASE k = 0
      BY <2>1, <2>2, <3>2
    <3>3. CASE k \in 1..m
      <4>1. k \in 0..m /\ k - 1 \in 0..m /\ k # 0
        BY <3>3
      <4>2. w[k] = IR!Fold(f, w[k - 1])
        BY <2>1, <4>1
      <4> QED
        BY <2>2, <4>1, <4>2
    <3> QED
      BY <3>1, <3>2, <3>3
  <2>5. Prefix(v, m + 1)
    BY <2>3, <2>4
  <2> HIDE DEF Prefix
  <2> QED
    BY <2>5
<1>5. \A m \in Nat : m \in Built
  <2> HIDE DEF Built
  <2> QED
    BY <1>3, <1>4, Paths!CountingUp
<1>6. PICK w : Prefix(w, n)
  BY <1>2, <1>5
<1>7. Known = [k \in 0..n |-> IF k = 0 THEN <<>> ELSE IR!Fold(f, Known[k - 1])]
  BY <1>6
<1> HIDE DEF Known
<1> DEFINE Good == {k \in Nat : k <= n => Justified(f, Known[k])}
<1>8. 0 \in Good
  <2>1. Known[0] = <<>>
    BY <1>2, <1>7
  <2>2. DOMAIN Known[0] = {}
    BY <2>1
  <2> QED
    BY <2>2 DEF Justified
<1>9. ASSUME NEW k \in Nat, k \in Good PROVE k + 1 \in Good
  <2> SUFFICES ASSUME k + 1 <= n PROVE Justified(f, Known[k + 1])
    OBVIOUS
  <2>1. k + 1 \in 0..n /\ k + 1 # 0 /\ (k + 1) - 1 = k
    BY <1>2
  <2>2. Known[k + 1] = IR!Fold(f, Known[k])
    BY <1>7, <2>1
  <2>3. Justified(f, Known[k])
    BY <1>2, <1>9
  <2> QED
    BY <2>2, <2>3, FoldJustified
<1>10. \A k \in Nat : k \in Good
  <2> HIDE DEF Good
  <2> QED
    BY <1>8, <1>9, Paths!CountingUp
<1> QED
  BY <1>1, <1>2, <1>10


\* A temporary taken for a constant has that value whenever it was computed.
Constants(f, env) ==
  \A v \in DOMAIN IR!ConstantValues(f) :
    env[v[2]] \in {IR!ConstantValues(f)[v], IR!Undefined}

LEMMA StrictlyApplied ==
  ASSUME NEW op, NEW x, NEW y, NEW c, NEW d,
         x \in {c, IR!Undefined}, y \in {d, IR!Undefined}
  PROVE  IR!Applied(op, x, y) \in {IR!Applied(op, c, d), IR!Undefined}
<1>1. CASE IR!Undefined \in {x, y}
  <2>1. IR!Applied(op, x, y) = IR!Undefined
    BY <1>1 DEF IR!Applied
  <2> QED
    BY <2>1
<1>2. CASE IR!Undefined \notin {x, y}
  <2>1. x = c /\ y = d
    BY <1>2
  <2> QED
    BY <2>1
<1> QED
  BY <1>1, <1>2

LEMMA OperandConstant ==
  ASSUME NEW f, IsFunction(f), NEW s, Constants(f, s.env), NEW a \in Operands,
         IR!ConstantOrKnown(a, IR!ConstantValues(f))
  PROVE  IR!ValueIn(s, a) \in {IR!ConstantIn(a, IR!ConstantValues(f)), IR!Undefined}
<1> DEFINE known == IR!ConstantValues(f)
<1>1. CASE a[1] = "const"
  <2>1. IR!ValueIn(s, a) = a[2] /\ IR!ConstantIn(a, known) = a[2]
    BY <1>1 DEF IR!ValueIn, IR!ConstantIn, IR!IsConstant
  <2> QED
    BY <2>1
<1>2. CASE a[1] # "const"
  <2>1. a[1] = "temp"
    BY <1>2, OperandShape, TemporaryShape
  <2>2. a \in DOMAIN known /\ IR!ConstantIn(a, known) = known[a]
    BY <1>2 DEF IR!ConstantOrKnown, IR!ConstantIn, IR!IsConstant
  <2>3. IR!ValueIn(s, a) = s.env[a[2]]
    BY <2>1 DEF IR!ValueIn
  <2> QED
    BY <2>2, <2>3 DEF Constants
<1> QED
  BY <1>1, <1>2

LEMMA ConstantsNext ==
  ASSUME NEW f, IsFunction(f), NEW b \in DOMAIN f, NEW i \in DOMAIN f[b].code,
         NEW s, Constants(f, s.env), NEW t, Effect(s, f[b].code[i], t)
  PROVE  Constants(f, t.env)
<1> DEFINE known == IR!ConstantValues(f)
           inst == f[b].code[i]
<1>1. CASE s.mode # "run"
  BY <1>1 DEF Effect
<1>2. CASE s.mode = "run"
  <2> SUFFICES ASSUME NEW v \in DOMAIN known PROVE t.env[v[2]] \in {known[v], IR!Undefined}
    BY DEF Constants
  <2>1. s.env[v[2]] \in {known[v], IR!Undefined}
    BY DEF Constants
  <2>2. PICK p \in IR!Positions(f) : Justifies(f, known, v, p)
    BY ConstantsJustified DEF Justified
  <2>3. /\ IR!IsPure(IR!At(f, p)) /\ IR!At(f, p).op # "not"
        /\ v \in Temporaries
        /\ 1 \in DOMAIN IR!At(f, p).args /\ 2 \in DOMAIN IR!At(f, p).args
        /\ \A k \in DOMAIN IR!At(f, p).args : IR!At(f, p).args[k] \in Operands
    BY <2>2, BinaryPosition DEF Justifies
  <2>4. CASE v # inst.res
    BY <2>1, <2>3, <2>4 DEF Effect
  <2>5. CASE v = inst.res
    <3>1. <<b, i>> \in IR!Positions(f) /\ IR!At(f, <<b, i>>) = inst
      BY InstructionShape
    <3>2. p = <<b, i>>
      BY <2>2, <2>3, <2>5, <3>1, OneDefinition DEF Justifies
    <3>3. IR!At(f, p) = inst
      BY <3>1, <3>2
    <3> HIDE DEF inst, known
    <3>4. t.env[v[2]] = IR!Applied(inst.op, IR!ValueIn(s, inst.args[1]), IR!ValueIn(s, inst.args[2]))
      BY <1>2, <2>3, <2>5, <3>3 DEF Effect, PureValue, inst
    <3>5. known[v] = IR!Applied(inst.op, IR!ConstantIn(inst.args[1], known),
                                IR!ConstantIn(inst.args[2], known))
      BY <2>2, <3>3 DEF Justifies, IR!Folded
    <3>6. /\ IR!ValueIn(s, inst.args[1]) \in {IR!ConstantIn(inst.args[1], known), IR!Undefined}
          /\ IR!ValueIn(s, inst.args[2]) \in {IR!ConstantIn(inst.args[2], known), IR!Undefined}
      BY <2>2, <2>3, <3>3, OperandConstant DEF Justifies, known
    <3> QED
      BY <3>4, <3>5, <3>6, StrictlyApplied
  <2> QED
    BY <2>4, <2>5
<1> QED
  BY <1>1, <1>2

LEMMA BlockConstants ==
  ASSUME NEW f, IsFunction(f), NEW s, IsState(s), s.to \in Enterable(f), Constants(f, s.env)
  PROVE  Constants(f, IR!ExecuteBlock(f, s).env)
<1>0. s.to \in DOMAIN f
  BY DEF Enterable
<1> DEFINE n == Len(f[s.to].code)
<1>1. n \in Nat /\ DOMAIN f[s.to].code = 1..n
  BY <1>0, FunctionShape
<1>2. PICK w : IsTrace(w, f, s, n) /\ IR!ExecuteBlock(f, s) = [w[n] EXCEPT !.from = s.to]
  BY <1>1, BlockRun
<1> HIDE DEF n
<1> DEFINE Good == {i \in Nat : i <= n => IsState(w[i]) /\ Constants(f, w[i].env)}
<1>3. 0 \in Good
  <2> DEFINE e == s.env
             t == Entered(s)
  <2>1. t = [s EXCEPT !.mode = "run", !.entry = e]
    BY DEF Entered
  <2> HIDE DEF t, e
  <2>2. t.env = s.env /\ IsState(t)
    BY <2>1 DEF IsState
  <2>3. w[0] = t
    BY <1>2 DEF IsTrace, t
  <2> QED
    BY <2>2, <2>3
<1>4. ASSUME NEW i \in Nat, i \in Good PROVE i + 1 \in Good
  <2> SUFFICES ASSUME i + 1 <= n PROVE IsState(w[i + 1]) /\ Constants(f, w[i + 1].env)
    OBVIOUS
  <2>1. i + 1 \in 1..n /\ (i + 1) - 1 = i
    BY <1>1
  <2>2. w[i + 1] = IR!Executed(w[i], f[s.to].code[i + 1])
    BY <1>2, <2>1 DEF IsTrace
  <2>3. IsState(w[i]) /\ Constants(f, w[i].env)
    BY <1>1, <1>4
  <2>4. Effect(w[i], f[s.to].code[i + 1], w[i + 1])
    <3>1. f[s.to].code[i + 1] \in IRInstruction(f) /\ WellFormed(f[s.to].code[i + 1])
      BY <1>0, <1>1, <2>1, InstructionShape
    <3> QED
      BY <2>2, <2>3, <3>1, ExecutedEffect
  <2>5. i + 1 \in DOMAIN f[s.to].code
    BY <1>1, <2>1
  <2>6. Constants(f, w[i + 1].env)
    BY <1>0, <2>3, <2>4, <2>5, ConstantsNext
  <2>7. IsState(w[i + 1])
    BY <2>4 DEF Effect
  <2> QED
    BY <2>6, <2>7
<1>5. \A i \in Nat : i \in Good
  <2> HIDE DEF Good
  <2> QED
    BY <1>3, <1>4, Paths!CountingUp
<1>6. IsState(w[n]) /\ Constants(f, w[n].env)
  BY <1>1, <1>5
<1>7. [w[n] EXCEPT !.from = s.to].env = w[n].env
  BY <1>6 DEF IsState
<1> QED
  BY <1>2, <1>6, <1>7


-----------------------------------------------------------------------------
(* The executions side by side.                                            *)

\* The executions of the function before and after the passes are one; while it
\* goes on, it is at a block of the function, at whose start all that is computed
\* twice agrees.
SideBySide ==
  /\ source # <<>>
  /\ run.source = run.ir
  /\ IsState(run.source)
  /\ run.source.mode = "next" => run.source.to \in Enterable(source) /\ AgreeAll(source, run.source.env)
  /\ Constants(source, run.source.env)

BackendInv ==
  /\ source # <<>> => source \in Functions /\ blocks = IR!Optimized(source)
  /\ asm # <<>> => source # <<>>
  /\ Running => SideBySide

LEMMA BackendStart == BackendInit => BackendInv
<1> SUFFICES ASSUME BackendInit PROVE BackendInv
  OBVIOUS
<1>1. ~Running
  BY DEF BackendInit, NotRunning, Running
<1>2. asm = <<>>
  BY DEF BackendInit
<1>3. source # <<>> => source \in Functions /\ blocks = IR!Optimized(source)
  BY DEF BackendInit
<1> QED
  BY <1>1, <1>2, <1>3 DEF BackendInv

\* An execution begins with the entry block and no temporary computed.
LEMMA ExecutionStart ==
  ASSUME NEW f, IsFunction(f), NEW answers
  PROVE  /\ IsState(Execution(answers)) /\ Execution(answers).to \in Enterable(f)
         /\ AgreeAll(f, Execution(answers).env) /\ Constants(f, Execution(answers).env)
<1> DEFINE env == [v \in Value |-> IR!Undefined]
           s == Execution(answers)
<1>1. s.env = env /\ s.to = 1
  BY DEF Execution
<1>2. IsState(s)
  BY DEF Execution, IsState
<1> HIDE DEF s
<1>3. \A w \in Temporaries : s.env[w[2]] = IR!Undefined
  BY <1>1, TemporaryShape
<1>4. AgreeAll(f, s.env)
  BY <1>3, PureResults DEF AgreeAll, Repeats
<1>5. Constants(f, s.env)
  <2> SUFFICES ASSUME NEW v \in DOMAIN IR!ConstantValues(f) PROVE s.env[v[2]] = IR!Undefined
    BY DEF Constants
  <2>1. PICK p \in IR!Positions(f) : Justifies(f, IR!ConstantValues(f), v, p)
    BY ConstantsJustified DEF Justified
  <2>2. v \in Temporaries
    BY <2>1, BinaryPosition DEF Justifies
  <2> QED
    BY <1>3, <2>2
<1> QED
  BY <1>1, <1>2, <1>4, <1>5, FunctionShape DEF s, Enterable

LEMMA BackendStep ==
  BackendInv /\ [BackendNext]_<<vars, backend>> => BackendInv'
<1> SUFFICES ASSUME BackendInv, [BackendNext]_<<vars, backend>> PROVE BackendInv'
  OBVIOUS
<1>1. CASE UNCHANGED backend
  <2>1. source' = source /\ blocks' = blocks /\ asm' = asm /\ run' = run
    BY <1>1 DEF backend
  <2> QED
    BY <2>1 DEF BackendInv, Running, SideBySide
<1>2. CASE GenerateAssembly
  <2>1. source' = source /\ blocks' = blocks /\ run' = run /\ source # <<>>
    BY <1>2 DEF GenerateAssembly
  <2> QED
    BY <2>1 DEF BackendInv, Running, SideBySide
<1>3. CASE Execute
  <2>1. /\ source' = source /\ blocks' = blocks /\ asm' = asm /\ asm # <<>>
    BY <1>3 DEF Execute
  <2>2. PICK answers \in Answers :
          run' = [turns |-> 1, source |-> Execution(answers), ir |-> Execution(answers),
                  machine |-> Machine(answers)]
    BY <1>3 DEF Execute
  <2>3. source # <<>> /\ IsFunction(source)
    BY <2>1, FunctionsAssumption DEF BackendInv
  <2>4. run'.source = Execution(answers) /\ run'.ir = Execution(answers)
    BY <2>2
  <2>5. SideBySide'
    BY <2>1, <2>3, <2>4, ExecutionStart DEF SideBySide
  <2> QED
    BY <2>1, <2>5 DEF BackendInv
<1>4. CASE ExecuteBlock
  <2> DEFINE s == run.source
             t == IF s.mode = "next" THEN IR!ExecuteBlock(source, s) ELSE s
  <2>1. /\ source' = source /\ blocks' = blocks /\ asm' = asm
        /\ run.turns \in 1..MaxBlocks
    BY <1>4 DEF ExecuteBlock
  <2>2. SideBySide
    BY <2>1 DEF BackendInv, Running
  <2>3. IsFunction(source) /\ blocks = IR!GVN(source)
    BY <2>2, FunctionsAssumption, OptimizedIs DEF BackendInv, SideBySide
  <2>4. /\ run'.source = t
        /\ run'.ir = IF run.ir.mode = "next" THEN IR!ExecuteBlock(blocks, run.ir) ELSE run.ir
    BY <1>4 DEF ExecuteBlock, Advanced
  <2> HIDE DEF s
  <2>5. CASE s.mode = "next"
    <3>1. IsState(s) /\ s.to \in Enterable(source) /\ AgreeAll(source, s.env) /\ Constants(source, s.env)
      BY <2>2, <2>5 DEF SideBySide, s
    <3>2. /\ t = IR!ExecuteBlock(blocks, s) /\ IsState(t)
          /\ t.mode = "next" => t.to \in Enterable(source) /\ AgreeAll(source, t.env)
      BY <2>3, <2>5, <3>1, BlockKept
    <3>3. Constants(source, t.env)
      BY <2>3, <2>5, <3>1, BlockConstants
    <3>4. run'.ir = t
      BY <2>2, <2>4, <2>5, <3>2 DEF SideBySide, s
    <3> HIDE DEF t
    <3>5. SideBySide'
      BY <2>1, <2>2, <2>4, <3>2, <3>3, <3>4 DEF SideBySide
    <3> QED
      BY <2>1, <3>5 DEF BackendInv
  <2>6. CASE s.mode # "next"
    <3>1. run'.source = run.source /\ run'.ir = run.ir
      BY <2>2, <2>4, <2>6 DEF SideBySide, s
    <3>2. SideBySide'
      BY <2>1, <2>2, <3>1 DEF SideBySide
    <3> QED
      BY <2>1, <3>2 DEF BackendInv
  <2> QED
    BY <2>5, <2>6
<1> QED
  BY <1>1, <1>2, <1>3, <1>4 DEF BackendNext, Allocate

\* DCE, GVN and DCE change neither the calls a function makes nor what is in its
\* stack slots nor what it returns, and what constant propagation takes for a
\* constant is one.  It is nothing about SimplifyCFG, Mem2Reg and LICM.
THEOREM PassesKeepMeaningTheorem == BackendSpec => []PassesKeepMeaning
<1>1. BackendInv => PassesKeepMeaning
  <2> SUFFICES ASSUME Running, SideBySide PROVE PassesKeepMeaning
    BY DEF BackendInv, PassesKeepMeaning
  <2>1. Same(run.source, run.ir)
    BY DEF SideBySide, Same
  <2> QED
    BY <2>1 DEF SideBySide, Constants, PassesKeepMeaning
<1> QED
  BY <1>1, BackendStart, BackendStep, PTL DEF BackendSpec


-----------------------------------------------------------------------------
(* The allocator below the backend.                                        *)

\* The backend takes the allocator's places as allocate left them: with the
\* backend around it, the allocator does what it does alone.
THEOREM BackendAllocates == BackendSpec => Spec
<1>1. BackendInit => Init
  BY CompiledAssumption DEF BackendInit, Init
<1>2. [BackendNext]_<<vars, backend>> => [Next]_vars
  <2> SUFFICES ASSUME [BackendNext]_<<vars, backend>> PROVE [Next]_vars
    OBVIOUS
  <2>1. CASE Allocate
    BY <2>1 DEF Allocate
  <2>2. CASE GenerateAssembly \/ Execute \/ ExecuteBlock
    <3>1. UNCHANGED vars
      BY <2>2 DEF GenerateAssembly, Execute, ExecuteBlock
    <3> QED
      BY <3>1
  <2>3. CASE UNCHANGED <<vars, backend>>
    BY <2>3
  <2> QED
    BY <2>1, <2>2, <2>3 DEF BackendNext
<1> QED
  BY <1>1, <1>2, PTL DEF BackendSpec, Spec

\* So all that is proved of the allocator holds of it here: places are not shared by
\* values that live together, no register is lost, no definition overwrites a value
\* that is still to be read, no more values are spilled than must be, and the
\* allocator keeps the promise it is asked for.
THEOREM BackendInherits ==
  BackendSpec =>
    /\ [](TypeOK /\ PlacesUnshared /\ RegistersConserved /\ NoClobber /\ SpillsMinimal)
    /\ KeepsPromise
BY BackendAllocates, TypeCorrect, NothingShared, Conservation, NothingIsClobbered,
   FewestAreSpilled, Implementation, PTL

-----------------------------------------------------------------------------
(* The machine.                                                            *)

\* w[i] is the state of the machine after the first i lines.
Follows(w, m, lines) ==
  w[0] = m /\ \A i \in 1..Len(lines) : w[i] = Step(w[i - 1], lines[i])

\* Every run of lines has its states one after the other.
LEMMA RanFollows ==
  ASSUME NEW m, NEW lines, Len(lines) \in Nat
  PROVE  \E w : Follows(w, m, lines) /\ Ran(m, lines) = w[Len(lines)]
<1> DEFINE n == Len(lines)
           After[i \in 0..n] == IF i = 0 THEN m ELSE Step(After[i - 1], lines[i])
           Prefix(w, k) == w = [i \in 0..k |-> IF i = 0 THEN m ELSE Step(w[i - 1], lines[i])]
           Built == {k \in Nat : \E w : Prefix(w, k)}
<1>1. Ran(m, lines) = After[n]
  BY DEF Ran
<1>2. 0 \in Built
  <2>1. Prefix([i \in 0..0 |-> m], 0)
    OBVIOUS
  <2> QED
    BY <2>1
<1>3. ASSUME NEW k \in Nat, k \in Built PROVE k + 1 \in Built
  <2>1. PICK w : Prefix(w, k)
    BY <1>3
  <2> DEFINE v == [i \in 0..k + 1 |-> IF i = k + 1 THEN Step(w[k], lines[k + 1]) ELSE w[i]]
  <2>2. \A i \in 0..k : v[i] = w[i]
    OBVIOUS
  <2>3. v[k + 1] = Step(w[k], lines[k + 1])
    OBVIOUS
  <2>4. v = [i \in 0..k + 1 |-> v[i]]
    OBVIOUS
  <2> HIDE DEF v
  <2>5. ASSUME NEW i \in 0..k + 1
        PROVE  v[i] = IF i = 0 THEN m ELSE Step(v[i - 1], lines[i])
    <3>1. CASE i = k + 1
      <4>1. i # 0 /\ i - 1 = k /\ k \in 0..k
        BY <3>1
      <4> QED
        BY <2>2, <2>3, <3>1, <4>1
    <3>2. CASE i = 0
      BY <2>1, <2>2, <3>2
    <3>3. CASE i \in 1..k
      <4>1. i \in 0..k /\ i - 1 \in 0..k /\ i # 0
        BY <3>3
      <4>2. w[i] = Step(w[i - 1], lines[i])
        BY <2>1, <4>1
      <4> QED
        BY <2>2, <4>1, <4>2
    <3> QED
      BY <3>1, <3>2, <3>3
  <2>6. Prefix(v, k + 1)
    BY <2>4, <2>5
  <2> HIDE DEF Prefix
  <2> QED
    BY <2>6
<1>4. \A k \in Nat : k \in Built
  <2>1. 1 \in Nat \ {0}
    OBVIOUS
  <2> HIDE DEF Built
  <2> QED
    BY <1>2, <1>3, <2>1, Paths!CountingUp
<1>5. PICK w : Prefix(w, n)
  BY <1>4
<1>6. After = [i \in 0..n |-> IF i = 0 THEN m ELSE Step(After[i - 1], lines[i])]
  BY <1>5
<1> HIDE DEF After
<1>7. After[0] = m
  BY <1>6
<1>8. ASSUME NEW i \in 1..n PROVE After[i] = Step(After[i - 1], lines[i])
  <2>1. i \in 0..n /\ i # 0
    OBVIOUS
  <2> QED
    BY <1>6, <2>1
<1>9. Follows(After, m, lines)
  BY <1>7, <1>8 DEF Follows
<1> QED
  BY <1>1, <1>9

\* There is one such way through the lines.
LEMMA FollowsRan ==
  ASSUME NEW m, NEW lines, Len(lines) \in Nat, NEW w, Follows(w, m, lines)
  PROVE  Ran(m, lines) = w[Len(lines)]
<1>1. PICK v : Follows(v, m, lines) /\ Ran(m, lines) = v[Len(lines)]
  BY RanFollows
<1> DEFINE Good == {i \in Nat : i <= Len(lines) => w[i] = v[i]}
<1>2. 0 \in Good
  BY <1>1 DEF Follows
<1>3. ASSUME NEW i \in Nat, i \in Good PROVE i + 1 \in Good
  <2> SUFFICES ASSUME i + 1 <= Len(lines) PROVE w[i + 1] = v[i + 1]
    OBVIOUS
  <2>1. w[i] = v[i] /\ i + 1 \in 1..Len(lines) /\ (i + 1) - 1 = i
    BY <1>3
  <2> QED
    BY <1>1, <2>1 DEF Follows
<1>4. \A i \in Nat : i \in Good
  <2>1. 1 \in Nat \ {0}
    OBVIOUS
  <2> HIDE DEF Good
  <2> QED
    BY <1>2, <1>3, <2>1, Paths!CountingUp
<1> QED
  BY <1>1, <1>4

\* A sequence of lines.
IsText(x) == \E S : x \in Seq(S)

LEMMA TextShape ==
  ASSUME NEW x, IsText(x)
  PROVE  Len(x) \in Nat /\ DOMAIN x = 1..Len(x) /\ x = [i \in 1..Len(x) |-> x[i]]
  BY DEF IsText

LEMMA TextThen ==
  ASSUME NEW x, IsText(x), NEW y, IsText(y)
  PROVE  /\ IsText(x \o y) /\ Len(x \o y) = Len(x) + Len(y)
         /\ \A i \in 1..Len(x) : (x \o y)[i] = x[i]
         /\ \A i \in 1..Len(y) : (x \o y)[Len(x) + i] = y[i]
<1>1. PICK S : x \in Seq(S)
  BY DEF IsText
<1>2. PICK T : y \in Seq(T)
  BY DEF IsText
<1>3. x \in Seq(S \cup T) /\ y \in Seq(S \cup T)
  BY <1>1, <1>2
<1> DEFINE U == S \cup T
<1> HIDE DEF U
<1>4. x \in Seq(U) /\ y \in Seq(U)
  BY <1>3 DEF U
<1>5. x \o y \in Seq(U) /\ Len(x \o y) = Len(x) + Len(y)
  BY <1>4
<1>6. \A i \in 1..Len(x) : (x \o y)[i] = x[i]
  BY <1>4
<1>7. \A i \in 1..Len(y) : (x \o y)[Len(x) + i] = y[i]
  BY <1>4
<1> QED
  BY <1>5, <1>6, <1>7 DEF IsText

LEMMA ShortTexts ==
  /\ IsText(<<>>)
  /\ \A a : IsText(<<a>>)
  /\ \A a, b : IsText(<<a, b>>)
  /\ \A a, b, c : IsText(<<a, b, c>>)
  /\ \A a, b, c, d : IsText(<<a, b, c, d>>)
<1>1. IsText(<<>>)
  <2>1. <<>> \in Seq({})
    OBVIOUS
  <2> QED
    BY <2>1 DEF IsText
<1>2. ASSUME NEW a PROVE IsText(<<a>>)
  <2>1. <<a>> \in Seq({a})
    OBVIOUS
  <2> QED
    BY <2>1 DEF IsText
<1>3. ASSUME NEW a, NEW b PROVE IsText(<<a, b>>)
  <2>1. <<a, b>> \in Seq({a, b})
    OBVIOUS
  <2> QED
    BY <2>1 DEF IsText
<1>4. ASSUME NEW a, NEW b, NEW c PROVE IsText(<<a, b, c>>)
  <2>1. <<a, b, c>> \in Seq({a, b, c})
    OBVIOUS
  <2> QED
    BY <2>1 DEF IsText
<1>5. ASSUME NEW a, NEW b, NEW c, NEW d PROVE IsText(<<a, b, c, d>>)
  <2>1. <<a, b, c, d>> \in Seq({a, b, c, d})
    OBVIOUS
  <2> QED
    BY <2>1 DEF IsText
<1> QED
  BY <1>1, <1>2, <1>3, <1>4, <1>5

\* What is run in two parts.
LEMMA RanThen ==
  ASSUME NEW m, NEW x, IsText(x), NEW y, IsText(y)
  PROVE  Ran(m, x \o y) = Ran(Ran(m, x), y)
<1>1. Len(x) \in Nat /\ Len(y) \in Nat
  BY TextShape
<1>2. PICK w : Follows(w, m, x) /\ Ran(m, x) = w[Len(x)]
  BY <1>1, RanFollows
<1>3. PICK v : Follows(v, Ran(m, x), y) /\ Ran(Ran(m, x), y) = v[Len(y)]
  BY <1>1, RanFollows
<1> DEFINE k == Len(x)
           n == Len(y)
           u == [i \in 0..k + n |-> IF i <= k THEN w[i] ELSE v[i - k]]
<1>4. Len(x \o y) = k + n /\ (\A i \in 1..k : (x \o y)[i] = x[i]) /\ (\A i \in 1..n : (x \o y)[k + i] = y[i])
  BY TextThen
<1>5. v[0] = w[k]
  BY <1>2, <1>3 DEF Follows
<1>6. \A i \in 0..k : u[i] = w[i]
  BY <1>1
<1>7. \A i \in 0..n : u[k + i] = v[i]
  BY <1>1, <1>5
<1> HIDE DEF u
<1>8. ASSUME NEW i \in 1..k + n PROVE u[i] = Step(u[i - 1], (x \o y)[i])
  <2>1. CASE i <= k
    <3>1. i \in 1..k /\ i \in 0..k /\ i - 1 \in 0..k
      BY <1>1, <2>1
    <3>2. w[i] = Step(w[i - 1], x[i])
      BY <1>2, <3>1 DEF Follows
    <3> QED
      BY <1>4, <1>6, <3>1, <3>2
  <2>2. CASE ~(i <= k)
    <3> DEFINE j == i - k
    <3>1. j \in 1..n /\ j \in 0..n /\ j - 1 \in 0..n /\ k + j = i /\ k + (j - 1) = i - 1
      BY <1>1, <2>2
    <3>2. v[j] = Step(v[j - 1], y[j])
      BY <1>3, <3>1 DEF Follows
    <3> HIDE DEF j
    <3>3. u[i] = v[j] /\ u[i - 1] = v[j - 1] /\ (x \o y)[i] = y[j]
      BY <1>4, <1>7, <3>1
    <3> QED
      BY <3>2, <3>3
  <2> QED
    BY <2>1, <2>2
<1>9. Follows(u, m, x \o y)
  BY <1>1, <1>2, <1>4, <1>6, <1>8 DEF Follows
<1>10. k + n \in Nat /\ n \in 0..n
  BY <1>1
<1>11. Ran(m, x \o y) = u[k + n]
  BY <1>4, <1>9, <1>10, FollowsRan
<1> QED
  BY <1>3, <1>7, <1>10, <1>11

LEMMA RanNothing == ASSUME NEW m PROVE Ran(m, <<>>) = m
<1>1. PICK w : Follows(w, m, <<>>) /\ Ran(m, <<>>) = w[0]
  BY RanFollows
<1> QED
  BY <1>1 DEF Follows

LEMMA RanOne ==
  ASSUME NEW m, NEW a
  PROVE  Ran(m, <<a>>) = Step(m, a)
<1> DEFINE t == <<a>>
<1>1. Len(t) = 1 /\ Len(t) \in Nat /\ t[1] = a
  OBVIOUS
<1> HIDE DEF t
<1>2. PICK w : Follows(w, m, t) /\ Ran(m, t) = w[1]
  BY <1>1, RanFollows
<1>3. w[0] = m /\ w[1] = Step(w[0], a)
  BY <1>1, <1>2 DEF Follows
<1> QED
  BY <1>2, <1>3 DEF t

LEMMA RanTwo ==
  ASSUME NEW m, NEW a, NEW b
  PROVE  Ran(m, <<a, b>>) = Step(Step(m, a), b)
<1> DEFINE t == <<a, b>>
<1>1. Len(t) = 2 /\ Len(t) \in Nat /\ t[1] = a /\ t[2] = b
  OBVIOUS
<1> HIDE DEF t
<1>2. PICK w : Follows(w, m, t) /\ Ran(m, t) = w[2]
  BY <1>1, RanFollows
<1>3. w[0] = m /\ w[1] = Step(w[0], a) /\ w[2] = Step(w[1], b)
  BY <1>1, <1>2 DEF Follows
<1> QED
  BY <1>2, <1>3 DEF t

LEMMA RanThree ==
  ASSUME NEW m, NEW a, NEW b, NEW c
  PROVE  Ran(m, <<a, b, c>>) = Step(Step(Step(m, a), b), c)
<1> DEFINE t == <<a, b, c>>
<1>1. Len(t) = 3 /\ Len(t) \in Nat /\ t[1] = a /\ t[2] = b /\ t[3] = c
  OBVIOUS
<1> HIDE DEF t
<1>2. PICK w : Follows(w, m, t) /\ Ran(m, t) = w[3]
  BY <1>1, RanFollows
<1>3. w[0] = m /\ w[1] = Step(w[0], a) /\ w[2] = Step(w[1], b) /\ w[3] = Step(w[2], c)
  BY <1>1, <1>2 DEF Follows
<1> QED
  BY <1>2, <1>3 DEF t

LEMMA RanFour ==
  ASSUME NEW m, NEW a, NEW b, NEW c, NEW d
  PROVE  Ran(m, <<a, b, c, d>>) = Step(Step(Step(Step(m, a), b), c), d)
<1> DEFINE t == <<a, b, c, d>>
<1>1. Len(t) = 4 /\ Len(t) \in Nat /\ t[1] = a /\ t[2] = b /\ t[3] = c /\ t[4] = d
  OBVIOUS
<1> HIDE DEF t
<1>2. PICK w : Follows(w, m, t) /\ Ran(m, t) = w[4]
  BY <1>1, RanFollows
<1>3. w[0] = m /\ w[1] = Step(w[0], a) /\ w[2] = Step(w[1], b) /\ w[3] = Step(w[2], c) /\ w[4] = Step(w[3], d)
  BY <1>1, <1>2 DEF Follows
<1> QED
  BY <1>2, <1>3 DEF t

\* Whoever is not running stays where it is, and whoever skips does until the label.
LEMMA RanIdle ==
  ASSUME NEW m, m.mode \notin {"run", "skip"}, NEW lines, Len(lines) \in Nat
  PROVE  Ran(m, lines) = m
<1> DEFINE w == [i \in 0..Len(lines) |-> m]
<1>1. \A l : Step(m, l) = m
  BY Zenon DEF Step
<1>2. Follows(w, m, lines)
  BY <1>1 DEF Follows
<1>3. w[Len(lines)] = m
  OBVIOUS
<1> HIDE DEF w
<1> QED
  BY <1>2, <1>3, FollowsRan

\* A machine that looks for a label skips the lines up to it.
LEMMA RanSkipping ==
  ASSUME NEW m, m.mode = "skip", NEW lines, Len(lines) \in Nat,
         \A i \in 1..Len(lines) : lines[i][1] # "label"
  PROVE  Ran(m, lines) = m
<1> DEFINE w == [i \in 0..Len(lines) |-> m]
<1>1. \A i \in 1..Len(lines) : Step(m, lines[i]) = m
  <2> SUFFICES ASSUME NEW l, l[1] # "label" PROVE Step(m, l) = m
    OBVIOUS
  <2>1. m.mode # "run"
    OBVIOUS
  <2> QED
    BY <2>1, Zenon DEF Step
<1>2. Follows(w, m, lines)
  BY <1>1 DEF Follows
<1>3. w[Len(lines)] = m
  OBVIOUS
<1> HIDE DEF w
<1> QED
  BY <1>2, <1>3, FollowsRan

\* F[i] is the text of the first i sequences.
Joins(F, seqs) ==
  /\ F[0] = <<>>
  /\ \A i \in 1..Len(seqs) : F[i] = F[i - 1] \o seqs[i]
  /\ \A i \in 0..Len(seqs) : IsText(F[i])

\* FlattenSeq joins the texts of a sequence in their order.
LEMMA FlattenJoins ==
  ASSUME NEW seqs, IsText(seqs), \A i \in 1..Len(seqs) : IsText(seqs[i])
  PROVE  \E F : Joins(F, seqs) /\ FlattenSeq(seqs) = F[Len(seqs)]
<1> DEFINE n == Len(seqs)
           flatten[i \in 1..n] == IF i = 1 THEN seqs[i] ELSE flatten[i - 1] \o seqs[i]
           Prefix(w, k) == /\ w = [i \in 1..k |-> IF i = 1 THEN seqs[i] ELSE w[i - 1] \o seqs[i]]
                           /\ \A i \in 1..k : IsText(w[i])
           Built == {k \in Nat : k <= n => \E w : Prefix(w, k)}
<1>1. n \in Nat
  BY TextShape
<1>2. CASE n = 0
  <2>1. seqs = <<>>
    <3>1. PICK S : seqs \in Seq(S)
      BY DEF IsText
    <3> QED
      BY <1>2, <3>1
  <2>2. FlattenSeq(seqs) = <<>>
    BY <1>2, <2>1 DEF FlattenSeq
  <2>3. Joins([i \in 0..0 |-> <<>>], seqs)
    BY <1>2, ShortTexts DEF Joins
  <2> QED
    BY <1>2, <2>2, <2>3
<1>3. CASE n # 0
  <2>1. FlattenSeq(seqs) = flatten[n]
    BY <1>3 DEF FlattenSeq
  <2> HIDE DEF n
  <2>2. 0 \in Built
    <3>1. Prefix([i \in 1..0 |-> <<>>], 0)
      OBVIOUS
    <3> QED
      BY <3>1
  <2>3. ASSUME NEW k \in Nat, k \in Built PROVE k + 1 \in Built
    <3> SUFFICES ASSUME k + 1 <= n PROVE \E w : Prefix(w, k + 1)
      <4> HIDE DEF Prefix
      <4> QED
        OBVIOUS
    <3>0. \E w : Prefix(w, k)
      <4> HIDE DEF Prefix
      <4> QED
        BY <1>1, <2>3
    <3>1. PICK w : Prefix(w, k)
      BY <3>0
    <3> DEFINE v == [i \in 1..k + 1 |->
                       IF i = k + 1 THEN IF k = 0 THEN seqs[1] ELSE w[k] \o seqs[k + 1] ELSE w[i]]
    <3>2. \A i \in 1..k : v[i] = w[i]
      OBVIOUS
    <3>3. v[k + 1] = IF k = 0 THEN seqs[1] ELSE w[k] \o seqs[k + 1]
      OBVIOUS
    <3>4. v = [i \in 1..k + 1 |-> v[i]]
      OBVIOUS
    <3>5. IsText(seqs[k + 1]) /\ IsText(v[k + 1])
      <4>1. k + 1 \in 1..n
        BY <1>1
      <4>2. IsText(seqs[k + 1])
        BY <4>1 DEF n
      <4>3. k # 0 => IsText(w[k])
        BY <3>1
      <4> HIDE DEF v
      <4> QED
        BY <3>3, <4>2, <4>3, TextThen
    <3> HIDE DEF v
    <3>6. ASSUME NEW i \in 1..k + 1
          PROVE  IsText(v[i]) /\ v[i] = IF i = 1 THEN seqs[i] ELSE v[i - 1] \o seqs[i]
      <4>1. CASE i = k + 1
        <5>1. k # 0 => i # 1 /\ i - 1 = k /\ k \in 1..k
          BY <4>1
        <5> QED
          BY <3>2, <3>3, <3>5, <4>1, <5>1
      <4>2. CASE i \in 1..k
        <5>1. w[i] = IF i = 1 THEN seqs[i] ELSE w[i - 1] \o seqs[i]
          BY <3>1, <4>2
        <5>2. IsText(w[i])
          BY <3>1, <4>2
        <5>3. i # 1 => i - 1 \in 1..k
          BY <4>2
        <5> QED
          BY <3>2, <4>2, <5>1, <5>2, <5>3
      <4> QED
        BY <4>1, <4>2
    <3>7. Prefix(v, k + 1)
      BY <3>4, <3>6
    <3> HIDE DEF Prefix
    <3> QED
      BY <3>7
  <2>4. \A k \in Nat : k \in Built
    <3>1. 1 \in Nat \ {0}
      OBVIOUS
    <3> HIDE DEF Built
    <3> QED
      BY <2>2, <2>3, <3>1, Paths!CountingUp
  <2>5. \E w : Prefix(w, n)
    <3> HIDE DEF Prefix
    <3> QED
      BY <1>1, <2>4
  <2>6. flatten = [i \in 1..n |-> IF i = 1 THEN seqs[i] ELSE flatten[i - 1] \o seqs[i]]
    BY <2>5
  <2>7. \A i \in 1..n : IsText(flatten[i])
    <3> DEFINE Good == {k \in Nat : k \in 1..n => IsText(flatten[k])}
    <3> HIDE DEF flatten
    <3>1. 0 \in Good
      OBVIOUS
    <3>2. ASSUME NEW k \in Nat, k \in Good PROVE k + 1 \in Good
      <4> SUFFICES ASSUME k + 1 \in 1..n PROVE IsText(flatten[k + 1])
        OBVIOUS
      <4>1. IsText(seqs[k + 1])
        BY DEF n
      <4>2. flatten[k + 1] = IF k = 0 THEN seqs[1] ELSE flatten[k] \o seqs[k + 1]
        <5>1. k + 1 = 1 <=> k = 0
          OBVIOUS
        <5>2. (k + 1) - 1 = k
          OBVIOUS
        <5> QED
          BY <2>6, <5>1, <5>2
      <4>3. k # 0 => IsText(flatten[k])
        BY <1>1, <3>2
      <4> QED
        BY <4>1, <4>2, <4>3, TextThen
    <3>3. \A k \in Nat : k \in Good
      <4>1. 1 \in Nat \ {0}
        OBVIOUS
      <4> HIDE DEF Good
      <4> QED
        BY <3>1, <3>2, <4>1, Paths!CountingUp
    <3> QED
      BY <1>1, <3>3
  <2> HIDE DEF flatten
  <2> DEFINE F == [i \in 0..n |-> IF i = 0 THEN <<>> ELSE flatten[i]]
  <2>8. F[0] = <<>> /\ \A i \in 1..n : F[i] = flatten[i]
    BY <1>1
  <2> HIDE DEF F
  <2>9. \A i \in 0..n : IsText(F[i])
    <3> SUFFICES ASSUME NEW i \in 0..n PROVE IsText(F[i])
      OBVIOUS
    <3>1. i = 0 \/ i \in 1..n
      BY <1>1
    <3> QED
      BY <2>7, <2>8, <3>1, ShortTexts
  <2>10. ASSUME NEW i \in 1..n PROVE F[i] = F[i - 1] \o seqs[i]
    <3>1. CASE i = 1
      <4>1. F[i] = seqs[1] /\ F[i - 1] = <<>>
        BY <1>1, <2>6, <2>8, <3>1
      <4>2. PICK S : seqs[1] \in Seq(S)
        BY <3>1, <2>10 DEF IsText, n
      <4>3. <<>> \o seqs[1] = seqs[1]
        BY <4>2
      <4> QED
        BY <3>1, <4>1, <4>3
    <3>2. CASE i # 1
      <4>1. i - 1 \in 1..n
        BY <1>1, <3>2
      <4> QED
        BY <2>6, <2>8, <3>2, <4>1
    <3> QED
      BY <3>1, <3>2
  <2>11. Joins(F, seqs)
    BY <2>8, <2>9, <2>10 DEF Joins, n
  <2>12. FlattenSeq(seqs) = F[n] /\ n = Len(seqs)
    BY <1>1, <1>3, <2>1, <2>8 DEF n
  <2> QED
    BY <2>11, <2>12
<1> QED
  BY <1>2, <1>3

\* A state of the machine.
IsMachine(m) ==
  /\ m = [mode |-> m.mode, to |-> m.to, regs |-> m.regs, flags |-> m.flags,
          answers |-> m.answers, calls |-> m.calls, val |-> m.val]
  /\ m.regs = [r \in Registers |-> m.regs[r]]

\* What has happened between m and n can be seen in the registers R only.
Changed(m, n, R) ==
  /\ IsMachine(n)
  /\ n.mode = m.mode /\ n.to = m.to /\ n.val = m.val
  /\ n.answers = m.answers /\ n.calls = m.calls
  /\ \A r \in Registers \ R : n.regs[r] = m.regs[r]

\* An operand that is a number, or a register outside R.
Avoids(x, R) ==
  \/ x[1] = "number"
  \/ x[1] = "register" /\ x[2] \in Registers \ R

\* A write changes one register.
LEMMA WriteChanges ==
  ASSUME NEW m, IsMachine(m), NEW r \in Registers, NEW v
  PROVE  /\ Changed(m, Write(m, r, v), {r})
         /\ Write(m, r, v).regs[r] = v
         /\ Write(m, r, v).flags = m.flags
<1> DEFINE rs == [m.regs EXCEPT ![r] = v]
<1>1. Write(m, r, v) = [m EXCEPT !.regs = rs]
  BY DEF Write
<1>2. /\ rs = [q \in Registers |-> rs[q]] /\ rs[r] = v
      /\ \A q \in Registers \ {r} : rs[q] = m.regs[q]
  BY DEF IsMachine
<1> HIDE DEF rs
<1> QED
  BY <1>1, <1>2 DEF IsMachine, Changed

LEMMA FlagsChange ==
  ASSUME NEW m, IsMachine(m), NEW v, NEW w
  PROVE  /\ Changed(m, [m EXCEPT !.flags = <<v, w>>], {})
         /\ [m EXCEPT !.flags = <<v, w>>].flags = <<v, w>>
<1> DEFINE t == <<v, w>>
<1> HIDE DEF t
<1>1. /\ Changed(m, [m EXCEPT !.flags = t], {}) /\ [m EXCEPT !.flags = t].flags = t
  BY DEF IsMachine, Changed
<1> QED
  BY <1>1 DEF t

LEMMA ChangedTwice ==
  ASSUME NEW m, NEW n, NEW k, NEW R, NEW S, Changed(m, n, R), Changed(n, k, S)
  PROVE  Changed(m, k, R \cup S)
  BY DEF Changed

LEMMA ReadKept ==
  ASSUME NEW m, NEW n, NEW R, Changed(m, n, R), NEW x, Avoids(x, R)
  PROVE  Read(n, x) = Read(m, x)
  BY DEF Changed, Avoids, Read

\* What each line does.
LEMMA MovStep ==
  ASSUME NEW m, m.mode = "run", NEW r, NEW x
  PROVE  Step(m, Mov(r, x)) = Write(m, r, Read(m, x))
<1> DEFINE i == Mov(r, x)
<1>1. i[1] = "mov" /\ i[2] = r /\ i[3] = x
  BY DEF Mov
<1> HIDE DEF i
<1>2. Performed(m, i) = Write(m, i[2], Read(m, i[3]))
  BY <1>1 DEF Performed
<1>3. Step(m, i) = Performed(m, i)
  BY DEF Step
<1>4. Write(m, i[2], Read(m, i[3]))
        = Write(m, r, Read(m, x))
  BY <1>1
<1> QED
  BY <1>2, <1>3, <1>4 DEF i

\* What one line does to a running machine.
LEMMA SumStep ==
  ASSUME NEW m, m.mode = "run", NEW op \in {"+", "-"}, NEW r, NEW x
  PROVE  Step(m, <<op, r, x>>) = Write(m, r, IR!Applied(op, m.regs[r], Read(m, x)))
<1> DEFINE i == <<op, r, x>>
<1>1. i[1] = op /\ i[2] = r /\ i[3] = x
  OBVIOUS
<1> HIDE DEF i
<1>2. Performed(m, i) = Write(m, i[2], IR!Applied(i[1], m.regs[i[2]], Read(m, i[3])))
  BY <1>1 DEF Performed
<1>3. Step(m, i) = Performed(m, i)
  BY DEF Step
<1>4. Write(m, i[2], IR!Applied(i[1], m.regs[i[2]], Read(m, i[3])))
        = Write(m, r, IR!Applied(op, m.regs[r], Read(m, x)))
  BY <1>1
<1> QED
  BY <1>2, <1>3, <1>4 DEF i

LEMMA FlipStep ==
  ASSUME NEW m, m.mode = "run", NEW r
  PROVE  Step(m, <<"flip", r>>) = Write(m, r, Flipped(m.regs[r]))
<1> DEFINE i == <<"flip", r>>
<1>1. i[1] = "flip" /\ i[2] = r
  OBVIOUS
<1> HIDE DEF i
<1>2. Performed(m, i) = Write(m, i[2], Flipped(m.regs[i[2]]))
  BY <1>1 DEF Performed
<1>3. Step(m, i) = Performed(m, i)
  BY DEF Step
<1>4. Write(m, i[2], Flipped(m.regs[i[2]]))
        = Write(m, r, Flipped(m.regs[r]))
  BY <1>1
<1> QED
  BY <1>2, <1>3, <1>4 DEF i

LEMMA ImulStep ==
  ASSUME NEW m, m.mode = "run", NEW r, NEW x
  PROVE  Step(m, <<"imul", r, x>>) = Write(Write(m, Rax, IR!Applied("*", m.regs[Rax], Read(m, x))), Rdx, IR!Undefined)
<1> DEFINE i == <<"imul", r, x>>
<1>1. i[1] = "imul" /\ i[2] = r /\ i[3] = x
  OBVIOUS
<1> HIDE DEF i
<1>2. Performed(m, i) = Write(Write(m, Rax, IR!Applied("*", m.regs[Rax], Read(m, i[3]))), Rdx, IR!Undefined)
  BY <1>1 DEF Performed
<1>3. Step(m, i) = Performed(m, i)
  BY DEF Step
<1>4. Write(Write(m, Rax, IR!Applied("*", m.regs[Rax], Read(m, i[3]))), Rdx, IR!Undefined)
        = Write(Write(m, Rax, IR!Applied("*", m.regs[Rax], Read(m, x))), Rdx, IR!Undefined)
  BY <1>1
<1> QED
  BY <1>2, <1>3, <1>4 DEF i

LEMMA CqoStep ==
  ASSUME NEW m, m.mode = "run", NEW r, NEW x
  PROVE  Step(m, <<"cqo", r, x>>) = Write(m, Rdx, IR!Undefined)
<1> DEFINE i == <<"cqo", r, x>>
<1>1. i[1] = "cqo" /\ i[2] = r /\ i[3] = x
  OBVIOUS
<1> HIDE DEF i
<1>2. Performed(m, i) = Write(m, Rdx, IR!Undefined)
  BY <1>1 DEF Performed
<1>3. Step(m, i) = Performed(m, i)
  BY DEF Step
<1> QED
  BY <1>2, <1>3 DEF i

LEMMA IdivStep ==
  ASSUME NEW m, m.mode = "run", NEW r, NEW x
  PROVE  Step(m, <<"idiv", r, x>>) = Write(Write(m, Rax, IR!Applied("/", m.regs[Rax], Read(m, x))), Rdx, IR!Undefined)
<1> DEFINE i == <<"idiv", r, x>>
<1>1. i[1] = "idiv" /\ i[2] = r /\ i[3] = x
  OBVIOUS
<1> HIDE DEF i
<1>2. Performed(m, i) = Write(Write(m, Rax, IR!Applied("/", m.regs[Rax], Read(m, i[3]))), Rdx, IR!Undefined)
  BY <1>1 DEF Performed
<1>3. Step(m, i) = Performed(m, i)
  BY DEF Step
<1>4. Write(Write(m, Rax, IR!Applied("/", m.regs[Rax], Read(m, i[3]))), Rdx, IR!Undefined)
        = Write(Write(m, Rax, IR!Applied("/", m.regs[Rax], Read(m, x))), Rdx, IR!Undefined)
  BY <1>1
<1> QED
  BY <1>2, <1>3, <1>4 DEF i

LEMMA CmpStep ==
  ASSUME NEW m, m.mode = "run", NEW x, NEW y
  PROVE  Step(m, <<"cmp", x, y>>) = [m EXCEPT !.flags = <<Read(m, x), Read(m, y)>>]
<1> DEFINE i == <<"cmp", x, y>>
<1>1. i[1] = "cmp" /\ i[2] = x /\ i[3] = y
  OBVIOUS
<1> HIDE DEF i
<1>2. Performed(m, i) = [m EXCEPT !.flags = <<Read(m, i[2]), Read(m, i[3])>>]
  BY <1>1 DEF Performed
<1>3. Step(m, i) = Performed(m, i)
  BY DEF Step
<1>4. [m EXCEPT !.flags = <<Read(m, i[2]), Read(m, i[3])>>]
        = [m EXCEPT !.flags = <<Read(m, x), Read(m, y)>>]
  BY <1>1
<1> QED
  BY <1>2, <1>3, <1>4 DEF i

LEMMA SetStep ==
  ASSUME NEW m, m.mode = "run", NEW r, NEW op
  PROVE  Step(m, <<"set", r, op>>) = Write(m, r, IR!Applied(op, m.flags[1], m.flags[2]))
<1> DEFINE i == <<"set", r, op>>
<1>1. i[1] = "set" /\ i[2] = r /\ i[3] = op
  OBVIOUS
<1> HIDE DEF i
<1>2. Performed(m, i) = Write(m, i[2], IR!Applied(i[3], m.flags[1], m.flags[2]))
  BY <1>1 DEF Performed
<1>3. Step(m, i) = Performed(m, i)
  BY DEF Step
<1>4. Write(m, i[2], IR!Applied(i[3], m.flags[1], m.flags[2]))
        = Write(m, r, IR!Applied(op, m.flags[1], m.flags[2]))
  BY <1>1
<1> QED
  BY <1>2, <1>3, <1>4 DEF i

LEMMA CallStep ==
  ASSUME NEW m, m.mode = "run", NEW c, NEW n
  PROVE  Step(m, <<"call", c, n>>) = AfterCall(m, c, n)
<1> DEFINE i == <<"call", c, n>>
<1>1. i[1] = "call" /\ i[2] = c /\ i[3] = n
  OBVIOUS
<1> HIDE DEF i
<1>2. Performed(m, i) = AfterCall(m, i[2], i[3])
  BY <1>1 DEF Performed
<1>3. Step(m, i) = Performed(m, i)
  BY DEF Step
<1>4. AfterCall(m, i[2], i[3])
        = AfterCall(m, c, n)
  BY <1>1
<1> QED
  BY <1>2, <1>3, <1>4 DEF i

LEMMA JzStep ==
  ASSUME NEW m, m.mode = "run", NEW x
  PROVE  Step(m, <<"jz", x>>) = AfterTest(m, Read(m, x))
<1> DEFINE i == <<"jz", x>>
<1>1. i[1] = "jz" /\ i[2] = x
  OBVIOUS
<1> HIDE DEF i
<1>2. Performed(m, i) = AfterTest(m, Read(m, i[2]))
  BY <1>1 DEF Performed
<1>3. Step(m, i) = Performed(m, i)
  BY DEF Step
<1>4. AfterTest(m, Read(m, i[2]))
        = AfterTest(m, Read(m, x))
  BY <1>1
<1> QED
  BY <1>2, <1>3, <1>4 DEF i

LEMMA LabelStep ==
  ASSUME NEW m, m.mode = "run"
  PROVE  Step(m, <<"label">>) = m
<1> DEFINE i == <<"label">>
<1>1. i[1] = "label"
  OBVIOUS
<1> HIDE DEF i
<1>2. Performed(m, i) = m
  BY <1>1 DEF Performed
<1>3. Step(m, i) = Performed(m, i)
  BY DEF Step
<1> QED
  BY <1>2, <1>3 DEF i

LEMMA JmpStep ==
  ASSUME NEW m, m.mode = "run", NEW to
  PROVE  Step(m, <<"jmp", to>>) = [m EXCEPT !.mode = "next", !.to = to]
<1> DEFINE i == <<"jmp", to>>
<1>1. i[1] = "jmp" /\ i[2] = to
  OBVIOUS
<1> HIDE DEF i
<1>2. Performed(m, i) = [m EXCEPT !.mode = "next", !.to = i[2]]
  BY <1>1 DEF Performed
<1>3. Step(m, i) = Performed(m, i)
  BY DEF Step
<1>4. [m EXCEPT !.mode = "next", !.to = i[2]]
        = [m EXCEPT !.mode = "next", !.to = to]
  BY <1>1
<1> QED
  BY <1>2, <1>3, <1>4 DEF i

LEMMA RetStep ==
  ASSUME NEW m, m.mode = "run", NEW some
  PROVE  Step(m, <<"ret", some>>) = [m EXCEPT !.mode = "done", !.val = IF some THEN m.regs[Rax] ELSE IR!Undefined]
<1> DEFINE i == <<"ret", some>>
<1>1. i[1] = "ret" /\ i[2] = some
  OBVIOUS
<1> HIDE DEF i
<1>2. Performed(m, i) = [m EXCEPT !.mode = "done", !.val = IF i[2] THEN m.regs[Rax] ELSE IR!Undefined]
  BY <1>1 DEF Performed
<1>3. Step(m, i) = Performed(m, i)
  BY DEF Step
<1>4. [m EXCEPT !.mode = "done", !.val = IF i[2] THEN m.regs[Rax] ELSE IR!Undefined]
        = [m EXCEPT !.mode = "done", !.val = IF some THEN m.regs[Rax] ELSE IR!Undefined]
  BY <1>1
<1> QED
  BY <1>2, <1>3, <1>4 DEF i

\* The lines for an operation leave its value in the register of the result, if they
\* do not overwrite an operand before they read it.
LEMMA SumRan ==
  ASSUME NEW m, IsMachine(m), m.mode = "run", NEW res \in Registers, NEW op \in {"+", "-"},
         NEW l, NEW r, Avoids(r, {res})
  PROVE  LET n == Ran(m, <<Mov(res, l), <<op, res, r>>>>)
         IN Changed(m, n, {res}) /\ n.regs[res] = IR!Applied(op, Read(m, l), Read(m, r))
<1> DEFINE v == Read(m, l)
           m1 == Write(m, res, v)
           w == IR!Applied(op, m1.regs[res], Read(m1, r))
           m2 == Write(m1, res, w)
<1>1. Step(m, Mov(res, l)) = m1
  BY MovStep
<1>2. Changed(m, m1, {res}) /\ m1.regs[res] = v
  BY WriteChanges
<1> HIDE DEF m1, v
<1>3. IsMachine(m1) /\ m1.mode = "run"
  BY <1>2 DEF Changed
<1>4. Step(m1, <<op, res, r>>) = m2
  BY <1>3, SumStep
<1>5. Changed(m1, m2, {res}) /\ m2.regs[res] = w
  BY <1>3, WriteChanges
<1>6. w = IR!Applied(op, v, Read(m, r))
  BY <1>2, ReadKept
<1> HIDE DEF m2, w
<1>7. Ran(m, <<Mov(res, l), <<op, res, r>>>>) = m2
  <2> DEFINE a == Mov(res, l)
             b == <<op, res, r>>
  <2>1. Step(m, a) = m1 /\ Step(m1, b) = m2
    BY <1>1, <1>4
  <2> HIDE DEF a, b
  <2>2. Ran(m, <<a, b>>) = m2
    BY <2>1, RanTwo
  <2> QED
    BY <2>2 DEF a, b
<1>8. Changed(m, m2, {res})
  BY <1>2, <1>5 DEF Changed
<1> QED
  BY <1>5, <1>6, <1>7, <1>8 DEF v

\* What the lines of an operation do together: the result is in its register, and the
\* scratch registers may have changed.
LEMMA ProductRan ==
  ASSUME NEW m, IsMachine(m), m.mode = "run", NEW res \in Registers,
         NEW l, NEW r, Avoids(r, {Rax})
  PROVE  LET n == Ran(m, <<Mov(Rax, l), <<"imul", Rax, r>>, Mov(res, Register(Rax))>>)
         IN Changed(m, n, {Rax, Rdx, res}) /\ n.regs[res] = IR!Applied("*", Read(m, l), Read(m, r))
<1> DEFINE v == Read(m, l)
           m1 == Write(m, Rax, v)
           w == IR!Applied("*", m1.regs[Rax], Read(m1, r))
           m2 == Write(m1, Rax, w)
           m3 == Write(m2, Rdx, IR!Undefined)
           m4 == Write(m3, res, Read(m3, Register(Rax)))
<1>0. Rax \in Registers /\ Rdx \in Registers /\ Rax # Rdx
  BY DEF Rax, Rdx, Registers
<1>1. Step(m, Mov(Rax, l)) = m1
  BY MovStep
<1>2. Changed(m, m1, {Rax}) /\ m1.regs[Rax] = v
  BY <1>0, WriteChanges
<1> HIDE DEF m1, v
<1>3. IsMachine(m1) /\ m1.mode = "run"
  BY <1>2 DEF Changed
<1>4. Step(m1, <<"imul", Rax, r>>) = m3
  BY <1>3, ImulStep
<1>5. w = IR!Applied("*", v, Read(m, r))
  BY <1>2, ReadKept
<1>6. Changed(m1, m2, {Rax}) /\ m2.regs[Rax] = w
  BY <1>0, <1>3, WriteChanges
<1> HIDE DEF m2, w
<1>7. Changed(m2, m3, {Rdx}) /\ IsMachine(m2)
  BY <1>0, <1>6, WriteChanges DEF Changed
<1> HIDE DEF m3
<1>8. IsMachine(m3) /\ m3.mode = "run" /\ m3.regs[Rax] = w
  BY <1>0, <1>3, <1>6, <1>7 DEF Changed
<1>9. Read(m3, Register(Rax)) = w
  BY <1>8 DEF Read, Register
<1>10. Step(m3, Mov(res, Register(Rax))) = m4
  BY <1>8, MovStep
<1>11. Changed(m3, m4, {res}) /\ m4.regs[res] = w
  BY <1>8, <1>9, WriteChanges
<1> HIDE DEF m4
<1>12. Ran(m, <<Mov(Rax, l), <<"imul", Rax, r>>, Mov(res, Register(Rax))>>) = m4
  <2> DEFINE a == Mov(Rax, l)
             b == <<"imul", Rax, r>>
             c == Mov(res, Register(Rax))
  <2>1. Step(m, a) = m1 /\ Step(m1, b) = m3 /\ Step(m3, c) = m4
    BY <1>1, <1>4, <1>10
  <2> HIDE DEF a, b, c
  <2>2. Ran(m, <<a, b, c>>) = m4
    BY <2>1, RanThree
  <2> QED
    BY <2>2 DEF a, b, c
<1>13. Changed(m, m4, {Rax, Rdx, res})
  BY <1>2, <1>6, <1>7, <1>11 DEF Changed
<1> QED
  BY <1>5, <1>11, <1>12, <1>13 DEF v

LEMMA QuotientRan ==
  ASSUME NEW m, IsMachine(m), m.mode = "run", NEW res \in Registers,
         NEW l, NEW r, Avoids(r, {Rax, Rdx})
  PROVE  LET n == Ran(m, <<Mov(Rax, l), <<"cqo", Rdx, l>>, <<"idiv", Rax, r>>,
                           Mov(res, Register(Rax))>>)
         IN Changed(m, n, {Rax, Rdx, res}) /\ n.regs[res] = IR!Applied("/", Read(m, l), Read(m, r))
<1> DEFINE v == Read(m, l)
           m1 == Write(m, Rax, v)
           m2 == Write(m1, Rdx, IR!Undefined)
           w == IR!Applied("/", m2.regs[Rax], Read(m2, r))
           m3 == Write(m2, Rax, w)
           m4 == Write(m3, Rdx, IR!Undefined)
           m5 == Write(m4, res, Read(m4, Register(Rax)))
<1>0. Rax \in Registers /\ Rdx \in Registers /\ Rax # Rdx
  BY DEF Rax, Rdx, Registers
<1>1. Step(m, Mov(Rax, l)) = m1
  BY MovStep
<1>2. Changed(m, m1, {Rax}) /\ m1.regs[Rax] = v
  BY <1>0, WriteChanges
<1> HIDE DEF m1, v
<1>3. IsMachine(m1) /\ m1.mode = "run"
  BY <1>2 DEF Changed
<1>4. Step(m1, <<"cqo", Rdx, l>>) = m2
  BY <1>3, CqoStep
<1>5. Changed(m1, m2, {Rdx})
  BY <1>0, <1>3, WriteChanges
<1> HIDE DEF m2
<1>6. Changed(m, m2, {Rax, Rdx}) /\ IsMachine(m2) /\ m2.mode = "run" /\ m2.regs[Rax] = v
  BY <1>0, <1>2, <1>3, <1>5 DEF Changed
<1>7. w = IR!Applied("/", v, Read(m, r))
  BY <1>6, ReadKept
<1>8. Step(m2, <<"idiv", Rax, r>>) = m4
  BY <1>6, IdivStep
<1>9. Changed(m2, m3, {Rax}) /\ m3.regs[Rax] = w
  BY <1>0, <1>6, WriteChanges
<1> HIDE DEF m3, w
<1>10. Changed(m3, m4, {Rdx})
  BY <1>0, <1>9, WriteChanges DEF Changed
<1> HIDE DEF m4
<1>11. IsMachine(m4) /\ m4.mode = "run" /\ m4.regs[Rax] = w
  BY <1>0, <1>6, <1>9, <1>10 DEF Changed
<1>12. Read(m4, Register(Rax)) = w
  BY <1>11 DEF Read, Register
<1>13. Step(m4, Mov(res, Register(Rax))) = m5
  BY <1>11, MovStep
<1>14. Changed(m4, m5, {res}) /\ m5.regs[res] = w
  BY <1>11, <1>12, WriteChanges
<1> HIDE DEF m5
<1>15. Ran(m, <<Mov(Rax, l), <<"cqo", Rdx, l>>, <<"idiv", Rax, r>>, Mov(res, Register(Rax))>>) = m5
  <2> DEFINE a == Mov(Rax, l)
             b == <<"cqo", Rdx, l>>
             c == <<"idiv", Rax, r>>
             d == Mov(res, Register(Rax))
  <2>1. Step(m, a) = m1 /\ Step(m1, b) = m2 /\ Step(m2, c) = m4 /\ Step(m4, d) = m5
    BY <1>1, <1>4, <1>8, <1>13
  <2> HIDE DEF a, b, c, d
  <2>2. Ran(m, <<a, b, c, d>>) = m5
    BY <2>1, RanFour
  <2> QED
    BY <2>2 DEF a, b, c, d
<1>16. Changed(m, m5, {Rax, Rdx, res})
  BY <1>6, <1>9, <1>10, <1>14 DEF Changed
<1> QED
  BY <1>7, <1>14, <1>15, <1>16 DEF v

LEMMA RelationRan ==
  ASSUME NEW m, IsMachine(m), m.mode = "run", NEW res \in Registers, NEW op,
         NEW l, NEW r, Avoids(l, {res}), Avoids(r, {res})
  PROVE  LET n == Ran(m, <<Mov(res, Number(0)), <<"cmp", l, r>>, <<"set", res, op>>>>)
         IN Changed(m, n, {res}) /\ n.regs[res] = IR!Applied(op, Read(m, l), Read(m, r))
<1> DEFINE m1 == Write(m, res, Read(m, Number(0)))
           m2 == [m1 EXCEPT !.flags = <<Read(m1, l), Read(m1, r)>>]
           w == IR!Applied(op, m2.flags[1], m2.flags[2])
           m3 == Write(m2, res, w)
<1>1. Step(m, Mov(res, Number(0))) = m1
  BY MovStep
<1>2. Changed(m, m1, {res})
  BY WriteChanges
<1> HIDE DEF m1
<1>3. IsMachine(m1) /\ m1.mode = "run"
  BY <1>2 DEF Changed
<1>4. Step(m1, <<"cmp", l, r>>) = m2
  BY <1>3, CmpStep
<1>5. Changed(m1, m2, {}) /\ m2.flags = <<Read(m1, l), Read(m1, r)>>
  BY <1>3, FlagsChange
<1>6. w = IR!Applied(op, Read(m, l), Read(m, r))
  BY <1>2, <1>5, ReadKept
<1> HIDE DEF m2
<1>7. IsMachine(m2) /\ m2.mode = "run"
  BY <1>3, <1>5 DEF Changed
<1>8. Step(m2, <<"set", res, op>>) = m3
  BY <1>7, SetStep
<1>9. Changed(m2, m3, {res}) /\ m3.regs[res] = w
  BY <1>7, WriteChanges
<1> HIDE DEF m3, w
<1>10. Ran(m, <<Mov(res, Number(0)), <<"cmp", l, r>>, <<"set", res, op>>>>) = m3
  <2> DEFINE a == Mov(res, Number(0))
             b == <<"cmp", l, r>>
             c == <<"set", res, op>>
  <2>1. Step(m, a) = m1 /\ Step(m1, b) = m2 /\ Step(m2, c) = m3
    BY <1>1, <1>4, <1>8
  <2> HIDE DEF a, b, c
  <2>2. Ran(m, <<a, b, c>>) = m3
    BY <2>1, RanThree
  <2> QED
    BY <2>2 DEF a, b, c
<1>11. Changed(m, m3, {res})
  BY <1>2, <1>5, <1>9 DEF Changed
<1> QED
  BY <1>6, <1>9, <1>10, <1>11

LEMMA NegationRan ==
  ASSUME NEW m, IsMachine(m), m.mode = "run", NEW res \in Registers, NEW x
  PROVE  LET n == Ran(m, <<Mov(res, x), <<"flip", res>>>>)
         IN Changed(m, n, {res}) /\ n.regs[res] = Flipped(Read(m, x))
<1> DEFINE v == Read(m, x)
           m1 == Write(m, res, v)
           m2 == Write(m1, res, Flipped(m1.regs[res]))
<1>1. Step(m, Mov(res, x)) = m1
  BY MovStep
<1>2. Changed(m, m1, {res}) /\ m1.regs[res] = v
  BY WriteChanges
<1> HIDE DEF m1, v
<1>3. IsMachine(m1) /\ m1.mode = "run"
  BY <1>2 DEF Changed
<1>4. Step(m1, <<"flip", res>>) = m2
  BY <1>3, FlipStep
<1>5. Changed(m1, m2, {res}) /\ m2.regs[res] = Flipped(v)
  BY <1>2, <1>3, WriteChanges
<1> HIDE DEF m2
<1>6. Ran(m, <<Mov(res, x), <<"flip", res>>>>) = m2
  <2> DEFINE a == Mov(res, x)
             b == <<"flip", res>>
  <2>1. Step(m, a) = m1 /\ Step(m1, b) = m2
    BY <1>1, <1>4
  <2> HIDE DEF a, b
  <2>2. Ran(m, <<a, b>>) = m2
    BY <2>1, RanTwo
  <2> QED
    BY <2>2 DEF a, b
<1>7. Changed(m, m2, {res})
  BY <1>2, <1>5 DEF Changed
<1> QED
  BY <1>5, <1>6, <1>7 DEF v

\* Where the parts of a text are in it.
Begins(x, y) == Len(x) <= Len(y) /\ \A i \in 1..Len(x) : y[i] = x[i]

\* The part of a text up to one of its parts begins the text.
LEMMA JoinedPrefix ==
  ASSUME NEW seqs, IsText(seqs), \A i \in 1..Len(seqs) : IsText(seqs[i]),
         NEW F, Joins(F, seqs), NEW c \in 0..Len(seqs), NEW b \in 0..c
  PROVE  /\ Len(F[b]) \in Nat /\ Len(F[c]) \in Nat /\ Len(F[b]) <= Len(F[c])
         /\ Begins(F[b], F[c])
         /\ c # 0 => Len(F[c]) = Len(F[c - 1]) + Len(seqs[c])
<1> DEFINE n == Len(seqs)
<1>0. n \in Nat /\ \A i \in 1..n : Len(seqs[i]) \in Nat
  BY TextShape
<1>1. \A a \in 0..n : IsText(F[a]) /\ Len(F[a]) \in Nat
  BY TextShape DEF Joins
<1>2. \A a \in 1..n : F[a] = F[a - 1] \o seqs[a]
  BY DEF Joins
<1> HIDE DEF n
<1>3. ASSUME NEW a \in 1..n
      PROVE  /\ Len(F[a]) = Len(F[a - 1]) + Len(seqs[a])
             /\ \A i \in 1..Len(F[a - 1]) : F[a][i] = F[a - 1][i]
             /\ \A i \in 1..Len(seqs[a]) : F[a][Len(F[a - 1]) + i] = seqs[a][i]
  <2>1. a - 1 \in 0..n
    BY <1>0
  <2> DEFINE x == F[a - 1]
             y == seqs[a]
  <2>2. IsText(x) /\ IsText(y) /\ F[a] = x \o y
    BY <1>1, <1>2, <2>1 DEF n
  <2> HIDE DEF x, y
  <2>3. /\ Len(x \o y) = Len(x) + Len(y)
        /\ \A i \in 1..Len(x) : (x \o y)[i] = x[i]
        /\ \A i \in 1..Len(y) : (x \o y)[Len(x) + i] = y[i]
    BY <2>2, TextThen
  <2>4. /\ Len(F[a]) = Len(x) + Len(y)
        /\ \A i \in 1..Len(x) : F[a][i] = x[i]
        /\ \A i \in 1..Len(y) : F[a][Len(x) + i] = y[i]
    BY <2>2, <2>3
  <2> QED
    BY <2>4 DEF x, y
<1> DEFINE Good == {d \in Nat : d <= n => \A e \in 0..d :
                      /\ Len(F[e]) <= Len(F[d])
                      /\ \A i \in 1..Len(F[e]) : F[d][i] = F[e][i]}
<1>4. 0 \in Good
  <2>1. \A e \in 0..0 : e = 0
    OBVIOUS
  <2>2. Len(F[0]) <= Len(F[0])
    <3>1. 0 \in 0..n
      BY <1>0
    <3> QED
      BY <1>1, <3>1
  <2> QED
    BY <2>1, <2>2
<1>5. ASSUME NEW d \in Nat, d \in Good PROVE d + 1 \in Good
  <2> SUFFICES ASSUME d + 1 <= n, NEW e \in 0..d + 1
               PROVE  /\ Len(F[e]) <= Len(F[d + 1])
                      /\ \A i \in 1..Len(F[e]) : F[d + 1][i] = F[e][i]
    OBVIOUS
  <2>1. d + 1 \in 1..n /\ (d + 1) - 1 = d /\ d \in 0..n /\ d + 1 \in 0..n
    BY <1>0
  <2>2. CASE e = d + 1
    <3>1. Len(F[e]) \in Nat
      BY <1>1, <2>1, <2>2
    <3> QED
      BY <2>2, <3>1
  <2>3. CASE e \in 0..d
    <3>1. e \in 0..n
      BY <1>0, <2>3
    <3>2. Len(F[e]) \in Nat /\ Len(F[d]) \in Nat /\ Len(F[d + 1]) \in Nat /\ Len(seqs[d + 1]) \in Nat
      BY <1>0, <1>1, <2>1, <3>1
    <3>3. Len(F[e]) <= Len(F[d]) /\ \A i \in 1..Len(F[e]) : F[d][i] = F[e][i]
      BY <1>0, <1>5, <2>3
    <3> DEFINE g == d + 1
    <3>4. /\ Len(F[g]) = Len(F[g - 1]) + Len(seqs[g])
          /\ \A i \in 1..Len(F[g - 1]) : F[g][i] = F[g - 1][i]
      <4>1. g \in 1..n
        BY <2>1
      <4> HIDE DEF g
      <4> QED
        BY <1>3, <4>1
    <3>5. g - 1 = d
      OBVIOUS
    <3> HIDE DEF g
    <3>6. Len(F[g]) = Len(F[d]) + Len(seqs[g]) /\ \A i \in 1..Len(F[d]) : F[g][i] = F[d][i]
      BY <3>4, <3>5
    <3>7. Len(F[g]) \in Nat /\ Len(seqs[g]) \in Nat
      BY <3>2 DEF g
    <3>8. Len(F[e]) <= Len(F[g])
      <4> DEFINE kb == Len(F[e])
                 kc == Len(F[d])
                 kd == Len(F[g])
                 k == Len(seqs[g])
      <4>1. kb \in Nat /\ kc \in Nat /\ k \in Nat /\ kd = kc + k /\ kb <= kc
        BY <3>2, <3>3, <3>6, <3>7
      <4> HIDE DEF kb, kc, kd, k
      <4>2. kb <= kd
        BY <4>1
      <4> QED
        BY <4>2 DEF kb, kd
    <3>9. ASSUME NEW i \in 1..Len(F[e]) PROVE F[g][i] = F[e][i]
      <4>1. i \in 1..Len(F[d])
        BY <3>2, <3>3
      <4> QED
        BY <3>3, <3>6, <4>1
    <3> QED
      BY <3>8, <3>9 DEF g
  <2> QED
    BY <2>2, <2>3
<1>6. \A d \in Nat : d \in Good
  <2>1. 1 \in Nat \ {0}
    OBVIOUS
  <2> HIDE DEF Good
  <2> QED
    BY <1>4, <1>5, <2>1, Paths!CountingUp
<1>7. c \in Good /\ c <= n /\ c \in 0..n /\ b \in 0..n
  BY <1>0, <1>6 DEF n
<1>8. Len(F[b]) <= Len(F[c]) /\ \A i \in 1..Len(F[b]) : F[c][i] = F[b][i]
  BY <1>7
<1>9. c # 0 => Len(F[c]) = Len(F[c - 1]) + Len(seqs[c])
  <2>1. c # 0 => c \in 1..n
    BY <1>0 DEF n
  <2> QED
    BY <1>3, <2>1
<1> QED
  BY <1>1, <1>7, <1>8, <1>9 DEF Begins

LEMMA JoinedText ==
  ASSUME NEW seqs, IsText(seqs), \A i \in 1..Len(seqs) : IsText(seqs[i]),
         NEW F, Joins(F, seqs), NEW b \in 1..Len(seqs), NEW i \in 1..Len(seqs[b])
  PROVE  /\ Len(F[b - 1]) + i \in 1..Len(F[Len(seqs)])
         /\ F[Len(seqs)][Len(F[b - 1]) + i] = seqs[b][i]
<1> DEFINE n == Len(seqs)
           x == F[b - 1]
           y == seqs[b]
           z == F[b]
           all == F[n]
           k == Len(x) + i
<1>1. n \in Nat /\ b \in 0..n /\ b - 1 \in 0..n /\ n \in 0..n
  BY TextShape
<1>2. IsText(x) /\ IsText(y) /\ IsText(z) /\ z = x \o y
  BY <1>1 DEF Joins
<1>3. Len(z) <= Len(all) /\ Len(all) \in Nat
  BY <1>1, JoinedPrefix
<1>4. Begins(z, all)
  BY <1>1, JoinedPrefix
<1> HIDE DEF x, y, z, all, n
<1>5. Len(x) \in Nat /\ Len(y) \in Nat /\ Len(z) \in Nat
  BY <1>2, TextShape
<1>6. Len(z) = Len(x) + Len(y)
  BY <1>2, TextThen
<1>7. i \in 1..Len(y)
  BY DEF y
<1>8. z[k] = y[i]
  BY <1>2, <1>7, TextThen
<1>9. k \in 1..Len(z) /\ k \in 1..Len(all)
  BY <1>3, <1>5, <1>6, <1>7
<1> QED
  BY <1>4, <1>8, <1>9 DEF x, y, all, n, Begins
=============================================================================
