--------------------------- MODULE FaithfulProofs ---------------------------
(***************************************************************************)
(* The assembly of a function with none of the gaps runs as its IR does,   *)
(* for functions and registers of any number, whatever the calls answer.   *)
(*                                                                         *)
(* The text is a sequence of the texts of its blocks, and each of those of *)
(* the texts of its instructions (Joins), so what the machine does is      *)
(* taken apart the same way: Ran of one text after another (RanThen).      *)
(* What connects the two executions inside a block is Linked: every value  *)
(* that is live is in its register, every phi node still to come finds     *)
(* what it takes.  That an instruction keeps it needs that the places are  *)
(* the allocator's (Placed) and that the emission knows the instruction    *)
(* (Catered); that a jump keeps it, that the moves to the phi nodes are    *)
(* all there and none destroys what another reads (Leads).  Between blocks *)
(* it is InStep, and FaithfulInv is what holds in every state.             *)
(***************************************************************************)
EXTENDS BackendProofs

-----------------------------------------------------------------------------
(* What comes out of the passes is a function again.                       *)

\* What is defined before an instruction in the text is defined for the verifier.
LEMMA EarlierIsDefined ==
  ASSUME NEW f, NEW q \in IR!Positions(f), NEW b \in Nat, NEW i \in Nat,
         DOMAIN f \subseteq Nat \ {0}, \A c \in DOMAIN f : DOMAIN f[c].code = 1..Len(f[c].code),
         b \in DOMAIN f, Len(f[b].code) \in Nat,
         \A c \in DOMAIN f : Len(f[c].code) \in Nat,
         Before(q, b, i)
  PROVE  IR!At(f, q).res \in Verifier!DefinedBefore(f, 0, b, i)
<1>1. /\ q[1] \in DOMAIN f /\ q[2] \in DOMAIN f[q[1]].code
      /\ IR!At(f, q) = f[q[1]].code[q[2]]
  BY PositionShape
<1>2. q[1] \in Nat \ {0} /\ q[2] \in 1..Len(f[q[1]].code) /\ Len(f[q[1]].code) \in Nat
  BY <1>1
<1>3. CASE q[1] < b
  <2>1. q[1] \in 1..b - 1
    BY <1>2, <1>3
  <2> QED
    BY <1>1, <1>2, <2>1 DEF Verifier!DefinedBefore
<1>4. CASE q[1] = b /\ q[2] < i
  <2>1. q[2] \in 1..i - 1
    BY <1>2, <1>4
  <2> QED
    BY <1>1, <1>4, <2>1 DEF Verifier!DefinedBefore
<1> QED
  BY <1>3, <1>4 DEF Before

\* Value numbering replaces operands of instructions other than calls, loads and
\* the slots of stores, and leaves the rest of them alone.
LEMMA NumberedInstruction ==
  ASSUME NEW f, IsFunction(f), NEW b \in DOMAIN f, NEW i \in DOMAIN f[b].code
  PROVE  LET old == f[b].code[i]
             new == IR!GVN(f)[b].code[i]
         IN /\ new \in IRInstruction(f)
            /\ new.op = old.op /\ new.res = old.res /\ new.to = old.to /\ new.from = old.from
            /\ Len(new.args) = Len(old.args) /\ DOMAIN new.args = DOMAIN old.args
            /\ \A k \in DOMAIN old.args :
                 new.args[k] = old.args[k]
                   \/ (old.args[k] \in DOMAIN IR!Replacements(f)
                         /\ new.args[k] = IR!Replacements(f)[old.args[k]])
<1> DEFINE old == f[b].code[i]
           new == IR!ReplaceUses(old, IR!Replacements(f))
<1>1. IR!GVN(f)[b].code[i] = new
  BY GVNIs
<1>2. old \in IRInstruction(f)
  BY InstructionShape
<1>3. new \in IRInstruction(f)
  BY <1>2, ReplacedInstruction
<1>4. old.args \in Seq(Operands) /\ new.args \in Seq(Operands)
  BY <1>2, <1>3 DEF IRInstruction
<1> HIDE DEF old, new
<1>5. CASE old.op \in {"call", "load"}
  <2>1. new = old
    BY <1>5 DEF IR!ReplaceUses, new
  <2> QED
    BY <1>1, <1>3, <2>1 DEF old
<1>6. CASE old.op \notin {"call", "load"}
  <2>1. /\ new.op = old.op /\ new.res = old.res /\ new.to = old.to /\ new.from = old.from
        /\ DOMAIN new.args = DOMAIN old.args
        /\ \A k \in DOMAIN old.args :
             new.args[k] = IF old.args[k] \in DOMAIN IR!Replacements(f)
                             THEN IR!Replacements(f)[old.args[k]] ELSE old.args[k]
    BY <1>2, <1>6, ReplacedShape DEF new
  <2>2. Len(new.args) = Len(old.args)
    BY <1>4, <2>1
  <2> QED
    BY <1>1, <1>3, <2>1, <2>2 DEF old
<1> QED
  BY <1>5, <1>6

\* Value numbering leaves every instruction at its position; only operands are replaced.
LEMMA NumberedPositions ==
  ASSUME NEW f, IsFunction(f)
  PROVE  /\ DOMAIN IR!GVN(f) = DOMAIN f
         /\ \A b \in DOMAIN f : DOMAIN IR!GVN(f)[b].code = DOMAIN f[b].code
         /\ IR!Positions(IR!GVN(f)) = IR!Positions(f)
         /\ \A p \in IR!Positions(f) :
              /\ IR!At(IR!GVN(f), p) = IR!GVN(f)[p[1]].code[p[2]]
              /\ IR!At(IR!GVN(f), p).op = IR!At(f, p).op
              /\ IR!At(IR!GVN(f), p).res = IR!At(f, p).res
              /\ IR!At(IR!GVN(f), p).to = IR!At(f, p).to
<1> DEFINE g == IR!GVN(f)
<1>1. /\ g \in Blocks(IRInstruction(f)) /\ Len(g) = Len(f)
      /\ \A b \in DOMAIN f : Len(g[b].code) = Len(f[b].code)
  BY GVNIs
<1> HIDE DEF g
<1>2. DOMAIN g = DOMAIN f
  BY <1>1, BlocksShape, FunctionShape
<1>3. ASSUME NEW b \in DOMAIN f PROVE DOMAIN g[b].code = DOMAIN f[b].code
  <2> DEFINE I == IRInstruction(f)
  <2>1. g[b].code \in Seq(I)
    BY <1>1, <1>2, BlocksShape
  <2>2. DOMAIN g[b].code = 1..Len(g[b].code)
    <3> HIDE DEF I
    <3> QED
      BY <2>1
  <2> QED
    BY <1>1, <2>2, FunctionShape
<1>4. IR!Positions(g) = IR!Positions(f)
  BY <1>2, <1>3 DEF IR!Positions
<1>5. ASSUME NEW p \in IR!Positions(f)
      PROVE  /\ IR!At(g, p) = g[p[1]].code[p[2]]
             /\ IR!At(g, p).op = IR!At(f, p).op /\ IR!At(g, p).res = IR!At(f, p).res
             /\ IR!At(g, p).to = IR!At(f, p).to
  <2>1. p[1] \in DOMAIN f /\ p[2] \in DOMAIN f[p[1]].code /\ IR!At(f, p) = f[p[1]].code[p[2]]
    BY PositionShape
  <2>2. IR!At(g, p) = g[p[1]].code[p[2]]
    BY DEF IR!At
  <2> QED
    BY <2>1, <2>2, NumberedInstruction DEF g
<1> QED
  BY <1>2, <1>3, <1>4, <1>5 DEF g

\* The passes make a function that the verifier lets pass of one that it does.
LEMMA NumberedFunction ==
  ASSUME NEW f, IsFunction(f)
  PROVE  IsFunction(IR!GVN(f))
<1> DEFINE g == IR!GVN(f)
<1>1. /\ DOMAIN g = DOMAIN f
      /\ \A b \in DOMAIN f : DOMAIN g[b].code = DOMAIN f[b].code
      /\ IR!Positions(g) = IR!Positions(f)
      /\ \A p \in IR!Positions(f) :
           /\ IR!At(g, p) = g[p[1]].code[p[2]]
           /\ IR!At(g, p).op = IR!At(f, p).op
           /\ IR!At(g, p).res = IR!At(f, p).res
           /\ IR!At(g, p).to = IR!At(f, p).to
  BY NumberedPositions
<1>2. /\ g \in Blocks(IRInstruction(f)) /\ Len(g) = Len(f)
      /\ \A b \in DOMAIN f : Len(g[b].code) = Len(f[b].code) /\ g[b].preds = f[b].preds
  BY GVNIs
<1>3. ASSUME NEW b \in DOMAIN f, NEW i \in DOMAIN f[b].code
      PROVE  LET old == f[b].code[i]
                 new == g[b].code[i]
             IN /\ new \in IRInstruction(f)
                /\ new.op = old.op /\ new.res = old.res /\ new.to = old.to /\ new.from = old.from
                /\ Len(new.args) = Len(old.args) /\ DOMAIN new.args = DOMAIN old.args
                /\ \A k \in DOMAIN old.args :
                     new.args[k] = old.args[k]
                       \/ (old.args[k] \in DOMAIN IR!Replacements(f)
                             /\ new.args[k] = IR!Replacements(f)[old.args[k]])
  BY <1>3, NumberedInstruction
<1>4. /\ Len(f) \in Nat /\ DOMAIN f = 1..Len(f) /\ 1 \in DOMAIN f
      /\ \A b \in DOMAIN f : Len(f[b].code) \in Nat /\ DOMAIN f[b].code = 1..Len(f[b].code)
  BY FunctionShape
<1> HIDE DEF g
<1>5. g # <<>> /\ g \in Seq([code : Seq(IRInstruction(g)), succs : Seq(Nat), preds : Seq(Nat)])
  <2>1. IRInstruction(g) = IRInstruction(f)
    BY <1>1 DEF IRInstruction
  <2>2. g # <<>>
    BY <1>1, <1>4
  <2> QED
    BY <1>2, <2>1, <2>2 DEF Blocks
<1>6. \A p \in IR!Positions(g) : WellFormed(IR!At(g, p))
  <2> SUFFICES ASSUME NEW p \in IR!Positions(f) PROVE WellFormed(IR!At(g, p))
    BY <1>1
  <2>1. p[1] \in DOMAIN f /\ p[2] \in DOMAIN f[p[1]].code /\ IR!At(f, p) = f[p[1]].code[p[2]]
    BY PositionShape
  <2>2. WellFormed(IR!At(f, p))
    BY <2>1, InstructionShape
  <2> DEFINE old == IR!At(f, p)
             new == IR!At(g, p)
  <2>3. /\ new.op = old.op /\ new.res = old.res /\ new.to = old.to /\ new.from = old.from
        /\ Len(new.args) = Len(old.args)
    BY <1>1, <1>3, <2>1
  <2> HIDE DEF old, new
  <2>4. WellFormed(new)
    BY <2>2, <2>3 DEF WellFormed, old
  <2> QED
    BY <2>4 DEF new
<1>7. SingleDefinitions(g)
  <2>1. SingleDefinitions(f)
    BY DEF IsFunction
  <2> QED
    BY <1>1, <2>1 DEF SingleDefinitions
<1>8. StoresToSlots(g)
  <2> SUFFICES ASSUME NEW p \in IR!Positions(f), IR!At(f, p).op = "store"
               PROVE  \E q \in IR!Positions(f) : IR!At(f, q).op = "alloca" /\ IR!At(f, q).res = IR!At(g, p).args[2]
    BY <1>1 DEF StoresToSlots
  <2>1. p[1] \in DOMAIN f /\ p[2] \in DOMAIN f[p[1]].code /\ IR!At(f, p) = f[p[1]].code[p[2]]
    BY PositionShape
  <2>2. IR!At(f, p).args[2] \notin DOMAIN IR!Replacements(f)
    BY <2>1, SlotKept
  <2>3. 2 \in DOMAIN IR!At(f, p).args
    <3>1. IR!At(f, p) \in IRInstruction(f) /\ WellFormed(IR!At(f, p))
      BY <2>1, InstructionShape
    <3>2. IR!At(f, p).args \in Seq(Operands) /\ Len(IR!At(f, p).args) = 2
      BY <3>1 DEF IRInstruction, WellFormed
    <3> QED
      BY <3>2
  <2>4. IR!At(g, p).args[2] = IR!At(f, p).args[2]
    BY <1>1, <1>3, <2>1, <2>2, <2>3
  <2>5. StoresToSlots(f)
    BY DEF IsFunction
  <2> QED
    BY <2>4, <2>5 DEF StoresToSlots
<1>9. \A b \in DOMAIN g : Verifier!CheckBlockTerminator(g, b)
  <2> SUFFICES ASSUME NEW b \in DOMAIN f PROVE Verifier!CheckBlockTerminator(g, b)
    BY <1>1
  <2>1. Verifier!CheckBlockTerminator(f, b)
    BY DEF IsFunction, Verified
  <2>2. \A i \in 1..Len(f[b].code) : g[b].code[i].op = f[b].code[i].op
    BY <1>3, <1>4
  <2>3. g[b].code \in Seq(IRInstruction(f)) /\ f[b].code \in Seq(IRInstruction(f))
    BY <1>1, <1>2, BlocksShape, FunctionShape
  <2>4. f[b].code # <<>> /\ Len(g[b].code) = Len(f[b].code) /\ g[b].preds = f[b].preds
    BY <1>2, <2>1 DEF Verifier!CheckBlockTerminator
  <2> DEFINE c == f[b].code
             d == g[b].code
             I == IRInstruction(f)
  <2>5. Len(c) \in 1..Len(c) /\ d # <<>>
    <3>1. c \in Seq(I) /\ c # <<>> /\ d \in Seq(I) /\ Len(d) = Len(c)
      BY <2>3, <2>4
    <3> HIDE DEF c, d, I
    <3> QED
      BY <3>1
  <2>6. d[Len(d)].op = c[Len(c)].op
    BY <2>2, <2>4, <2>5
  <2>7. \A k \in 1..Len(c) - 1 : d[k].op = c[k].op
    BY <2>2, <1>4
  <2> QED
    BY <2>1, <2>4, <2>5, <2>6, <2>7
       DEF Verifier!CheckBlockTerminator, Verifier!IsTerminator, Verifier!Last
<1>10. \A b \in Enterable(g) : IR!Terminated(g[b])
  <2>1. Enterable(g) = Enterable(f)
    BY <1>1 DEF Enterable
  <2> SUFFICES ASSUME NEW b \in Enterable(f) PROVE IR!Terminated(g[b])
    BY <2>1
  <2>2. /\ b \in DOMAIN f /\ Len(f[b].code) \in DOMAIN f[b].code
        /\ IR!IsTerminator(f[b].code[Len(f[b].code)])
    BY TerminatorLast
  <2>3. g[b].code[Len(f[b].code)].op = f[b].code[Len(f[b].code)].op
    BY <1>3, <2>2
  <2>4. Len(g[b].code) = Len(f[b].code) /\ g[b].code # <<>>
    BY <1>1, <1>2, <2>2
  <2> QED
    BY <2>2, <2>3, <2>4 DEF IR!Terminated, IR!IsTerminator, IR!Last
<1>11. Verifier!CheckDefBeforeUse(g, 0)
  <2> SUFFICES ASSUME NEW b \in DOMAIN f, NEW i \in DOMAIN f[b].code, g[b].code[i].op # "phi",
                      NEW k \in DOMAIN f[b].code[i].args
               PROVE  \/ Verifier!IsConstant(g[b].code[i].args[k])
                      \/ g[b].code[i].args[k] \in Verifier!DefinedBefore(g, 0, b, i)
    <3>1. /\ 1..Len(g) = DOMAIN f
          /\ \A b \in DOMAIN f : 1..Len(g[b].code) = DOMAIN f[b].code
      BY <1>2, <1>4
    <3> SUFFICES ASSUME NEW b \in DOMAIN f, NEW i \in DOMAIN f[b].code, g[b].code[i].op # "phi",
                        NEW v \in Verifier!ToSet(g[b].code[i].args)
                 PROVE  Verifier!IsConstant(v) \/ v \in Verifier!DefinedBefore(g, 0, b, i)
      BY <3>1 DEF Verifier!CheckDefBeforeUse
    <3>2. DOMAIN g[b].code[i].args = DOMAIN f[b].code[i].args
      BY <1>3
    <3>3. PICK k \in DOMAIN f[b].code[i].args : v = g[b].code[i].args[k]
      BY <3>2 DEF Verifier!ToSet
    <3> QED
      BY <3>3
  <2> DEFINE v == f[b].code[i].args[k]
             w == g[b].code[i].args[k]
  <2>1. /\ g[b].code[i].op = f[b].code[i].op
        /\ w = v \/ (v \in DOMAIN IR!Replacements(f) /\ w = IR!Replacements(f)[v])
    BY <1>3
  <2>2. v \in Operands
    <3>1. f[b].code[i].args \in Seq(Operands)
      BY InstructionShape DEF IRInstruction
    <3> QED
      BY <3>1
  <2>3. b \in Nat /\ i \in Nat
    BY <1>4
  <2>4. ASSUME NEW q \in IR!Positions(f), Before(q, b, i)
        PROVE  IR!At(f, q).res \in Verifier!DefinedBefore(g, 0, b, i)
    <3>1. /\ DOMAIN g \subseteq Nat \ {0} /\ b \in DOMAIN g
          /\ \A c \in DOMAIN g : DOMAIN g[c].code = 1..Len(g[c].code) /\ Len(g[c].code) \in Nat
      BY <1>1, <1>2, <1>4
    <3> QED
      BY <1>1, <2>3, <2>4, <3>1, EarlierIsDefined
  <2>5. CASE v \notin Temporaries
    <3>1. v[1] = "const" /\ v \notin DOMAIN IR!Replacements(f)
      BY <2>2, <2>5, OperandShape, ReplacementTemporary
    <3>2. w = v
      BY <2>1, <3>1
    <3> QED
      BY <3>1, <3>2 DEF Verifier!IsConstant
  <2>6. CASE v \in Temporaries
    <3>1. PICK p \in IR!Positions(f) : IR!At(f, p).res = v /\ Before(p, b, i)
      BY <2>1, <2>6, DefinedEarlier
    <3>2. CASE w = v
      BY <2>4, <3>1, <3>2
    <3>3. CASE v \in DOMAIN IR!Replacements(f) /\ w = IR!Replacements(f)[v]
      <4> DEFINE R == IR!Replacements(f)
      <4>1. PICK q, r \in IR!Positions(f) :
              Repeats(f, q, r) /\ IR!At(f, r).res = v /\ IR!At(f, q).res = w
        BY <3>3, ReplacementRepeats
      <4> HIDE DEF v, w
      <4>2. r = p
        BY <2>6, <3>1, <4>1, OneDefinition
      <4>3. q[1] = p[1] /\ q[2] < p[2]
        BY <4>1, <4>2 DEF Repeats
      <4>4. p[2] \in Nat /\ q[2] \in Nat
        BY PositionNumbers
      <4>5. Before(q, b, i)
        BY <2>3, <3>1, <4>3, <4>4 DEF Before
      <4> QED
        BY <2>4, <4>1, <4>5 DEF w
    <3> QED
      BY <2>1, <3>2, <3>3
  <2> QED
    BY <2>5, <2>6
<1> QED
  BY <1>5, <1>6, <1>7, <1>8, <1>9, <1>10, <1>11 DEF IsFunction, Verified, g

-----------------------------------------------------------------------------
(* The places of the values of the function that is compiled.              *)

\* The values an instruction of the function mentions.
MentionedAt(p) == Result(IR!At(blocks, p)) \cup Temps(IR!At(blocks, p).args)

\* at[p] is the index of the instruction at p in the text.
IsNumbering(at) ==
  /\ \A p \in IR!Positions(blocks) :
       /\ at[p] \in 1..Len(code)
       /\ code[at[p]].defs = Result(IR!At(blocks, p))
       /\ code[at[p]].uses = Temps(IR!At(blocks, p).args)
  /\ \A p, q \in IR!Positions(blocks) : Before(p, q[1], q[2]) => at[p] < at[q]

\* The positions of the text the allocator reads are numbered so.
LEMMA TextNumbered ==
  ASSUME IsFunction(blocks), code = Compiled(blocks)
  PROVE  \E at : IsNumbering(at)
<1> DEFINE seqs == [b \in DOMAIN blocks |-> blocks[b].code]
           n == Len(blocks)
<1>0. n \in Nat /\ DOMAIN blocks = 1..n
  BY FunctionShape
<1>1. IsText(seqs) /\ Len(seqs) = n /\ \A b \in 1..n : seqs[b] = blocks[b].code
  <2> DEFINE S == Seq(IRInstruction(blocks))
  <2>1. \A b \in 1..n : blocks[b].code \in S
    BY <1>0, FunctionShape
  <2> HIDE DEF S, n
  <2>2. seqs \in Seq(S) /\ Len(seqs) = n
    BY <1>0, <2>1
  <2> QED
    BY <1>0, <2>2 DEF IsText
<1>2. \A b \in 1..n : IsText(seqs[b])
  <2> SUFFICES ASSUME NEW b \in 1..n PROVE IsText(blocks[b].code)
    BY <1>1
  <2>1. blocks[b].code \in Seq(IRInstruction(blocks))
    BY <1>0, FunctionShape
  <2> QED
    BY <2>1 DEF IsText
<1>3. IR!Text(blocks) = FlattenSeq(seqs)
  BY DEF IR!Text, IR!FlattenSeq, FlattenSeq
<1> HIDE DEF seqs, n
<1>4. PICK F : Joins(F, seqs) /\ FlattenSeq(seqs) = F[n]
  BY <1>1, <1>2, FlattenJoins
<1>5. IsText(seqs) /\ (\A i \in 1..Len(seqs) : IsText(seqs[i])) /\ Joins(F, seqs)
  BY <1>1, <1>2, <1>4
<1>6. \A b \in 0..n : Len(F[b]) \in Nat
  BY <1>1, <1>5, TextShape DEF Joins
<1>7. \A b \in 1..n : Len(F[b]) = Len(F[b - 1]) + Len(seqs[b])
  <2> SUFFICES ASSUME NEW b \in 1..n PROVE Len(F[b]) = Len(F[b - 1]) + Len(seqs[b])
    OBVIOUS
  <2>1. b \in 0..Len(seqs) /\ b \in 0..b /\ b # 0
    BY <1>0, <1>1
  <2> QED
    BY <1>5, <2>1, JoinedPrefix
<1>8. \A b, c \in 0..n : b <= c => Len(F[b]) <= Len(F[c])
  <2> SUFFICES ASSUME NEW b \in 0..n, NEW c \in 0..n, b <= c PROVE Len(F[b]) <= Len(F[c])
    OBVIOUS
  <2>1. c \in 0..Len(seqs) /\ b \in 0..c
    BY <1>0, <1>1
  <2> QED
    BY <1>5, <2>1, JoinedPrefix
<1>9. ASSUME NEW b \in 1..n, NEW i \in 1..Len(seqs[b])
      PROVE  Len(F[b - 1]) + i \in 1..Len(F[n]) /\ F[n][Len(F[b - 1]) + i] = seqs[b][i]
  <2>1. b \in 1..Len(seqs) /\ n = Len(seqs)
    BY <1>1
  <2>2. /\ Len(F[b - 1]) + i \in 1..Len(F[Len(seqs)])
        /\ F[Len(seqs)][Len(F[b - 1]) + i] = seqs[b][i]
    BY <1>5, <2>1, JoinedText
  <2> QED
    BY <2>1, <2>2
<1> DEFINE text == F[n]
           at == [p \in IR!Positions(blocks) |-> Len(F[p[1] - 1]) + p[2]]
<1>10. IsText(text)
  BY <1>0, <1>1, <1>4 DEF Joins
<1>11. DOMAIN text = 1..Len(text) /\ Len(text) \in Nat
  BY <1>10, TextShape
<1>12. code = [k \in 1..Len(text) |-> [defs |-> Result(text[k]), uses |-> Temps(text[k].args), succ |-> {}]]
  BY <1>3, <1>4, <1>11 DEF Compiled
<1> HIDE DEF text
<1>13. Len(code) = Len(text)
  BY <1>11, <1>12
<1>14. ASSUME NEW p \in IR!Positions(blocks)
      PROVE  /\ p[1] \in 1..n /\ p[2] \in 1..Len(seqs[p[1]]) /\ p[2] \in Nat
             /\ IR!At(blocks, p) = seqs[p[1]][p[2]]
  <2>1. p[1] \in DOMAIN blocks /\ p[2] \in DOMAIN blocks[p[1]].code
        /\ IR!At(blocks, p) = blocks[p[1]].code[p[2]]
    BY PositionShape
  <2>2. DOMAIN blocks[p[1]].code = 1..Len(blocks[p[1]].code)
    BY <2>1, FunctionShape
  <2>3. p[2] \in Nat
    BY PositionNumbers
  <2> QED
    BY <1>0, <1>1, <2>1, <2>2, <2>3
<1>15. ASSUME NEW p \in IR!Positions(blocks)
       PROVE  /\ at[p] \in 1..Len(code) /\ text[at[p]] = IR!At(blocks, p)
              /\ at[p] = Len(F[p[1] - 1]) + p[2]
  <2>1. /\ Len(F[p[1] - 1]) + p[2] \in 1..Len(text)
        /\ text[Len(F[p[1] - 1]) + p[2]] = seqs[p[1]][p[2]]
    BY <1>14, <1>9 DEF text
  <2>2. at[p] = Len(F[p[1] - 1]) + p[2]
    OBVIOUS
  <2> QED
    BY <1>13, <1>14, <2>1, <2>2
<1> HIDE DEF at
<1>16. ASSUME NEW p \in IR!Positions(blocks)
       PROVE  /\ code[at[p]].defs = Result(IR!At(blocks, p))
              /\ code[at[p]].uses = Temps(IR!At(blocks, p).args)
  <2>1. at[p] \in 1..Len(text) /\ text[at[p]] = IR!At(blocks, p)
    BY <1>13, <1>15
  <2> QED
    BY <1>12, <2>1
<1>17. ASSUME NEW p \in IR!Positions(blocks), NEW q \in IR!Positions(blocks), Before(p, q[1], q[2])
       PROVE  at[p] < at[q]
  <2> DEFINE x == Len(F[p[1] - 1])
             y == Len(F[p[1]])
             z == Len(F[q[1] - 1])
             k == Len(seqs[p[1]])
  <2>1. at[p] = x + p[2] /\ at[q] = z + q[2]
    BY <1>15
  <2>2. /\ p[1] \in 1..n /\ q[1] \in 1..n /\ p[2] \in 1..k
        /\ p[2] \in Nat \ {0} /\ q[2] \in Nat \ {0}
    BY <1>14, PositionNumbers
  <2>3. CASE p[1] < q[1]
    <3>1. p[1] \in 0..n /\ q[1] - 1 \in 0..n /\ p[1] <= q[1] - 1 /\ p[1] - 1 \in 0..n
      BY <1>0, <2>2, <2>3
    <3>2. x \in Nat /\ y \in Nat /\ z \in Nat
      BY <1>6, <3>1
    <3>3. y <= z /\ y = x + k
      BY <1>7, <1>8, <2>2, <3>1
    <3>4. k \in Nat
      BY <1>1, <1>2, <2>2, TextShape
    <3> HIDE DEF x, y, z, k
    <3> QED
      BY <2>1, <2>2, <3>2, <3>3, <3>4
  <2>4. CASE p[1] = q[1] /\ p[2] < q[2]
    <3>1. x = z
      BY <2>4
    <3>2. x \in Nat
      <4>1. p[1] - 1 \in 0..n
        BY <1>0, <2>2
      <4> QED
        BY <1>6, <4>1
    <3> HIDE DEF x, z
    <3> QED
      BY <2>1, <2>2, <2>4, <3>1, <3>2
  <2> QED
    BY <2>3, <2>4, <1>17 DEF Before
<1> QED
  BY <1>15, <1>16, <1>17 DEF IsNumbering

\* The allocator is done with the function, and nothing is on the stack.
Placed ==
  /\ IInv /\ Recorded /\ phase = "done"
  /\ IsFunction(blocks) /\ code = Compiled(blocks)
  /\ \A v \in Value : valueToStackSlot[v] = NoSlot

\* What is mentioned at a position is in its interval.
LEMMA MentionedRanges ==
  ASSUME Placed, NEW at, IsNumbering(at), NEW p \in IR!Positions(blocks), NEW v \in Value,
         v \in MentionedAt(p)
  PROVE  at[p] - 1 \in liveRanges[v] /\ HasInterval(v)
<1>1. liveRanges[v] = {i \in 0..(Len(code) - 1) : v \in Mentions(code[i + 1])}
  BY DEF Placed, Recorded
<1>2. at[p] \in 1..Len(code) /\ v \in Mentions(code[at[p]])
  BY DEF IsNumbering, MentionedAt, Mentions
<1>3. Len(code) \in Nat
  BY DEF Placed, IInv, TypeOK
<1>4. at[p] - 1 \in 0..(Len(code) - 1) /\ (at[p] - 1) + 1 = at[p]
  BY <1>2, <1>3
<1> QED
  BY <1>1, <1>2, <1>4 DEF HasInterval

\* What is mentioned is in a register.
LEMMA InRegister ==
  ASSUME Placed, NEW p \in IR!Positions(blocks), NEW v \in Value, v \in MentionedAt(p)
  PROVE  valueToReg[v] \in Registers /\ valueToReg[v] # NoReg
<1>1. \E at : IsNumbering(at)
  BY TextNumbered DEF Placed
<1>2. HasInterval(v)
  BY <1>1, MentionedRanges
<1>3. v \in Scanned /\ v \notin Spilled
  BY <1>2 DEF Placed, IInv, ScanOK, Scanned, Spilled
<1>4. valueToReg[v] # NoReg
  BY <1>3 DEF Placed, IInv, OneLocation
<1>5. valueToReg[v] \in Reg
  BY <1>4 DEF Placed, IInv, TypeOK
<1> QED
  BY <1>4, <1>5, RegistersAssumption

\* Not in that of a value that is mentioned in between.
LEMMA RegistersApart ==
  ASSUME Placed, NEW at, IsNumbering(at),
         NEW p \in IR!Positions(blocks), NEW q \in IR!Positions(blocks), NEW r \in IR!Positions(blocks),
         at[p] <= at[q], at[q] <= at[r],
         NEW v \in Value, v \in MentionedAt(p), v \in MentionedAt(r),
         NEW w \in Value, w \in MentionedAt(q), w # v
  PROVE  valueToReg[v] # valueToReg[w]
<1>1. at[p] - 1 \in liveRanges[v] /\ at[r] - 1 \in liveRanges[v] /\ at[q] - 1 \in liveRanges[w]
      /\ HasInterval(v) /\ HasInterval(w)
  BY MentionedRanges
<1>2. at[p] \in Int /\ at[q] \in Int /\ at[r] \in Int
  BY DEF IsNumbering
<1>3. /\ Start(v) \in Nat /\ End(v) \in Nat /\ Start(w) \in Nat /\ End(w) \in Nat
      /\ Start(v) <= at[p] - 1 /\ at[r] - 1 <= End(v)
      /\ Start(w) <= at[q] - 1 /\ at[q] - 1 <= End(w)
  BY <1>1, IntervalEnds DEF Placed, IInv
<1>4. ~(End(v) < Start(w)) /\ ~(End(w) < Start(v))
  <2> DEFINE sv == Start(v)
             ev == End(v)
             sw == Start(w)
             ew == End(w)
             x == at[p]
             y == at[q]
             z == at[r]
  <2>1. /\ sv \in Nat /\ ev \in Nat /\ sw \in Nat /\ ew \in Nat
        /\ sv <= x - 1 /\ z - 1 <= ev /\ sw <= y - 1 /\ y - 1 <= ew
        /\ x \in Int /\ y \in Int /\ z \in Int /\ x <= y /\ y <= z
    BY <1>2, <1>3
  <2> HIDE DEF sv, ev, sw, ew, x, y, z
  <2>2. ~(ev < sw) /\ ~(ew < sv)
    BY <2>1
  <2> QED
    BY <2>2 DEF sv, ev, sw, ew
<1>5. Overlaps(v, w)
  BY <1>4 DEF Overlaps
<1>6. valueToReg[v] # NoReg
  BY InRegister
<1> QED
  BY <1>5, <1>6 DEF Placed, IInv, NoRegisterConflict

-----------------------------------------------------------------------------
(* Liveness.                                                               *)

\* Control stays inside the function.
LEMMA SuccessorBlocks ==
  ASSUME IsFunction(blocks), NEW b \in Block
  PROVE  Successors(b) \subseteq Block
<1>1. CASE IR!Terminated(blocks[b])
  <2> DEFINE n == Len(blocks[b].code)
  <2>1. /\ n \in Nat /\ DOMAIN blocks[b].code = 1..n /\ blocks[b].code \in Seq(IRInstruction(blocks))
        /\ blocks[b].code # <<>>
    BY <1>1, FunctionShape DEF Block, IR!Terminated
  <2>2. n # 0
    BY <2>1
  <2>3. blocks[b].code[n] \in IRInstruction(blocks)
    BY <2>1, <2>2
  <2>4. IR!Targets(blocks[b]) = blocks[b].code[n].to
    BY <1>1 DEF IR!Targets, IR!Last
  <2>5. blocks[b].code[n].to \in Seq(DOMAIN blocks)
    BY <2>3 DEF IRInstruction
  <2> QED
    BY <2>4, <2>5 DEF Successors, IR!ToSet, Block
<1>2. CASE ~IR!Terminated(blocks[b])
  <2>1. IR!Targets(blocks[b]) = <<>>
    BY <1>2 DEF IR!Targets
  <2> QED
    BY <2>1 DEF Successors, IR!ToSet
<1> QED
  BY <1>1, <1>2

\* Where v is used or read by a phi node before it is defined, and where it is kept.
Ends(v) == {b \in Block : v \in UsedAfter(b, 0) \cup (ReadByPhis(b) \cap KeptAfter(b, 0))}
KeptBefore(v) == [to \in Block |-> {b \in Block : to \in Successors(b) /\ v \in KeptAfter(b, 0)}]
StartsOf(v) == {b \in Block : v \in LivingAtStarts[b]}

\* LivingAtStarts is the least solution: a set that is closed the same way contains it.
LEMMA StartsAreLeast ==
  ASSUME IsFunction(blocks), NEW v \in Value
  PROVE  IsLeast(StartsOf(v), Ends(v), KeptBefore(v), Block)
<1> DEFINE n == Len(blocks)
           reached == ReachedFrom(Ends(v), KeptBefore(v), n)
<1>1. n \in Nat /\ Block = 1..n
  BY FunctionShape DEF Block
<1>2. Ends(v) \in SUBSET (1..n) /\ KeptBefore(v) \in [1..n -> SUBSET (1..n)]
  BY <1>1 DEF Ends, KeptBefore
<1>3. IsLeast(reached, Ends(v), KeptBefore(v), 1..n)
  <2> HIDE DEF n
  <2> QED
    BY <1>1, <1>2, PositionsReached
<1>4. reached \subseteq Block
  BY <1>1, <1>3 DEF IsLeast
<1>5. \A b \in Block : v \in LivingAtStarts[b] <=> b \in reached
  BY DEF LivingAtStarts, Ends, KeptBefore
<1>6. StartsOf(v) = reached
  BY <1>4, <1>5 DEF StartsOf
<1> QED
  BY <1>1, <1>3, <1>6

LEMMA LivingValues ==
  /\ \A b \in Block : LivingAtStarts[b] \subseteq Value
  /\ \A b : UsedAfter(b, 0) \subseteq Value /\ ReadByPhis(b) \subseteq Value
  BY DEF LivingAtStarts, UsedAfter, ReadByPhis

\* What is live at the start of a block is live at its start.
LEMMA LivingStart ==
  ASSUME IsFunction(blocks), NEW b \in Block
  PROVE  Living(LivingAtStarts, b, 0) \subseteq LivingAtStarts[b]
<1> SUFFICES ASSUME NEW v \in Living(LivingAtStarts, b, 0) PROVE v \in LivingAtStarts[b]
  OBVIOUS
<1>1. v \in Value
  BY DEF Living, UsedAfter, KeptAfter
<1>2. IsLeast(StartsOf(v), Ends(v), KeptBefore(v), Block)
  BY <1>1, StartsAreLeast
<1>3. CASE v \in UsedAfter(b, 0) \cup (ReadByPhis(b) \cap KeptAfter(b, 0))
  <2>1. b \in Ends(v)
    BY <1>3 DEF Ends
  <2> QED
    BY <1>2, <2>1 DEF IsLeast, StartsOf
<1>4. CASE v \in KeptAfter(b, 0) /\ v \in UNION {LivingAtStarts[to] : to \in Successors(b)}
  <2>1. PICK to \in Successors(b) : v \in LivingAtStarts[to]
    BY <1>4
  <2>2. to \in Block
    BY SuccessorBlocks
  <2>3. to \in StartsOf(v) /\ b \in KeptBefore(v)[to]
    BY <1>4, <2>1, <2>2 DEF StartsOf, KeptBefore
  <2>4. b \in StartsOf(v)
    BY <1>2, <2>3 DEF IsLeast
  <2> QED
    BY <2>4 DEF StartsOf
<1> QED
  BY <1>3, <1>4 DEF Living, LivingOut

\* What is live at the end of a block is what some successor needs.
LEMMA LivingEnd ==
  ASSUME IsFunction(blocks), NEW b \in Block
  PROVE  /\ ReadByPhis(b) \subseteq Living(LivingAtStarts, b, Len(blocks[b].code))
         /\ \A to \in Successors(b) :
              LivingAtStarts[to] \subseteq Living(LivingAtStarts, b, Len(blocks[b].code))
<1>1. Len(blocks[b].code) \in Nat
  BY FunctionShape DEF Block
<1>2. KeptAfter(b, Len(blocks[b].code)) = Value
  BY <1>1 DEF KeptAfter
<1>3. ReadByPhis(b) \subseteq Value
  BY LivingValues
<1>4. \A to \in Successors(b) : LivingAtStarts[to] \subseteq Value
  BY SuccessorBlocks, LivingValues
<1> QED
  BY <1>2, <1>3, <1>4 DEF Living, LivingOut

\* What is live before an instruction: what it reads, and what is live behind it and not
\* its result.
LEMMA LivingStep ==
  ASSUME IsFunction(blocks), NEW b \in Block, NEW i \in Nat, i + 1 \in DOMAIN blocks[b].code,
         NEW starts
  PROVE  LET inst == blocks[b].code[i + 1]
         IN /\ UsedBy(inst) \cap Value \subseteq Living(starts, b, i)
            /\ Living(starts, b, i + 1) \ Result(inst) \subseteq Living(starts, b, i)
            /\ Living(starts, b, i) \ UsedBy(inst) \subseteq Living(starts, b, i + 1) \ Result(inst)
<1> DEFINE inst == blocks[b].code[i + 1]
           n == Len(blocks[b].code)
<1>1. n \in Nat /\ DOMAIN blocks[b].code = 1..n
  BY FunctionShape DEF Block
<1>2. UsedBy(inst) \cap Value \subseteq UsedAfter(b, i)
  <2>1. \A k \in i + 1..(i + 1) - 1 : FALSE
    OBVIOUS
  <2> QED
    BY <2>1 DEF UsedAfter
<1> HIDE DEF n
<1>3. \A v \in Value : v \in KeptAfter(b, i) <=> v \in KeptAfter(b, i + 1) /\ v \notin Result(inst)
  <2> SUFFICES ASSUME NEW v \in Value
               PROVE  v \in KeptAfter(b, i) <=> v \in KeptAfter(b, i + 1) /\ v \notin Result(inst)
    OBVIOUS
  <2>1. \A k : k \in i + 1..n <=> k = i + 1 \/ k \in (i + 1) + 1..n
    BY <1>1
  <2> QED
    BY <2>1 DEF KeptAfter, n
<1>4. UsedAfter(b, i + 1) \ Result(inst) \subseteq UsedAfter(b, i)
  <2> SUFFICES ASSUME NEW v \in UsedAfter(b, i + 1), v \notin Result(inst) PROVE v \in UsedAfter(b, i)
    OBVIOUS
  <2>1. v \in Value
    BY DEF UsedAfter
  <2>2. PICK j \in DOMAIN blocks[b].code :
          /\ i + 1 < j /\ v \in UsedBy(blocks[b].code[j])
          /\ \A k \in (i + 1) + 1..j - 1 : v \notin Result(blocks[b].code[k])
    BY DEF UsedAfter
  <2>3. i < j /\ \A k \in i + 1..j - 1 : k = i + 1 \/ k \in (i + 1) + 1..j - 1
    BY <1>1, <2>2
  <2>4. \A k \in i + 1..j - 1 : v \notin Result(blocks[b].code[k])
    BY <2>2, <2>3
  <2> QED
    BY <2>1, <2>2, <2>3, <2>4 DEF UsedAfter
<1>5. UsedAfter(b, i) \ UsedBy(inst) \subseteq UsedAfter(b, i + 1) \ Result(inst)
  <2> SUFFICES ASSUME NEW v \in UsedAfter(b, i), v \notin UsedBy(inst)
               PROVE  v \in UsedAfter(b, i + 1) /\ v \notin Result(inst)
    OBVIOUS
  <2>1. v \in Value
    BY DEF UsedAfter
  <2>2. PICK j \in DOMAIN blocks[b].code :
          /\ i < j /\ v \in UsedBy(blocks[b].code[j])
          /\ \A k \in i + 1..j - 1 : v \notin Result(blocks[b].code[k])
    BY DEF UsedAfter
  <2>3. j # i + 1
    BY <2>2
  <2>4. i + 1 < j /\ i + 1 \in i + 1..j - 1 /\ \A k \in (i + 1) + 1..j - 1 : k \in i + 1..j - 1
    BY <1>1, <2>2, <2>3
  <2> QED
    BY <2>1, <2>2, <2>4 DEF UsedAfter
<1>6. \A v : v \in KeptAfter(b, i) \/ v \in KeptAfter(b, i + 1) => v \in Value
  BY DEF KeptAfter
<1> QED
  BY <1>2, <1>3, <1>4, <1>5, <1>6 DEF Living

LEMMA TempsOf ==
  ASSUME NEW vs
  PROVE  \A t : t \in Temps(vs) <=> \E k \in DOMAIN vs : vs[k][1] = "temp" /\ t = vs[k][2]
<1>1. IR!ToSet(vs) = {vs[k] : k \in DOMAIN vs}
  BY DEF IR!ToSet
<1> QED
  BY <1>1, ZenonT(30) DEF Temps

LEMMA TempsOfOne ==
  ASSUME NEW x
  PROVE  \A t : t \in Temps(<<x>>) <=> x[1] = "temp" /\ t = x[2]
<1> DEFINE vs == <<x>>
<1>1. DOMAIN vs = {1} /\ vs[1] = x
  OBVIOUS
<1> HIDE DEF vs
<1>2. \A t : t \in Temps(vs) <=> \E k \in DOMAIN vs : vs[k][1] = "temp" /\ t = vs[k][2]
  BY TempsOf
<1>3. \A t : t \in Temps(vs) <=> x[1] = "temp" /\ t = x[2]
  BY <1>1, <1>2
<1> QED
  BY <1>3 DEF vs

\* The operands of an instruction of the function, and its result.
LEMMA OperandsOf ==
  ASSUME IsFunction(blocks), NEW b \in Block, NEW i \in DOMAIN blocks[b].code
  PROVE  LET inst == blocks[b].code[i]
         IN /\ inst \in IRInstruction(blocks) /\ WellFormed(inst)
            /\ inst.op \in Opcodes
            /\ inst.args \in Seq(Operands) /\ Len(inst.args) \in Nat /\ DOMAIN inst.args = 1..Len(inst.args)
            /\ \A k \in DOMAIN inst.args :
                 /\ inst.args[k] \in Operands
                 /\ inst.args[k][1] = "temp" => inst.args[k] \in Temporaries /\ inst.args[k][2] \in Temps(inst.args)
            /\ Temps(inst.args) \subseteq Value /\ Result(inst) \subseteq Value
            /\ inst.res \in Temporaries => Result(inst) = {inst.res[2]}
            /\ inst.res \in Temporaries \cup {IR!Null}
            /\ inst.res = IR!Null => Result(inst) = {}
            /\ <<b, i>> \in IR!Positions(blocks) /\ IR!At(blocks, <<b, i>>) = inst
<1> DEFINE inst == blocks[b].code[i]
<1>1. /\ inst \in IRInstruction(blocks) /\ WellFormed(inst)
      /\ <<b, i>> \in IR!Positions(blocks) /\ IR!At(blocks, <<b, i>>) = inst
  BY InstructionShape DEF Block
<1> HIDE DEF inst
<1>2. /\ inst.op \in Opcodes /\ inst.args \in Seq(Operands) /\ inst.res \in Temporaries \cup {IR!Null}
  BY <1>1 DEF IRInstruction
<1>3. Len(inst.args) \in Nat /\ DOMAIN inst.args = 1..Len(inst.args)
      /\ \A k \in DOMAIN inst.args : inst.args[k] \in Operands
  <2> HIDE DEF inst
  <2> QED
    BY <1>2
<1>4. ASSUME NEW k \in DOMAIN inst.args, inst.args[k][1] = "temp"
      PROVE  inst.args[k] \in Temporaries /\ inst.args[k][2] \in Temps(inst.args)
  <2>1. inst.args[k] \in Temporaries
    BY <1>3, <1>4, OperandShape
  <2> QED
    BY <1>4, <2>1, TempsOf
<1>5. ASSUME NEW t \in Temps(inst.args) PROVE t \in Value
  <2>1. PICK k \in DOMAIN inst.args : inst.args[k][1] = "temp" /\ t = inst.args[k][2]
    BY <1>5, TempsOf
  <2>2. inst.args[k] \in Temporaries
    BY <1>4, <2>1
  <2> QED
    BY <2>1, <2>2, TemporaryShape
<1>6. \A t : t \in Result(inst) <=> inst.res[1] = "temp" /\ t = inst.res[2]
  BY TempsOfOne DEF Result
<1>7. inst.res \in Temporaries => inst.res[1] = "temp" /\ inst.res[2] \in Value
  BY TemporaryShape
<1>8. inst.res = IR!Null => inst.res[1] # "temp"
  BY DEF IR!Null
<1>9. Result(inst) \subseteq Value /\ (inst.res \in Temporaries => Result(inst) = {inst.res[2]})
      /\ (inst.res = IR!Null => Result(inst) = {})
  BY <1>2, <1>6, <1>7, <1>8
<1> QED
  BY <1>1, <1>2, <1>3, <1>4, <1>5, <1>9 DEF inst

\* What a phi node takes from block b is one of its operands.
LEMMA IncomingOperand ==
  ASSUME IsFunction(blocks), NEW to \in Block, NEW i \in DOMAIN blocks[to].code,
         blocks[to].code[i].op = "phi", NEW b, b \in IR!ToSet(blocks[to].code[i].from)
  PROVE  LET phi == blocks[to].code[i]
         IN /\ IR!EntryFor(phi, b) \in DOMAIN phi.args /\ Incoming(phi, b) \in Operands
            /\ phi.res \in Temporaries
            /\ Temps(<<Incoming(phi, b)>>) \subseteq Temps(phi.args) \cap Value
<1> DEFINE phi == blocks[to].code[i]
           k == IR!EntryFor(phi, b)
<1>1. phi \in IRInstruction(blocks) /\ WellFormed(phi) /\ phi.args \in Seq(Operands)
      /\ Temps(phi.args) \subseteq Value /\ phi.res \in Temporaries \cup {IR!Null}
      /\ \A j \in DOMAIN phi.args :
                 /\ phi.args[j] \in Operands
                 /\ phi.args[j][1] = "temp" => phi.args[j] \in Temporaries /\ phi.args[j][2] \in Temps(phi.args)
  BY OperandsOf
<1>2. phi.from \in Seq(Block)
  BY <1>1 DEF IRInstruction, Block
<1>3. k \in DOMAIN phi.from
  BY <1>2, FirstEntry
<1>4. Len(phi.args) = Len(phi.from) /\ phi.res # IR!Null
  BY <1>1 DEF WellFormed
<1>5. k \in DOMAIN phi.args
  <2> HIDE DEF phi, k
  <2> QED
    BY <1>1, <1>2, <1>3, <1>4
<1>6. Incoming(phi, b) = phi.args[k]
  BY DEF Incoming
<1> HIDE DEF k, phi
<1>7. Temps(<<phi.args[k]>>) \subseteq Temps(phi.args) \cap Value
  BY <1>1, <1>5, TempsOfOne
<1> QED
  BY <1>1, <1>4, <1>5, <1>6, <1>7 DEF phi, k

LEMMA ReadMentioned ==
  ASSUME IsFunction(blocks), NEW b \in Block, NEW v \in ReadByPhis(b)
  PROVE  \E to \in Successors(b) : \E p \in IR!Positions(blocks) : p[1] = to /\ v \in MentionedAt(p)
<1>1. PICK to \in Successors(b) : \E i \in LeadingPhis(to) :
        /\ b \in IR!ToSet(blocks[to].code[i].from)
        /\ v \in Temps(<<Incoming(blocks[to].code[i], b)>>)
  BY DEF ReadByPhis
<1>7. PICK i \in LeadingPhis(to) :
        /\ b \in IR!ToSet(blocks[to].code[i].from)
        /\ v \in Temps(<<Incoming(blocks[to].code[i], b)>>)
  BY <1>1
<1>2. to \in Block
  BY SuccessorBlocks
<1>3. i \in DOMAIN blocks[to].code /\ blocks[to].code[i].op = "phi"
  <2>1. i \in DOMAIN blocks[to].code /\ \A j \in 1..i : blocks[to].code[j].op = "phi"
    BY DEF LeadingPhis
  <2>2. i \in 1..i
    BY <1>2, <2>1, FunctionShape DEF Block
  <2> QED
    BY <2>1, <2>2
<1>4. v \in Temps(blocks[to].code[i].args)
  BY <1>7, <1>2, <1>3, IncomingOperand
<1>5. <<to, i>> \in IR!Positions(blocks) /\ IR!At(blocks, <<to, i>>) = blocks[to].code[i]
  BY <1>2, <1>3, OperandsOf
<1>6. v \in MentionedAt(<<to, i>>)
  BY <1>4, <1>5 DEF MentionedAt
<1> QED
  BY <1>5, <1>6

\* Without a loop, what is live is mentioned later in the text.
LEMMA StartMentioned ==
  ASSUME IsFunction(blocks), ~Loops, NEW b \in Block, NEW v \in LivingAtStarts[b]
  PROVE  \E p \in IR!Positions(blocks) : b <= p[1] /\ v \in MentionedAt(p)
<1> DEFINE S == {c \in Block : \E p \in IR!Positions(blocks) : c <= p[1] /\ v \in MentionedAt(p)}
<1>0. v \in Value
  BY LivingValues
<1>1. \A c \in Block : c \in Nat
  BY FunctionShape DEF Block
<1>2. \A c \in Block : \A to \in Successors(c) : to \in Block /\ c < to
  BY <1>1, SuccessorBlocks DEF Loops
<1>3. Ends(v) \subseteq S
  <2> SUFFICES ASSUME NEW c \in Ends(v) PROVE c \in S
    OBVIOUS
  <2>1. c \in Block /\ (v \in UsedAfter(c, 0) \/ v \in ReadByPhis(c))
    BY DEF Ends
  <2>2. CASE v \in UsedAfter(c, 0)
    <3>1. PICK j \in DOMAIN blocks[c].code : v \in UsedBy(blocks[c].code[j])
      BY <2>2 DEF UsedAfter
    <3>2. v \in Temps(blocks[c].code[j].args)
      BY <3>1 DEF UsedBy
    <3>3. <<c, j>> \in IR!Positions(blocks) /\ v \in MentionedAt(<<c, j>>)
      BY <2>1, <3>2, OperandsOf DEF MentionedAt
    <3> QED
      BY <1>1, <2>1, <3>3
  <2>3. CASE v \in ReadByPhis(c)
    <3>1. PICK to \in Successors(c), p \in IR!Positions(blocks) : p[1] = to /\ v \in MentionedAt(p)
      BY <2>1, <2>3, ReadMentioned
    <3>2. c <= p[1]
      BY <1>1, <1>2, <2>1, <3>1
    <3> QED
      BY <2>1, <3>1, <3>2
  <2> QED
    BY <2>1, <2>2, <2>3
<1>4. \A to \in S \cap Block : KeptBefore(v)[to] \subseteq S
  <2> SUFFICES ASSUME NEW to \in Block, to \in S, NEW c \in KeptBefore(v)[to] PROVE c \in S
    OBVIOUS
  <2>1. c \in Block /\ to \in Successors(c)
    BY DEF KeptBefore
  <2>2. PICK p \in IR!Positions(blocks) : to <= p[1] /\ v \in MentionedAt(p)
    OBVIOUS
  <2>3. c <= p[1]
    <3>1. p[1] \in Block
      BY PositionShape DEF Block
    <3> QED
      BY <1>1, <1>2, <2>1, <2>2, <3>1
  <2> QED
    BY <2>1, <2>2, <2>3
<1>5. StartsOf(v) \subseteq S
  BY <1>0, <1>3, <1>4, StartsAreLeast DEF IsLeast
<1> QED
  BY <1>5 DEF StartsOf

LEMMA LivingMentioned ==
  ASSUME IsFunction(blocks), ~Loops, NEW b \in Block, NEW i \in DOMAIN blocks[b].code,
         NEW v \in Living(LivingAtStarts, b, i)
  PROVE  \E p \in IR!Positions(blocks) : Before(<<b, i>>, p[1], p[2]) /\ v \in MentionedAt(p)
<1>1. \A c \in Block : c \in Nat
  BY FunctionShape DEF Block
<1>2. \A to \in Successors(b) : to \in Block /\ b < to
  BY <1>1, SuccessorBlocks DEF Loops
<1>3. CASE v \in UsedAfter(b, i)
  <2>1. PICK j \in DOMAIN blocks[b].code : i < j /\ v \in UsedBy(blocks[b].code[j])
    BY <1>3 DEF UsedAfter
  <2>2. v \in Temps(blocks[b].code[j].args)
    BY <2>1 DEF UsedBy
  <2>3. <<b, j>> \in IR!Positions(blocks) /\ v \in MentionedAt(<<b, j>>)
    BY <2>2, OperandsOf DEF MentionedAt
  <2> QED
    BY <2>1, <2>3 DEF Before
<1>4. CASE v \in ReadByPhis(b)
  <2>1. PICK to \in Successors(b), p \in IR!Positions(blocks) : p[1] = to /\ v \in MentionedAt(p)
    BY <1>4, ReadMentioned
  <2> QED
    BY <1>2, <2>1 DEF Before
<1>5. CASE v \in UNION {LivingAtStarts[to] : to \in Successors(b)}
  <2>1. PICK to \in Successors(b) : v \in LivingAtStarts[to]
    BY <1>5
  <2>2. PICK p \in IR!Positions(blocks) : to <= p[1] /\ v \in MentionedAt(p)
    BY <1>2, <2>1, StartMentioned
  <2>3. p[1] \in Block
    BY PositionShape DEF Block
  <2>4. b < p[1]
    BY <1>1, <1>2, <2>2, <2>3
  <2> QED
    BY <2>2, <2>4 DEF Before
<1> QED
  BY <1>3, <1>4, <1>5 DEF Living, LivingOut

\* What is live at the start of b is defined in the blocks above it.
DefinedAbove(b) ==
  \A v \in LivingAtStarts[b] : \E p \in IR!Positions(blocks) :
    p[1] < b /\ v \in Result(IR!At(blocks, p))

\* No instruction of b overwrites what is live behind it.
Undisturbed(b) ==
  \A i \in DOMAIN blocks[b].code : ~Overwrites(blocks[b].code[i], Living(LivingAtStarts, b, i))

\* What a successor needs at its start is defined above it if it is so for this block.
LEMMA DefinedOnTheWay ==
  ASSUME IsFunction(blocks), ~Loops, NEW b \in Block, DefinedAbove(b), NEW to \in Successors(b)
  PROVE  DefinedAbove(to)
<1>1. \A c \in Block : c \in Nat
  BY FunctionShape DEF Block
<1>2. to \in Block /\ b < to
  BY <1>1, SuccessorBlocks DEF Loops
<1> SUFFICES ASSUME NEW v \in LivingAtStarts[to]
             PROVE  \E p \in IR!Positions(blocks) : p[1] < to /\ v \in Result(IR!At(blocks, p))
  BY DEF DefinedAbove
<1>3. v \in Value
  BY <1>2, LivingValues
<1>4. CASE v \in KeptAfter(b, 0)
  <2>1. v \in Living(LivingAtStarts, b, 0)
    BY <1>4 DEF Living, LivingOut
  <2>2. PICK p \in IR!Positions(blocks) : p[1] < b /\ v \in Result(IR!At(blocks, p))
    BY <2>1, LivingStart DEF DefinedAbove
  <2>3. p[1] \in Block
    BY PositionShape DEF Block
  <2>4. p[1] < to
    BY <1>1, <1>2, <2>2, <2>3
  <2> QED
    BY <2>2, <2>4
<1>5. CASE v \notin KeptAfter(b, 0)
  <2>1. PICK k \in 1..Len(blocks[b].code) : v \in Result(blocks[b].code[k])
    BY <1>3, <1>5 DEF KeptAfter
  <2>2. k \in DOMAIN blocks[b].code
    BY FunctionShape DEF Block
  <2>3. <<b, k>> \in IR!Positions(blocks) /\ IR!At(blocks, <<b, k>>) = blocks[b].code[k]
    BY <2>2, OperandsOf
  <2> QED
    BY <1>2, <2>1, <2>3
<1> QED
  BY <1>4, <1>5

\* What is live behind an instruction and not its result is defined before it.
LEMMA LivingDefined ==
  ASSUME IsFunction(blocks), NEW b \in Block, DefinedAbove(b), NEW i \in DOMAIN blocks[b].code,
         NEW v \in Living(LivingAtStarts, b, i), v \notin Result(blocks[b].code[i])
  PROVE  \E p \in IR!Positions(blocks) : Before(p, b, i) /\ v \in Result(IR!At(blocks, p))
<1>1. DOMAIN blocks[b].code = 1..Len(blocks[b].code) /\ Len(blocks[b].code) \in Nat
  BY FunctionShape DEF Block
<1>2. v \in Value
  BY DEF Living, UsedAfter, KeptAfter
<1>3. CASE \E k \in 1..i : v \in Result(blocks[b].code[k])
  <2>1. PICK k \in 1..i : v \in Result(blocks[b].code[k])
    BY <1>3
  <2>2. k \in DOMAIN blocks[b].code /\ k < i
    BY <1>1, <2>1
  <2>3. <<b, k>> \in IR!Positions(blocks) /\ IR!At(blocks, <<b, k>>) = blocks[b].code[k]
    BY <2>2, OperandsOf
  <2> QED
    BY <2>1, <2>2, <2>3 DEF Before
<1>4. CASE \A k \in 1..i : v \notin Result(blocks[b].code[k])
  <2>1. v \in UsedAfter(b, i) => v \in UsedAfter(b, 0)
    <3> SUFFICES ASSUME v \in UsedAfter(b, i) PROVE v \in UsedAfter(b, 0)
      OBVIOUS
    <3>1. PICK j \in DOMAIN blocks[b].code :
            /\ i < j /\ v \in UsedBy(blocks[b].code[j])
            /\ \A k \in i + 1..j - 1 : v \notin Result(blocks[b].code[k])
      BY DEF UsedAfter
    <3>2. 0 < j /\ \A k \in 0 + 1..j - 1 : k \in 1..i \/ k \in i + 1..j - 1
      BY <1>1, <3>1
    <3>3. \A k \in 0 + 1..j - 1 : v \notin Result(blocks[b].code[k])
      BY <1>4, <3>1, <3>2
    <3> QED
      BY <1>2, <3>1, <3>2, <3>3 DEF UsedAfter
  <2>2. v \in KeptAfter(b, i) => v \in KeptAfter(b, 0)
    <3>1. \A k \in 0 + 1..Len(blocks[b].code) : k \in 1..i \/ k \in i + 1..Len(blocks[b].code)
      BY <1>1
    <3> QED
      BY <1>2, <1>4, <3>1 DEF KeptAfter
  <2>3. v \in LivingAtStarts[b]
    BY <2>1, <2>2, LivingStart DEF Living
  <2> QED
    BY <2>3 DEF DefinedAbove, Before
<1> QED
  BY <1>3, <1>4

\* Without a loop, the intervals keep what is live out of reach of every definition.
LEMMA NothingOverwritten ==
  ASSUME Placed, ~Loops, NEW b \in Block, DefinedAbove(b)
  PROVE  Undisturbed(b)
<1> SUFFICES ASSUME NEW i \in DOMAIN blocks[b].code,
                    NEW w \in Result(blocks[b].code[i]),
                    NEW v \in Living(LivingAtStarts, b, i), v \notin Result(blocks[b].code[i]),
                    valueToReg[v] = valueToReg[w]
             PROVE  FALSE
  BY DEF Undisturbed, Overwrites
<1>0. IsFunction(blocks)
  BY DEF Placed
<1>1. PICK at : IsNumbering(at)
  BY TextNumbered DEF Placed
<1>2. PICK p \in IR!Positions(blocks) : Before(p, b, i) /\ v \in Result(IR!At(blocks, p))
  BY <1>0, LivingDefined
<1>3. PICK r \in IR!Positions(blocks) : Before(<<b, i>>, r[1], r[2]) /\ v \in MentionedAt(r)
  BY <1>0, LivingMentioned
<1> DEFINE q == <<b, i>>
<1>4. q \in IR!Positions(blocks) /\ w \in MentionedAt(q) /\ w \in Value /\ v \in Value
  BY <1>0, OperandsOf DEF MentionedAt, Living, UsedAfter, KeptAfter
<1>5. Before(p, q[1], q[2]) /\ Before(q, r[1], r[2])
  BY <1>2, <1>3
<1> HIDE DEF q
<1>6. at[p] < at[q] /\ at[q] < at[r]
  BY <1>1, <1>4, <1>5 DEF IsNumbering
<1>7. at[p] \in Int /\ at[q] \in Int /\ at[r] \in Int
  BY <1>1, <1>4 DEF IsNumbering
<1>8. at[p] <= at[q] /\ at[q] <= at[r]
  BY <1>6, <1>7
<1>9. v \in MentionedAt(p) /\ v # w
  BY <1>2 DEF MentionedAt
<1> QED
  BY <1>1, <1>3, <1>4, <1>8, <1>9, RegistersApart

-----------------------------------------------------------------------------
(* Operands.                                                               *)

\* An operand that is mentioned is a number or in a register, and needs no load.
LEMMA OperandPlace ==
  ASSUME Placed, NEW x \in Operands, NEW p \in IR!Positions(blocks),
         Temps(<<x>>) \subseteq MentionedAt(p)
  PROVE  /\ LoadSpilled(x) = <<>>
         /\ \/ x[1] = "const" /\ GetOperand(x) = Number(x[2])
            \/ /\ x[1] = "temp" /\ x[2] \in Value /\ Temps(<<x>>) = {x[2]}
               /\ GetOperand(x) = Register(valueToReg[x[2]])
               /\ valueToReg[x[2]] \in Registers /\ valueToReg[x[2]] # NoReg
<1>1. CASE x \in Temporaries
  <2>1. x[1] = "temp" /\ x[2] \in Value
    BY <1>1, TemporaryShape
  <2>2. Temps(<<x>>) = {x[2]}
    BY <2>1, TempsOfOne
  <2>3. valueToReg[x[2]] \in Registers /\ valueToReg[x[2]] # NoReg
    BY <2>1, <2>2, InRegister
  <2> QED
    BY <2>1, <2>2, <2>3 DEF LoadSpilled, GetOperand, IsSpilled, IR!IsConstant
<1>2. CASE x[1] = "const" /\ x \notin Temporaries
  BY <1>2 DEF LoadSpilled, GetOperand, IsSpilled, IR!IsConstant
<1> QED
  BY <1>1, <1>2, OperandShape

\* The machine reads what the IR does, if the registers are right.
LEMMA OperandValue ==
  ASSUME Placed, NEW x \in Operands, NEW p \in IR!Positions(blocks),
         Temps(<<x>>) \subseteq MentionedAt(p),
         NEW m, NEW s, \A v \in Temps(<<x>>) : m.regs[valueToReg[v]] = s.env[v]
  PROVE  Read(m, GetOperand(x)) = IR!ValueIn(s, x)
<1>1. CASE x[1] = "const" /\ GetOperand(x) = Number(x[2])
  BY <1>1 DEF Read, Number, IR!ValueIn
<1>2. CASE /\ x[1] = "temp" /\ x[2] \in Value /\ Temps(<<x>>) = {x[2]}
           /\ GetOperand(x) = Register(valueToReg[x[2]])
  BY <1>2 DEF Read, Register, IR!ValueIn
<1> QED
  BY <1>1, <1>2, OperandPlace

\* An operand is not in the registers that no value in it is in.
LEMMA OperandAvoids ==
  ASSUME Placed, NEW x \in Operands, NEW p \in IR!Positions(blocks),
         Temps(<<x>>) \subseteq MentionedAt(p),
         NEW R, \A v \in Temps(<<x>>) : valueToReg[v] \notin R
  PROVE  Avoids(GetOperand(x), R)
<1>1. CASE x[1] = "const" /\ GetOperand(x) = Number(x[2])
  BY <1>1 DEF Avoids, Number
<1>2. CASE /\ x[1] = "temp" /\ x[2] \in Value /\ Temps(<<x>>) = {x[2]}
           /\ GetOperand(x) = Register(valueToReg[x[2]])
           /\ valueToReg[x[2]] \in Registers
  BY <1>2 DEF Avoids, Register
<1> QED
  BY <1>1, <1>2, OperandPlace

\* The k-th operand of an instruction is mentioned by it.
LEMMA ArgumentMentioned ==
  ASSUME IsFunction(blocks), NEW b \in Block, NEW i \in DOMAIN blocks[b].code,
         NEW k \in DOMAIN blocks[b].code[i].args
  PROVE  /\ blocks[b].code[i].args[k] \in Operands
         /\ Temps(<<blocks[b].code[i].args[k]>>) \subseteq Temps(blocks[b].code[i].args)
         /\ <<b, i>> \in IR!Positions(blocks)
         /\ Temps(blocks[b].code[i].args) \subseteq MentionedAt(<<b, i>>)
<1> DEFINE inst == blocks[b].code[i]
           x == inst.args[k]
<1>1. /\ x \in Operands
      /\ x[1] = "temp" => x[2] \in Temps(inst.args)
      /\ <<b, i>> \in IR!Positions(blocks) /\ IR!At(blocks, <<b, i>>) = inst
  BY OperandsOf
<1>2. Temps(<<x>>) \subseteq Temps(inst.args)
  BY <1>1, TempsOfOne
<1> QED
  BY <1>1, <1>2 DEF MentionedAt

\* The result of an instruction, in a register.
LEMMA ResultPlace ==
  ASSUME Placed, NEW b \in Block, NEW i \in DOMAIN blocks[b].code,
         blocks[b].code[i].res \in Temporaries
  PROVE  LET inst == blocks[b].code[i]
         IN /\ inst.res[2] \in Value /\ Result(inst) = {inst.res[2]}
            /\ AllocResult(inst.res) = valueToReg[inst.res[2]]
            /\ valueToReg[inst.res[2]] \in Registers /\ valueToReg[inst.res[2]] # NoReg
<1> DEFINE inst == blocks[b].code[i]
<1>1. IsFunction(blocks)
  BY DEF Placed
<1>2. inst.res[2] \in Value /\ inst.res[1] = "temp"
  BY TemporaryShape
<1>3. Result(inst) = {inst.res[2]}
      /\ <<b, i>> \in IR!Positions(blocks) /\ IR!At(blocks, <<b, i>>) = inst
  BY <1>1, OperandsOf
<1>4. inst.res[2] \in MentionedAt(<<b, i>>)
  BY <1>3 DEF MentionedAt
<1>5. valueToReg[inst.res[2]] \in Registers /\ valueToReg[inst.res[2]] # NoReg
  BY <1>2, <1>3, <1>4, InRegister
<1> QED
  BY <1>2, <1>3, <1>5 DEF AllocResult, IsSpilled

\* An instruction does not have its result in the register of an operand.
LEMMA ResultApart ==
  ASSUME Placed, NEW b \in Block, NEW i \in DOMAIN blocks[b].code,
         blocks[b].code[i].res \in Temporaries, blocks[b].code[i].op # "phi",
         NEW v \in Temps(blocks[b].code[i].args)
  PROVE  valueToReg[v] # valueToReg[blocks[b].code[i].res[2]]
<1> DEFINE inst == blocks[b].code[i]
           p == <<b, i>>
           w == inst.res[2]
<1>1. IsFunction(blocks)
  BY DEF Placed
<1>2. /\ p \in IR!Positions(blocks) /\ IR!At(blocks, p) = inst
      /\ w \in Value /\ Result(inst) = {w} /\ v \in Value
      /\ inst \in IRInstruction(blocks)
  BY <1>1, OperandsOf, TemporaryShape
<1>3. v # w
  <2> SUFFICES ASSUME v = w PROVE FALSE
    OBVIOUS
  <2>1. PICK k \in DOMAIN inst.args : inst.args[k][1] = "temp" /\ v = inst.args[k][2]
    BY TempsOf
  <2>2. inst.args[k] \in Temporaries
    BY <1>1, <2>1, OperandsOf
  <2>3. inst.args[k] = inst.res
    BY <2>1, <2>2, TemporaryShape
  <2>4. PICK q \in IR!Positions(blocks) : IR!At(blocks, q).res = inst.args[k] /\ Before(q, b, i)
    BY <1>1, <2>2, DefinedEarlier DEF Block
  <2>5. q = p
    BY <1>1, <1>2, <2>3, <2>4, OneDefinition
  <2>6. b \in Nat /\ i \in Nat
    BY <1>1, <1>2, FunctionShape DEF Block
  <2> QED
    BY <2>4, <2>5, <2>6 DEF Before
<1>4. PICK at : IsNumbering(at)
  BY TextNumbered DEF Placed
<1>5. at[p] <= at[p]
  BY <1>2, <1>4 DEF IsNumbering
<1>6. v \in MentionedAt(p) /\ w \in MentionedAt(p)
  BY <1>2 DEF MentionedAt
<1> HIDE DEF p, w
<1>7. valueToReg[v] # valueToReg[w]
  BY <1>2, <1>3, <1>4, <1>5, <1>6, RegistersApart
<1> QED
  BY <1>7 DEF w

-----------------------------------------------------------------------------
(* The IR and the machine, instruction by instruction.                     *)

\* What is live behind the i-th instruction of block b is in its register, and what
\* the phi nodes to come take from the block before is in theirs.
Holds(s, m, b, i) ==
  /\ \A v \in Living(LivingAtStarts, b, i) :
       valueToReg[v] # NoReg => m.regs[valueToReg[v]] = s.env[v]
  /\ \A j \in LeadingPhis(b) : i < j =>
       \A v \in Result(blocks[b].code[j]) \cap Living(LivingAtStarts, b, j) :
         m.regs[valueToReg[v]] = IR!IncomingFrom(s, blocks[b].code[j])

\* The same on the way from block b to another.
Arrives(s, m, b, to) ==
  /\ \A v \in Living(LivingAtStarts, to, 0) :
       valueToReg[v] # NoReg => m.regs[valueToReg[v]] = s.env[v]
  /\ \A j \in LeadingPhis(to) :
       /\ b \in IR!ToSet(blocks[to].code[j].from)
       /\ \A v \in Result(blocks[to].code[j]) \cap Living(LivingAtStarts, to, j) :
            m.regs[valueToReg[v]] = IR!ValueIn(s, Incoming(blocks[to].code[j], b))

\* The IR and the machine have come equally far inside of block b.
Linked(s, m, b, i) ==
  /\ IsState(s) /\ IsMachine(m)
  /\ m.mode = s.mode /\ m.calls = s.calls /\ m.answers = s.answers
  /\ s.mode \in {"run", "next", "done", "stuck"}
  /\ s.mode = "run" => Holds(s, m, b, i)
  /\ s.mode = "next" => m.to = s.to /\ s.to \in Successors(b) /\ Arrives(s, m, b, s.to)
  /\ s.mode = "done" => m.val = s.val

\* The backend caters for the instructions of block b, and no register is taken.
Catered(b) ==
  \A i \in DOMAIN blocks[b].code :
    LET inst == blocks[b].code[i]
        living == Living(LivingAtStarts, b, i)
    IN /\ ~Untranslated(inst) /\ ~NotEncodable(inst)
       /\ ~ScratchTaken(inst, living) /\ ~ArgumentOverwritten(inst) /\ ~LostInCall(inst, living)
       /\ ~Overwrites(inst, living)
       /\ inst.op = "phi" => i \in LeadingPhis(b)

\* What a comparison computes is 0 or 1.
Truthful(s) == \A v \in Truths : s.env[v] \in {0, 1, IR!Undefined}

\* A value with a register has one of those the allocator gives away.
LEMMA AssignedRegister ==
  ASSUME Placed, NEW v \in Value, valueToReg[v] # NoReg
  PROVE  valueToReg[v] \in Registers
<1>1. valueToReg[v] \in Reg
  BY DEF Placed, IInv, TypeOK
<1> QED
  BY <1>1, RegistersAssumption

LEMMA NothingBefore ==
  ASSUME NEW x, IsText(x)
  PROVE  <<>> \o x = x
<1>1. PICK S : x \in Seq(S)
  BY DEF IsText
<1> QED
  BY <1>1

\* The operands of the next instruction are in their registers.
LEMMA OperandsHeld ==
  ASSUME Placed, NEW b \in Block, NEW i \in Nat, i + 1 \in DOMAIN blocks[b].code,
         blocks[b].code[i + 1].op # "phi", NEW s, NEW m, Holds(s, m, b, i),
         NEW v \in Temps(blocks[b].code[i + 1].args)
  PROVE  m.regs[valueToReg[v]] = s.env[v]
<1> DEFINE inst == blocks[b].code[i + 1]
           p == <<b, i + 1>>
<1>0. IsFunction(blocks)
  BY DEF Placed
<1>1. /\ p \in IR!Positions(blocks) /\ IR!At(blocks, p) = inst /\ v \in Value
  BY <1>0, OperandsOf
<1>2. v \in MentionedAt(p)
  BY <1>1 DEF MentionedAt
<1>3. valueToReg[v] # NoReg
  BY <1>1, <1>2, InRegister
<1>4. v \in UsedBy(inst)
  BY DEF UsedBy
<1>5. UsedBy(inst) \cap Value \subseteq Living(LivingAtStarts, b, i)
  BY <1>0, LivingStep
<1> QED
  BY <1>1, <1>3, <1>4, <1>5 DEF Holds

\* The machine reads of an operand what the IR does.
LEMMA ArgumentRead ==
  ASSUME Placed, NEW b \in Block, NEW i \in Nat, i + 1 \in DOMAIN blocks[b].code,
         blocks[b].code[i + 1].op # "phi", NEW s, NEW m, Holds(s, m, b, i),
         NEW k \in DOMAIN blocks[b].code[i + 1].args
  PROVE  LET x == blocks[b].code[i + 1].args[k]
         IN Read(m, GetOperand(x)) = IR!ValueIn(s, x) /\ LoadSpilled(x) = <<>>
<1> DEFINE inst == blocks[b].code[i + 1]
           p == <<b, i + 1>>
           x == inst.args[k]
<1>0. IsFunction(blocks)
  BY DEF Placed
<1>1. /\ x \in Operands /\ Temps(<<x>>) \subseteq Temps(inst.args)
      /\ p \in IR!Positions(blocks) /\ Temps(<<x>>) \subseteq MentionedAt(p)
  BY <1>0, ArgumentMentioned
<1>2. \A v \in Temps(<<x>>) : m.regs[valueToReg[v]] = s.env[v]
  BY <1>1, OperandsHeld
<1> HIDE DEF x, p
<1>3. Read(m, GetOperand(x)) = IR!ValueIn(s, x) /\ LoadSpilled(x) = <<>>
  BY <1>1, <1>2, OperandPlace, OperandValue
<1> QED
  BY <1>3 DEF x

\* The operand that is still to be read is not in the register of the result.
LEMMA ArgumentAvoidsResult ==
  ASSUME Placed, NEW b \in Block, NEW i \in DOMAIN blocks[b].code,
         blocks[b].code[i].op # "phi", blocks[b].code[i].res \in Temporaries,
         NEW k \in DOMAIN blocks[b].code[i].args
  PROVE  Avoids(GetOperand(blocks[b].code[i].args[k]), {valueToReg[blocks[b].code[i].res[2]]})
<1> DEFINE inst == blocks[b].code[i]
           p == <<b, i>>
           x == inst.args[k]
           R == {valueToReg[inst.res[2]]}
<1>0. IsFunction(blocks)
  BY DEF Placed
<1>1. /\ x \in Operands /\ Temps(<<x>>) \subseteq Temps(inst.args)
      /\ p \in IR!Positions(blocks) /\ Temps(<<x>>) \subseteq MentionedAt(p)
  BY <1>0, ArgumentMentioned
<1>2. \A v \in Temps(<<x>>) : valueToReg[v] \notin R
  BY <1>1, ResultApart
<1> HIDE DEF x, p, R
<1>3. Avoids(GetOperand(x), R)
  BY <1>1, <1>2, OperandAvoids
<1> QED
  BY <1>3 DEF x, R

\* Defining a result changes the environment only.
LEMMA DefinedKeeps ==
  ASSUME NEW s, IsState(s), NEW inst, inst.res \in Temporaries, NEW v
  PROVE  LET t == IR!Defined(s, inst, v)
         IN /\ IsState(t) /\ t.env[inst.res[2]] = v
            /\ t.mode = s.mode /\ t.calls = s.calls /\ t.answers = s.answers
            /\ t.from = s.from /\ t.entry = s.entry /\ t.to = s.to
<1> DEFINE e == [s.env EXCEPT ![inst.res[2]] = v]
           t == IR!Defined(s, inst, v)
<1>1. t = [s EXCEPT !.env = e] /\ IsState(t) /\ t.env[inst.res[2]] = v
  BY DefinedEffects
<1>2. s = [mode |-> s.mode, to |-> s.to, from |-> s.from, env |-> s.env, entry |-> s.entry,
           mem |-> s.mem, answers |-> s.answers, calls |-> s.calls, val |-> s.val]
  BY DEF IsState
<1> HIDE DEF e, t
<1>3. /\ t.mode = s.mode /\ t.calls = s.calls /\ t.answers = s.answers
      /\ t.from = s.from /\ t.entry = s.entry /\ t.to = s.to
  BY <1>1, <1>2
<1> QED
  BY <1>1, <1>3 DEF t

\* And in the environment the result only.
LEMMA DefinedElsewhere ==
  ASSUME NEW s, IsState(s), NEW inst, inst.res \in Temporaries, NEW v,
         NEW w \in Value, w # inst.res[2]
  PROVE  IR!Defined(s, inst, v).env[w] = s.env[w]
<1> DEFINE x == <<"temp", w>>
<1>1. x \in Temporaries /\ x[2] = w /\ x # inst.res
  BY DEF Temporaries
<1> HIDE DEF x
<1> QED
  BY <1>1, DefinedEffects

\* The result is in its register, and of the others only those are changed that hold
\* nothing that lives on.
LEMMA ResultWritten ==
  ASSUME Placed, NEW b \in Block, NEW i \in Nat, i + 1 \in DOMAIN blocks[b].code, Catered(b),
         blocks[b].code[i + 1].op # "phi", blocks[b].code[i + 1].res \in Temporaries,
         NEW s, NEW m, Linked(s, m, b, i), s.mode = "run", NEW value, NEW n, NEW S,
         Changed(m, n, S \cup {valueToReg[blocks[b].code[i + 1].res[2]]}),
         n.regs[valueToReg[blocks[b].code[i + 1].res[2]]] = value,
         S \cap RegsOf(Living(LivingAtStarts, b, i + 1) \ Result(blocks[b].code[i + 1])) = {}
  PROVE  Linked(IR!Defined(s, blocks[b].code[i + 1], value), n, b, i + 1)
<1> DEFINE inst == blocks[b].code[i + 1]
           t == IR!Defined(s, inst, value)
           w == inst.res[2]
           r == valueToReg[w]
           living == Living(LivingAtStarts, b, i + 1)
<1>0. IsFunction(blocks)
  BY DEF Placed
<1>1. /\ w \in Value /\ Result(inst) = {w} /\ r \in Registers
      /\ Changed(m, n, S \cup {r}) /\ n.regs[r] = value /\ S \cap RegsOf(living \ Result(inst)) = {}
  BY ResultPlace
<1>2. IsState(s) /\ inst.res \in Temporaries
  BY DEF Linked
<1> HIDE DEF inst
<1>3. /\ IsState(t) /\ t.env[w] = value
      /\ t.mode = s.mode /\ t.calls = s.calls /\ t.answers = s.answers
  BY <1>2, DefinedKeeps
<1>4. ASSUME NEW v \in Value, v # w PROVE t.env[v] = s.env[v]
  <2> DEFINE u == w
  <2>1. inst.res[2] = u /\ v # u
    BY <1>4
  <2> HIDE DEF u
  <2>2. v # inst.res[2]
    BY <2>1
  <2> HIDE DEF w
  <2> QED
    BY <1>2, <2>2, DefinedElsewhere
<1> HIDE DEF t
<1>5. IsMachine(n) /\ n.mode = m.mode /\ n.calls = m.calls /\ n.answers = m.answers
  BY DEF Changed
<1>6. ASSUME NEW v \in living, valueToReg[v] # NoReg PROVE n.regs[valueToReg[v]] = t.env[v]
  <2>1. CASE v = w
    BY <1>1, <1>3, <2>1
  <2>2. CASE v # w
    <3>1. v \in Living(LivingAtStarts, b, i) /\ v \in Value
      BY <1>0, <1>1, <2>2, LivingStep DEF inst, Living, UsedAfter, KeptAfter
    <3>2. m.regs[valueToReg[v]] = s.env[v]
      BY <1>6, <3>1 DEF Linked, Holds
    <3>3. valueToReg[v] \in RegsOf(living \ Result(inst))
      BY <1>1, <1>6, <2>2 DEF RegsOf
    <3>4. valueToReg[v] # r
      <4>1. ~Overwrites(inst, living)
        BY DEF Catered, inst
      <4> QED
        BY <1>1, <1>6, <2>2, <4>1 DEF Overwrites
    <3>5. valueToReg[v] \in Registers
      BY <1>6, <3>1, AssignedRegister
    <3>6. valueToReg[v] \notin S \cup {r}
      BY <1>1, <3>3, <3>4
    <3> QED
      BY <1>1, <1>4, <2>2, <3>1, <3>2, <3>5, <3>6 DEF Changed
  <2> QED
    BY <2>1, <2>2
<1>7. ASSUME NEW j \in LeadingPhis(b), i + 1 < j PROVE FALSE
  <2>1. \A k \in 1..j : blocks[b].code[k].op = "phi"
    BY DEF LeadingPhis
  <2>2. j \in Nat
    BY <1>0, FunctionShape DEF LeadingPhis, Block
  <2>3. i + 1 \in 1..j
    BY <1>7, <2>2
  <2> QED
    BY <2>1, <2>3
<1>8. Holds(t, n, b, i + 1)
  BY <1>6, <1>7 DEF Holds
<1>9. Linked(t, n, b, i + 1)
  BY <1>3, <1>5, <1>8 DEF Linked
<1> QED
  BY <1>9 DEF t, inst

\* What an operation emits.
LEMMA SumText ==
  ASSUME NEW inst, inst.op \in {"+", "-"}, NEW res, NEW l, NEW r
  PROVE  EmitOperation(inst, res, l, r) = <<Mov(res, l), <<inst.op, res, r>>>>
  BY DEF EmitOperation, Relations

LEMMA ProductText ==
  ASSUME NEW inst, inst.op = "*", NEW res, NEW l, NEW r
  PROVE  EmitOperation(inst, res, l, r)
           = <<Mov(Rax, l), <<"imul", Rax, r>>, Mov(res, Register(Rax))>>
  BY DEF EmitOperation, Relations

LEMMA QuotientText ==
  ASSUME NEW inst, inst.op = "/", NEW res, NEW l, NEW r
  PROVE  EmitOperation(inst, res, l, r)
           = <<Mov(Rax, l), <<"cqo", Rdx, l>>, <<"idiv", Rax, r>>, Mov(res, Register(Rax))>>
  BY DEF EmitOperation, Relations

LEMMA RelationText ==
  ASSUME NEW inst, inst.op \in Relations, NEW res, NEW l, NEW r
  PROVE  EmitOperation(inst, res, l, r)
           = <<Mov(res, Number(0)), <<"cmp", l, r>>, <<"set", res, inst.op>>>>
  BY DEF EmitOperation, Relations

\* The lines are those of the operation, if the operands are in registers.
LEMMA OperationEmitted ==
  ASSUME NEW inst, inst.op \in {"+", "-", "*", "/"} \cup Relations, NEW b,
         LoadSpilled(inst.args[1]) = <<>>, LoadSpilled(inst.args[2]) = <<>>
  PROVE  LET text == EmitOperation(inst, AllocResult(inst.res), GetOperand(inst.args[1]),
                                   GetOperand(inst.args[2]))
         IN Emit(inst, b) = text /\ IsText(text)
<1> DEFINE text == EmitOperation(inst, AllocResult(inst.res), GetOperand(inst.args[1]),
                                 GetOperand(inst.args[2]))
<1>1. Emit(inst, b) = EmitBinary(inst)
  BY DEF Emit, Relations, IR!BinaryOperators, IR!Relations, IR!Equalities
<1>2. EmitBinary(inst) = (<<>> \o <<>>) \o text
  BY DEF EmitBinary
<1>3. IsText(text)
  BY SumText, ProductText, QuotientText, RelationText, ShortTexts
<1> HIDE DEF text
<1>4. (<<>> \o <<>>) \o text = text
  <2>1. <<>> \o <<>> = <<>>
    BY ShortTexts, NothingBefore
  <2> QED
    BY <1>3, <2>1, NothingBefore
<1> QED
  BY <1>1, <1>2, <1>3, <1>4 DEF text

\* A binary operation does on the machine what it does in the IR.
LEMMA BinaryLinked ==
  ASSUME Placed, NEW b \in Block, NEW i \in Nat, i + 1 \in DOMAIN blocks[b].code, Catered(b),
         blocks[b].code[i + 1].op \in IR!BinaryOperators,
         NEW s, NEW m, Linked(s, m, b, i), s.mode = "run"
  PROVE  LET inst == blocks[b].code[i + 1]
         IN /\ IsText(Emit(inst, b))
            /\ Linked(IR!Executed(s, inst), Ran(m, Emit(inst, b)), b, i + 1)
<1> DEFINE inst == blocks[b].code[i + 1]
           living == Living(LivingAtStarts, b, i + 1) \ Result(inst)
           res == valueToReg[inst.res[2]]
           l == GetOperand(inst.args[1])
           r == GetOperand(inst.args[2])
           x == IR!ValueIn(s, inst.args[1])
           y == IR!ValueIn(s, inst.args[2])
           value == IR!Applied(inst.op, x, y)
           text == EmitOperation(inst, AllocResult(inst.res), l, r)
<1>0. IsFunction(blocks)
  BY DEF Placed
<1>1. inst \in IRInstruction(blocks) /\ WellFormed(inst) /\ inst.res \in Temporaries \cup {IR!Null}
      /\ inst.args \in Seq(Operands) /\ DOMAIN inst.args = 1..Len(inst.args)
  BY <1>0, OperandsOf
<1>2. inst.res \in Temporaries /\ 1 \in DOMAIN inst.args /\ 2 \in DOMAIN inst.args
  <2>1. inst.op \in IR!BinaryOperators
    OBVIOUS
  <2> HIDE DEF inst
  <2>2. Len(inst.args) = 2 /\ inst.res # IR!Null
    BY <1>1, <2>1 DEF WellFormed
  <2> QED
    BY <1>1, <2>2
<1>3. inst.op # "phi"
  BY DEF IR!BinaryOperators, IR!Relations, IR!Equalities, IR!BitOperators
<1>4. AllocResult(inst.res) = res /\ res \in Registers
  BY <1>2, ResultPlace
<1>5. Holds(s, m, b, i) /\ IsMachine(m) /\ m.mode = "run"
  BY DEF Linked
<1>6. Read(m, l) = x /\ LoadSpilled(inst.args[1]) = <<>>
  BY <1>2, <1>3, <1>5, ArgumentRead
<1>7. Read(m, r) = y /\ LoadSpilled(inst.args[2]) = <<>>
  BY <1>2, <1>3, <1>5, ArgumentRead
<1>8. Avoids(l, {res})
  BY <1>2, <1>3, ArgumentAvoidsResult
<1>9. Avoids(r, {res})
  BY <1>2, <1>3, ArgumentAvoidsResult
<1>10. /\ ~Untranslated(inst)
       /\ ~ScratchTaken(inst, Living(LivingAtStarts, b, i + 1))
  BY DEF Catered
<1>11. inst.op \in {"+", "-", "*", "/"} \cup Relations
  BY <1>10 DEF Untranslated, Relations, IR!BinaryOperators, IR!Relations, IR!Equalities
<1>12. IR!Executed(s, inst) = IR!Defined(s, inst, value)
  BY DEF IR!Executed, IR!BinaryOperators, IR!Relations, IR!Equalities, IR!BitOperators
<1>13. Emit(inst, b) = text /\ IsText(text)
  BY <1>6, <1>7, <1>11, OperationEmitted
<1> DEFINE n == Ran(m, text)
<1>14. ASSUME NEW S, Changed(m, n, S \cup {res}), n.regs[res] = value, S \cap RegsOf(living) = {}
       PROVE  Linked(IR!Defined(s, inst, value), n, b, i + 1)
  <2> HIDE DEF n, value
  <2> QED
    BY <1>2, <1>3, <1>14, ResultWritten
<1> SUFFICES \E S : Changed(m, n, S \cup {res}) /\ n.regs[res] = value /\ S \cap RegsOf(living) = {}
  <2> HIDE DEF n, text, value, inst, res, living
  <2> QED
    BY <1>12, <1>13, <1>14 DEF n, inst
<1>15. CASE inst.op \in {"+", "-"}
  <2>1. text = <<Mov(res, l), <<inst.op, res, r>>>>
    <3> HIDE DEF inst, l, r
    <3> QED
      BY <1>4, <1>15, SumText
  <2> HIDE DEF res, l, r, text, inst, x, y, living
  <2>2. Changed(m, n, {res}) /\ n.regs[res] = IR!Applied(inst.op, Read(m, l), Read(m, r))
    BY <1>4, <1>5, <1>9, <1>15, <2>1, SumRan
  <2>3. Changed(m, n, {} \cup {res}) /\ n.regs[res] = value
    <3>1. {} \cup {res} = {res}
      OBVIOUS
    <3> QED
      BY <1>6, <1>7, <2>2, <3>1
  <2>4. {} \cap RegsOf(living) = {}
    OBVIOUS
  <2> HIDE DEF n, value
  <2> QED
    BY <2>3, <2>4
<1>16. CASE inst.op \in Relations
  <2>1. text = <<Mov(res, Number(0)), <<"cmp", l, r>>, <<"set", res, inst.op>>>>
    <3> HIDE DEF inst, l, r
    <3> QED
      BY <1>4, <1>16, RelationText
  <2> HIDE DEF res, l, r, text, inst, x, y, living
  <2>2. Changed(m, n, {res}) /\ n.regs[res] = IR!Applied(inst.op, Read(m, l), Read(m, r))
    BY <1>4, <1>5, <1>8, <1>9, <2>1, RelationRan
  <2>3. Changed(m, n, {} \cup {res}) /\ n.regs[res] = value
    <3>1. {} \cup {res} = {res}
      OBVIOUS
    <3> QED
      BY <1>6, <1>7, <2>2, <3>1
  <2>4. {} \cap RegsOf(living) = {}
    OBVIOUS
  <2> HIDE DEF n, value
  <2> QED
    BY <2>3, <2>4
<1>17. CASE inst.op \in {"*", "/"}
  <2>1. /\ RegsOf(living) \cap {Rax, Rdx} = {}
        /\ inst.op = "*" => RegsOf(Temps(<<inst.args[2]>>)) \cap {Rax} = {}
        /\ inst.op = "/" => RegsOf(Temps(<<inst.args[2]>>)) \cap {Rax, Rdx} = {}
    BY <1>10, <1>17 DEF ScratchTaken
  <2>2. /\ inst.args[2] \in Operands /\ <<b, i + 1>> \in IR!Positions(blocks)
        /\ Temps(<<inst.args[2]>>) \subseteq MentionedAt(<<b, i + 1>>)
    BY <1>0, <1>2, ArgumentMentioned
  <2>3. ASSUME NEW R, RegsOf(Temps(<<inst.args[2]>>)) \cap R = {} PROVE Avoids(r, R)
    <3> DEFINE p == <<b, i + 1>>
               z == inst.args[2]
    <3>1. ASSUME NEW v \in Temps(<<z>>) PROVE valueToReg[v] \notin R
      <4>1. v \in Value
        <5>1. v \in Temps(inst.args)
          BY <1>0, <1>2, ArgumentMentioned
        <5> QED
          BY <1>0, <5>1, OperandsOf
      <4>2. valueToReg[v] # NoReg
        BY <2>2, <4>1, InRegister
      <4> QED
        BY <2>3, <4>2 DEF RegsOf
    <3>2. z \in Operands /\ p \in IR!Positions(blocks) /\ Temps(<<z>>) \subseteq MentionedAt(p)
      BY <2>2
    <3> HIDE DEF z, p
    <3>3. Avoids(GetOperand(z), R)
      BY <3>1, <3>2, OperandAvoids
    <3> QED
      BY <3>3 DEF z
  <2>4. {Rax, Rdx} \cup {res} = {Rax, Rdx, res} /\ {Rax, Rdx} \cap RegsOf(living) = {}
    BY <2>1
  <2>5. CASE inst.op = "*"
    <3>1. text = <<Mov(Rax, l), <<"imul", Rax, r>>, Mov(res, Register(Rax))>>
      <4> HIDE DEF inst, l, r
      <4> QED
        BY <1>4, <2>5, ProductText
    <3>2. Avoids(r, {Rax})
      BY <2>1, <2>3, <2>5
    <3> HIDE DEF res, l, r, text, inst, x, y, living
    <3>3. Changed(m, n, {Rax, Rdx, res}) /\ n.regs[res] = IR!Applied("*", Read(m, l), Read(m, r))
      BY <1>4, <1>5, <3>1, <3>2, ProductRan
    <3>4. Changed(m, n, {Rax, Rdx} \cup {res}) /\ n.regs[res] = value
      BY <1>6, <1>7, <2>4, <2>5, <3>3
    <3> QED
      BY <2>4, <3>4
  <2>6. CASE inst.op = "/"
    <3>1. text = <<Mov(Rax, l), <<"cqo", Rdx, l>>, <<"idiv", Rax, r>>, Mov(res, Register(Rax))>>
      <4> HIDE DEF inst, l, r
      <4> QED
        BY <1>4, <2>6, QuotientText
    <3>2. Avoids(r, {Rax, Rdx})
      BY <2>1, <2>3, <2>6
    <3> HIDE DEF res, l, r, text, inst, x, y, living
    <3>3. Changed(m, n, {Rax, Rdx, res}) /\ n.regs[res] = IR!Applied("/", Read(m, l), Read(m, r))
      BY <1>4, <1>5, <3>1, <3>2, QuotientRan
    <3>4. Changed(m, n, {Rax, Rdx} \cup {res}) /\ n.regs[res] = value
      BY <1>6, <1>7, <2>4, <2>6, <3>3
    <3> QED
      BY <2>4, <3>4
  <2> QED
    BY <1>17, <2>5, <2>6
<1> QED
  BY <1>11, <1>15, <1>16, <1>17

NoLabels(x) == \A i \in 1..Len(x) : x[i][1] # "label"

LEMMA NoLabelsThen ==
  ASSUME NEW x, IsText(x), NoLabels(x), NEW y, IsText(y), NoLabels(y)
  PROVE  NoLabels(x \o y)
<1>1. PICK S : x \in Seq(S)
  BY DEF IsText
<1>2. PICK T : y \in Seq(T)
  BY DEF IsText
<1> SUFFICES ASSUME NEW i \in 1..Len(x \o y) PROVE (x \o y)[i][1] # "label"
  BY DEF NoLabels
<1>3. Len(x) \in Nat /\ Len(y) \in Nat /\ Len(x \o y) = Len(x) + Len(y)
  BY TextShape, TextThen
<1>4. CASE i \in 1..Len(x)
  <2>1. (x \o y)[i] = x[i]
    BY <1>4, TextThen
  <2> QED
    BY <1>4, <2>1 DEF NoLabels
<1>5. CASE i \notin 1..Len(x)
  <2>1. i - Len(x) \in 1..Len(y) /\ i = Len(x) + (i - Len(x))
    BY <1>3, <1>5
  <2>2. (x \o y)[i] = y[i - Len(x)]
    BY <2>1, TextThen
  <2> QED
    BY <2>1, <2>2 DEF NoLabels
<1> QED
  BY <1>4, <1>5

\* An operand as GetOperand makes them of what is in a register.
IsSource(x) == x = Number(x[2]) \/ (x = Register(x[2]) /\ x[2] \in Registers)

\* Moves, some of which may be missing: none reads what one before it has written.
Moves(seqs, J, dst, src) ==
  /\ IsText(seqs) /\ J \subseteq 1..Len(seqs)
  /\ \A k \in J : seqs[k] = <<Mov(dst[k], src[k])>> /\ dst[k] \in Registers /\ IsSource(src[k])
  /\ \A k \in 1..Len(seqs) : k \notin J => seqs[k] = <<>>
  /\ \A j, k \in J : j < k => src[k] # Register(dst[j])

\* After them the registers have what was to be moved, unless a later one writes
\* there.
Moved(m, n, J, dst, src) ==
  /\ Changed(m, n, {dst[k] : k \in J})
  /\ \A k \in J : (\A j \in J : k < j => dst[j] # dst[k]) => n.regs[dst[k]] = Read(m, src[k])

LEMMA MovesRan ==
  ASSUME NEW seqs, NEW J, NEW dst, NEW src, Moves(seqs, J, dst, src),
         NEW m, IsMachine(m), m.mode = "run"
  PROVE  /\ IsText(FlattenSeq(seqs)) /\ NoLabels(FlattenSeq(seqs))
         /\ Moved(m, Ran(m, FlattenSeq(seqs)), J, dst, src)
<1> DEFINE N == Len(seqs)
<1>1. IsText(seqs) /\ N \in Nat
  BY TextShape DEF Moves
<1>2. \A k \in 1..N : IsText(seqs[k])
  BY ShortTexts DEF Moves
<1>3. PICK F : Joins(F, seqs) /\ FlattenSeq(seqs) = F[N]
  BY <1>1, <1>2, FlattenJoins
<1>4. /\ F[0] = <<>>
      /\ \A k \in 1..N : F[k] = F[k - 1] \o seqs[k]
      /\ \A k \in 0..N : IsText(F[k])
  BY <1>3 DEF Joins
<1>5. J \subseteq 1..N
  BY DEF Moves
<1> HIDE DEF N
<1> DEFINE Upto(k) == {j \in J : j <= k}
           Good == {k \in Nat : k <= N => /\ NoLabels(F[k])
                                          /\ Moved(m, Ran(m, F[k]), Upto(k), dst, src)}
<1>6. 0 \in Good
  <2>1. Upto(0) = {}
    <3>1. \A j \in J : ~(j <= 0)
      BY <1>1, <1>5
    <3> QED
      BY <3>1
  <2>2. Ran(m, F[0]) = m
    BY <1>4, RanNothing
  <2>3. Moved(m, m, {}, dst, src)
    BY DEF Moved, Changed
  <2>4. NoLabels(F[0])
    BY <1>4 DEF NoLabels
  <2> HIDE DEF Upto
  <2> QED
    BY <2>1, <2>2, <2>3, <2>4
<1>7. ASSUME NEW k \in Nat, k \in Good PROVE k + 1 \in Good
  <2> SUFFICES ASSUME k + 1 <= N
               PROVE  NoLabels(F[k + 1]) /\ Moved(m, Ran(m, F[k + 1]), Upto(k + 1), dst, src)
    OBVIOUS
  <2> DEFINE g == k + 1
             n == Ran(m, F[k])
  <2>1. g \in 1..N /\ g - 1 = k /\ k \in 0..N
    BY <1>1
  <2>2. NoLabels(F[k]) /\ Moved(m, n, Upto(k), dst, src)
    BY <1>1, <1>7
  <2>3. F[g] = F[k] \o seqs[g]
    BY <1>4, <2>1
  <2>4. IsText(F[k]) /\ IsText(seqs[g])
    BY <1>2, <1>4, <2>1
  <2>5. Ran(m, F[g]) = Ran(n, seqs[g])
    BY <2>3, <2>4, RanThen
  <2>6. IsMachine(n) /\ n.mode = "run"
    BY <2>2 DEF Moved, Changed
  <2>7. \A j \in J : j <= g <=> j <= k \/ j = g
    BY <1>5, <2>1
  <2> HIDE DEF g, n
  <2>8. CASE g \notin J
    <3>1. seqs[g] = <<>>
      BY <2>1, <2>8 DEF Moves, N
    <3>2. Upto(g) = Upto(k)
      BY <2>7, <2>8
    <3>3. Ran(m, F[g]) = n
      BY <2>5, <3>1, RanNothing
    <3>4. NoLabels(F[g])
      <4>1. NoLabels(<<>>)
        BY DEF NoLabels
      <4> QED
        BY <2>2, <2>3, <2>4, <3>1, <4>1, NoLabelsThen
    <3> HIDE DEF Upto
    <3> QED
      BY <2>2, <3>2, <3>3, <3>4 DEF g
  <2>9. CASE g \in J
    <3> DEFINE d == dst[g]
               x == src[g]
               p == Write(n, d, Read(n, x))
    <3>1. seqs[g] = <<Mov(d, x)>> /\ d \in Registers /\ IsSource(x)
      BY <2>9 DEF Moves
    <3>2. Ran(n, seqs[g]) = p
      <4> DEFINE a == Mov(d, x)
      <4>1. Step(n, a) = p
        BY <2>6, MovStep
      <4>2. seqs[g] = <<a>>
        BY <3>1
      <4> HIDE DEF a, p
      <4> QED
        BY <4>1, <4>2, RanOne
    <3>3. Changed(n, p, {d}) /\ p.regs[d] = Read(n, x)
      BY <2>6, <3>1, WriteChanges
    <3>4. Read(n, x) = Read(m, x)
      <4>1. \A j \in Upto(k) : x # Register(dst[j])
        <5> SUFFICES ASSUME NEW j \in J, j <= k PROVE x # Register(dst[j])
          OBVIOUS
        <5>1. j < g
          BY <1>5, <2>1
        <5> QED
          BY <2>9, <5>1 DEF Moves
      <4> DEFINE R == {dst[j] : j \in Upto(k)}
      <4>2. Avoids(x, R)
        <5>1. CASE x = Number(x[2])
          <6>1. x[1] = "number"
            BY <5>1 DEF Number
          <6> QED
            BY <6>1 DEF Avoids
        <5>2. CASE x = Register(x[2]) /\ x[2] \in Registers
          <6>1. x[1] = "register"
            BY <5>2 DEF Register
          <6>2. x[2] \notin R
            BY <4>1, <5>2
          <6> QED
            BY <5>2, <6>1, <6>2 DEF Avoids
        <5> QED
          BY <3>1, <5>1, <5>2 DEF IsSource
      <4>3. Changed(m, n, R)
        BY <2>2 DEF Moved
      <4> HIDE DEF R, x
      <4> QED
        BY <4>2, <4>3, ReadKept
    <3> HIDE DEF p, x
    <3>5. Changed(m, p, {dst[j] : j \in Upto(g)})
      <4>1. Changed(m, p, {dst[j] : j \in Upto(k)} \cup {d})
        <5> DEFINE R == {dst[j] : j \in Upto(k)}
        <5>1. Changed(m, n, R)
          BY <2>2 DEF Moved
        <5> DEFINE D == {d}
        <5>2. Changed(n, p, D)
          BY <3>3
        <5> HIDE DEF R, D
        <5>3. Changed(m, p, R \cup D)
          BY <5>1, <5>2, ChangedTwice
        <5> QED
          BY <5>3 DEF R, D
      <4>2. {dst[j] : j \in Upto(g)} = {dst[j] : j \in Upto(k)} \cup {d}
        <5>1. Upto(g) = Upto(k) \cup {g}
          BY <2>7, <2>9
        <5> HIDE DEF Upto
        <5> QED
          BY <5>1
      <4> QED
        BY <4>1, <4>2
    <3>6. ASSUME NEW j \in Upto(g), \A i \in Upto(g) : j < i => dst[i] # dst[j]
          PROVE  p.regs[dst[j]] = Read(m, src[j])
      <4>1. CASE j = g
        BY <3>3, <3>4, <4>1 DEF x
      <4>2. CASE j # g
        <5>1. j \in Upto(k) /\ j < g /\ g \in Upto(g) /\ j \in J
          BY <1>5, <2>1, <2>7, <2>9, <4>2
        <5>2. dst[g] # dst[j]
          BY <3>6, <5>1
        <5>3. \A i \in Upto(k) : i \in Upto(g)
          BY <2>7
        <5>4. n.regs[dst[j]] = Read(m, src[j])
          <6> HIDE DEF Upto
          <6> QED
            BY <2>2, <3>6, <5>1, <5>3 DEF Moved
        <5>5. dst[j] \in Registers
          BY <5>1 DEF Moves
        <5> QED
          BY <3>3, <5>2, <5>4, <5>5 DEF Changed
      <4> QED
        BY <4>1, <4>2
    <3>7. NoLabels(F[g])
      <4>1. NoLabels(seqs[g])
        <5> DEFINE a == Mov(d, x)
        <5>1. a[1] = "mov"
          BY DEF Mov
        <5>2. seqs[g] = <<a>>
          BY <3>1 DEF x
        <5> HIDE DEF a
        <5>3. Len(<<a>>) = 1 /\ <<a>>[1] = a
          OBVIOUS
        <5> QED
          BY <5>1, <5>2, <5>3 DEF NoLabels
      <4> QED
        BY <2>2, <2>3, <2>4, <4>1, NoLabelsThen
    <3>8. Moved(m, p, Upto(g), dst, src)
      <4> HIDE DEF Upto
      <4> QED
        BY <3>5, <3>6 DEF Moved
    <3> HIDE DEF Upto
    <3> QED
      BY <2>5, <3>2, <3>7, <3>8 DEF g
  <2> QED
    BY <2>8, <2>9
<1>8. \A k \in Nat : k \in Good
  <2>1. 1 \in Nat \ {0}
    OBVIOUS
  <2> HIDE DEF Good
  <2> QED
    BY <1>6, <1>7, <2>1, Paths!CountingUp
<1>9. NoLabels(F[N]) /\ Moved(m, Ran(m, F[N]), Upto(N), dst, src)
  BY <1>1, <1>8
<1>10. Upto(N) = J
  <2>1. \A j \in J : j <= N
    BY <1>1, <1>5
  <2> QED
    BY <2>1
<1>11. IsText(F[N])
  BY <1>1, <1>4
<1> HIDE DEF Upto
<1> QED
  BY <1>3, <1>9, <1>10, <1>11

\* Behind another instruction there is no leading phi node.
LEMMA PastPhis ==
  ASSUME IsFunction(blocks), NEW b \in Block, NEW i \in DOMAIN blocks[b].code,
         blocks[b].code[i].op # "phi", NEW j \in LeadingPhis(b), i <= j
  PROVE  FALSE
<1>1. \A k \in 1..j : blocks[b].code[k].op = "phi"
  BY DEF LeadingPhis
<1>2. j \in Nat /\ i \in Nat \ {0}
  BY FunctionShape DEF LeadingPhis, Block
<1>3. i \in 1..j
  BY <1>2
<1> QED
  BY <1>1, <1>3

\* So does a negation.
LEMMA NegationLinked ==
  ASSUME Placed, NEW b \in Block, NEW i \in Nat, i + 1 \in DOMAIN blocks[b].code, Catered(b),
         blocks[b].code[i + 1].op = "not",
         NEW s, NEW m, Linked(s, m, b, i), Truthful(s), s.mode = "run"
  PROVE  LET inst == blocks[b].code[i + 1]
         IN /\ IsText(Emit(inst, b))
            /\ Linked(IR!Executed(s, inst), Ran(m, Emit(inst, b)), b, i + 1)
<1> DEFINE inst == blocks[b].code[i + 1]
           living == Living(LivingAtStarts, b, i + 1) \ Result(inst)
           res == valueToReg[inst.res[2]]
           l == GetOperand(inst.args[1])
           x == IR!ValueIn(s, inst.args[1])
           value == IR!Negated(x)
           text == <<Mov(res, l), <<"flip", res>>>>
           n == Ran(m, text)
<1>0. IsFunction(blocks)
  BY DEF Placed
<1>1. inst \in IRInstruction(blocks) /\ WellFormed(inst) /\ inst.res \in Temporaries \cup {IR!Null}
      /\ inst.args \in Seq(Operands) /\ DOMAIN inst.args = 1..Len(inst.args)
  BY <1>0, OperandsOf
<1>2. inst.res \in Temporaries /\ DOMAIN inst.args = {1}
  <2>1. inst.op = "not"
    OBVIOUS
  <2> HIDE DEF inst
  <2>2. Len(inst.args) = 1 /\ inst.res # IR!Null
    BY <1>1, <2>1 DEF WellFormed
  <2> QED
    BY <1>1, <2>2
<1>3. inst.op # "phi" /\ 1 \in DOMAIN inst.args
  BY <1>2
<1>4. AllocResult(inst.res) = res /\ res \in Registers
  BY <1>2, ResultPlace
<1>5. Holds(s, m, b, i) /\ IsMachine(m) /\ m.mode = "run"
  BY DEF Linked
<1>6. Read(m, l) = x /\ LoadSpilled(inst.args[1]) = <<>>
  BY <1>3, <1>5, ArgumentRead
<1>7. ~Untranslated(inst)
  BY DEF Catered
<1>8. x \in {0, 1, IR!Undefined}
  <2>1. Temps(inst.args) # {} /\ Temps(inst.args) \subseteq Truths
    BY <1>7 DEF Untranslated
  <2> HIDE DEF inst
  <2>2. PICK v \in Temps(inst.args) : v \in Truths
    BY <2>1
  <2>3. PICK k \in DOMAIN inst.args : inst.args[k][1] = "temp" /\ v = inst.args[k][2]
    BY TempsOf
  <2>4. k = 1
    BY <1>2
  <2>5. x = s.env[v]
    BY <2>3, <2>4 DEF IR!ValueIn
  <2> QED
    BY <2>2, <2>5 DEF Truthful
<1>9. Flipped(x) = value
  BY <1>8 DEF Flipped, IR!Negated, IR!Truth, IR!Undefined
<1>10. IR!Executed(s, inst) = IR!Defined(s, inst, value)
  BY DEF IR!Executed, IR!BinaryOperators, IR!Relations, IR!Equalities, IR!BitOperators
<1>11. Emit(inst, b) = text /\ IsText(text)
  <2>1. Emit(inst, b) = EmitNot(inst)
    BY DEF Emit, IR!BinaryOperators, IR!Relations, IR!Equalities, IR!BitOperators
  <2>2. EmitNot(inst) = <<>> \o text
    BY <1>4, <1>6 DEF EmitNot
  <2>3. IsText(text)
    BY ShortTexts
  <2> HIDE DEF text
  <2> QED
    BY <2>1, <2>2, <2>3, NothingBefore
<1>12. Changed(m, n, {res}) /\ n.regs[res] = Flipped(Read(m, l))
  <2> HIDE DEF res, l
  <2> QED
    BY <1>4, <1>5, NegationRan
<1>13. ASSUME NEW S, Changed(m, n, S \cup {res}), n.regs[res] = value, S \cap RegsOf(living) = {}
       PROVE  Linked(IR!Defined(s, inst, value), n, b, i + 1)
  <2> HIDE DEF n, value
  <2> QED
    BY <1>2, <1>3, <1>13, ResultWritten
<1>14. n.regs[res] = value
  BY <1>6, <1>9, <1>12
<1> HIDE DEF n, text, value, inst, res, living
<1>15. Changed(m, n, {} \cup {res}) /\ {} \cap RegsOf(living) = {}
  <2>1. {} \cup {res} = {res}
    OBVIOUS
  <2> QED
    BY <1>12, <2>1
<1>16. Linked(IR!Defined(s, inst, value), n, b, i + 1)
  BY <1>13, <1>14, <1>15
<1> QED
  BY <1>10, <1>11, <1>16 DEF n, inst

\* A label does nothing and emits nothing.
LEMMA LabelLinked ==
  ASSUME Placed, NEW b \in Block, NEW i \in Nat, i + 1 \in DOMAIN blocks[b].code,
         blocks[b].code[i + 1].op = "label",
         NEW s, NEW m, Linked(s, m, b, i), s.mode = "run"
  PROVE  LET inst == blocks[b].code[i + 1]
         IN /\ IsText(Emit(inst, b))
            /\ Linked(IR!Executed(s, inst), Ran(m, Emit(inst, b)), b, i + 1)
<1> DEFINE inst == blocks[b].code[i + 1]
<1>0. IsFunction(blocks)
  BY DEF Placed
<1>1. Emit(inst, b) = <<>>
  BY DEF Emit, IR!BinaryOperators, IR!Relations, IR!Equalities, IR!BitOperators
<1>2. IR!Executed(s, inst) = s
  BY DEF IR!Executed, IR!BinaryOperators, IR!Relations, IR!Equalities, IR!BitOperators
<1>3. Result(inst) = {}
  <2>1. WellFormed(inst) /\ (inst.res = IR!Null => Result(inst) = {})
    BY <1>0, OperandsOf
  <2>2. inst.res = IR!Null
    BY <2>1 DEF WellFormed, IR!BinaryOperators, IR!Relations, IR!Equalities, IR!BitOperators
  <2> QED
    BY <2>1, <2>2
<1>4. Living(LivingAtStarts, b, i + 1) \subseteq Living(LivingAtStarts, b, i)
  BY <1>0, <1>3, LivingStep
<1>5. Holds(s, m, b, i + 1)
  <2>1. ASSUME NEW j \in LeadingPhis(b), i + 1 < j PROVE FALSE
    <3>1. i + 1 <= j
      BY <1>0, <2>1, FunctionShape DEF LeadingPhis, Block
    <3> QED
      BY <1>0, <3>1, PastPhis
  <2> QED
    BY <1>4, <2>1 DEF Linked, Holds
<1>6. Linked(s, m, b, i + 1)
  BY <1>5 DEF Linked
<1>7. Ran(m, <<>>) = m
  BY RanNothing
<1> HIDE DEF inst
<1> QED
  BY <1>1, <1>2, <1>6, <1>7, ShortTexts DEF inst

\* A leading phi node emits nothing: its value is in its register already.
LEMMA PhiLinked ==
  ASSUME Placed, NEW b \in Block, NEW i \in Nat, i + 1 \in DOMAIN blocks[b].code, Catered(b),
         blocks[b].code[i + 1].op = "phi",
         NEW s, NEW m, Linked(s, m, b, i), s.mode = "run"
  PROVE  LET inst == blocks[b].code[i + 1]
         IN /\ IsText(Emit(inst, b))
            /\ Linked(IR!Executed(s, inst), Ran(m, Emit(inst, b)), b, i + 1)
<1> DEFINE inst == blocks[b].code[i + 1]
           value == IR!IncomingFrom(s, inst)
           t == IR!Defined(s, inst, value)
           w == inst.res[2]
<1>0. IsFunction(blocks) /\ i + 1 \in LeadingPhis(b)
  BY DEF Placed, Catered
<1>1. Emit(inst, b) = <<>>
  BY DEF Emit, IR!BinaryOperators, IR!Relations, IR!Equalities, IR!BitOperators
<1>2. IR!Executed(s, inst) = t
  BY DEF IR!Executed, IR!BinaryOperators, IR!Relations, IR!Equalities, IR!BitOperators
<1>3. inst.res \in Temporaries
  <2>1. WellFormed(inst) /\ inst.res \in Temporaries \cup {IR!Null}
    BY <1>0, OperandsOf
  <2> QED
    BY <2>1 DEF WellFormed
<1>4. w \in Value /\ Result(inst) = {w}
  BY <1>0, <1>3, OperandsOf, TemporaryShape
<1>5. IsState(s) /\ Holds(s, m, b, i)
  BY DEF Linked
<1>6. /\ IsState(t) /\ t.env[w] = value
      /\ t.mode = s.mode /\ t.calls = s.calls /\ t.answers = s.answers
      /\ t.from = s.from /\ t.entry = s.entry
  <2> HIDE DEF inst
  <2> QED
    BY <1>3, <1>5, DefinedKeeps
<1>7. ASSUME NEW v \in Value, v # w PROVE t.env[v] = s.env[v]
  <2> DEFINE u == w
  <2>1. inst.res[2] = u /\ v # u
    BY <1>7
  <2> HIDE DEF u
  <2>2. v # inst.res[2]
    BY <2>1
  <2> HIDE DEF w, inst, value
  <2> QED
    BY <1>3, <1>5, <2>2, DefinedElsewhere
<1> HIDE DEF t
<1>8. ASSUME NEW v \in Living(LivingAtStarts, b, i + 1), valueToReg[v] # NoReg
      PROVE  m.regs[valueToReg[v]] = t.env[v]
  <2>1. CASE v = w
    <3>1. i < i + 1
      OBVIOUS
    <3>2. v \in Result(inst) \cap Living(LivingAtStarts, b, i + 1)
      BY <1>4, <1>8, <2>1
    <3>3. m.regs[valueToReg[v]] = value
      BY <1>0, <1>5, <3>1, <3>2 DEF Holds
    <3> QED
      BY <1>6, <2>1, <3>3
  <2>2. CASE v # w
    <3>1. v \in Living(LivingAtStarts, b, i) /\ v \in Value
      BY <1>0, <1>4, <2>2, LivingStep DEF Living, UsedAfter, KeptAfter
    <3> QED
      BY <1>5, <1>7, <1>8, <2>2, <3>1 DEF Holds
  <2> QED
    BY <2>1, <2>2
<1>9. \A phi : IR!IncomingFrom(t, phi) = IR!IncomingFrom(s, phi)
  <2> SUFFICES ASSUME NEW phi PROVE IR!IncomingFrom(t, phi) = IR!IncomingFrom(s, phi)
    OBVIOUS
  <2> DEFINE x == phi.args[IR!EntryFor(phi, s.from)]
             e == [s EXCEPT !.env = s.entry]
             f == [t EXCEPT !.env = s.entry]
  <2>1. e.env = s.entry /\ f.env = s.entry
    BY <1>5, <1>6 DEF IsState
  <2>2. IR!IncomingFrom(s, phi)
           = IF s.from \in IR!ToSet(phi.from) THEN IR!ValueIn(e, x) ELSE IR!Undefined
    BY DEF IR!IncomingFrom
  <2>3. IR!IncomingFrom(t, phi)
           = IF s.from \in IR!ToSet(phi.from) THEN IR!ValueIn(f, x) ELSE IR!Undefined
    BY <1>6 DEF IR!IncomingFrom
  <2> HIDE DEF e, f, x
  <2>4. IR!ValueIn(e, x) = IR!ValueIn(f, x)
    BY <2>1 DEF IR!ValueIn
  <2> QED
    BY <2>2, <2>3, <2>4
<1>10. Holds(t, m, b, i + 1)
  <2>1. ASSUME NEW j \in LeadingPhis(b), i + 1 < j,
               NEW v \in Result(blocks[b].code[j]) \cap Living(LivingAtStarts, b, j)
        PROVE  m.regs[valueToReg[v]] = IR!IncomingFrom(t, blocks[b].code[j])
    <3>1. i < j
      BY <1>0, <2>1, FunctionShape DEF LeadingPhis, Block
    <3> QED
      BY <1>5, <1>9, <3>1 DEF Holds
  <2> QED
    BY <1>8, <2>1 DEF Holds
<1>11. Linked(t, m, b, i + 1)
  BY <1>6, <1>10 DEF Linked
<1>12. Ran(m, <<>>) = m
  BY RanNothing
<1> HIDE DEF inst
<1> QED
  BY <1>1, <1>2, <1>11, <1>12, ShortTexts DEF inst

\* A return leaves the value in the register for it.
LEMMA ReturnLinked ==
  ASSUME Placed, NEW b \in Block, NEW i \in Nat, i + 1 \in DOMAIN blocks[b].code,
         blocks[b].code[i + 1].op = "ret",
         NEW s, NEW m, Linked(s, m, b, i), s.mode = "run"
  PROVE  LET inst == blocks[b].code[i + 1]
         IN /\ IsText(Emit(inst, b))
            /\ Linked(IR!Executed(s, inst), Ran(m, Emit(inst, b)), b, i + 1)
<1> DEFINE inst == blocks[b].code[i + 1]
           l == GetOperand(inst.args[1])
           x == IR!ValueIn(s, inst.args[1])
           value == IF inst.args = <<>> THEN IR!Undefined ELSE x
           t == [s EXCEPT !.mode = "done", !.val = value]
           n == Ran(m, Emit(inst, b))
<1>0. IsFunction(blocks)
  BY DEF Placed
<1>1. inst.args \in Seq(Operands) /\ DOMAIN inst.args = 1..Len(inst.args)
  BY <1>0, OperandsOf
<1>2. IR!Executed(s, inst) = t
  BY DEF IR!Executed, IR!BinaryOperators, IR!Relations, IR!Equalities, IR!BitOperators
<1>3. Emit(inst, b) = EmitRet(inst)
  BY DEF Emit, IR!BinaryOperators, IR!Relations, IR!Equalities, IR!BitOperators
<1>4. Holds(s, m, b, i) /\ IsMachine(m) /\ m.mode = "run" /\ IsState(s)
      /\ m.calls = s.calls /\ m.answers = s.answers
  BY DEF Linked
<1>6. IsState(t) /\ t.mode = "done" /\ t.val = value /\ t.calls = s.calls /\ t.answers = s.answers
  <2>1. t = [s EXCEPT !.mode = "done", !.val = value]
    OBVIOUS
  <2> HIDE DEF value, t
  <2>2. t.mode = "done" /\ t.val = value /\ t.calls = s.calls /\ t.answers = s.answers /\ t.env = s.env
    BY <1>4, <2>1 DEF IsState
  <2>3. IsState(t)
    BY <1>4, <2>1, <2>2 DEF IsState
  <2> QED
    BY <2>2, <2>3
<1>7. CASE inst.args = <<>>
  <2> DEFINE a == <<"ret", FALSE>>
             u == [m EXCEPT !.mode = "done", !.val = IR!Undefined]
  <2>1. EmitRet(inst) = <<a>>
    BY <1>7 DEF EmitRet
  <2>2. Step(m, a) = u
    BY <1>4, RetStep
  <2> HIDE DEF a, u
  <2>3. n = u
    BY <1>3, <2>1, <2>2, RanOne
  <2>4. IsText(<<a>>)
    BY ShortTexts
  <2>5. IsMachine(u) /\ u.mode = "done" /\ u.val = value /\ u.calls = s.calls /\ u.answers = s.answers
    <3>1. value = IR!Undefined
      BY <1>7
    <3>2. u = [m EXCEPT !.mode = "done", !.val = value]
      BY <3>1 DEF u
    <3> HIDE DEF value
    <3>3. u.mode = "done" /\ u.val = value /\ u.calls = m.calls /\ u.answers = m.answers /\ u.regs = m.regs
      BY <1>4, <3>2 DEF IsMachine
    <3>4. IsMachine(u)
      BY <1>4, <3>2, <3>3 DEF IsMachine
    <3> QED
      BY <1>4, <3>3, <3>4
  <2> HIDE DEF t, n, value
  <2>6. Linked(t, n, b, i + 1)
    BY <1>6, <2>3, <2>5 DEF Linked
  <2> HIDE DEF inst
  <2> QED
    BY <1>2, <1>3, <2>1, <2>4, <2>6 DEF inst, n
<1>8. CASE inst.args # <<>>
  <2>1. 1 \in DOMAIN inst.args
    <3> HIDE DEF inst
    <3> QED
      BY <1>1, <1>8
  <2>2. Read(m, l) = x /\ LoadSpilled(inst.args[1]) = <<>>
    BY <1>4, <2>1, ArgumentRead
  <2> DEFINE a == Mov(Rax, l)
             c == <<"ret", TRUE>>
             q == Write(m, Rax, Read(m, l))
             u == [q EXCEPT !.mode = "done", !.val = q.regs[Rax]]
  <2>3. EmitRet(inst) = <<>> \o <<a, c>>
    BY <1>8, <2>2 DEF EmitRet
  <2>4. Step(m, a) = q
    BY <1>4, MovStep
  <2>5. Changed(m, q, {Rax}) /\ q.regs[Rax] = x
    <3>1. Rax \in Registers
      BY DEF Rax, Registers
    <3> HIDE DEF l, x
    <3> QED
      BY <1>4, <2>2, <3>1, WriteChanges
  <2> HIDE DEF q, a
  <2>6. IsMachine(q) /\ q.mode = "run" /\ q.calls = s.calls /\ q.answers = s.answers
    BY <1>4, <2>5 DEF Changed
  <2>7. Step(q, c) = u
    BY <2>6, RetStep
  <2> HIDE DEF c
  <2>8. IsText(<<a, c>>)
    BY ShortTexts
  <2>9. Emit(inst, b) = <<a, c>>
    BY <1>3, <2>3, <2>8, NothingBefore
  <2>10. n = u
    BY <2>4, <2>7, <2>9, RanTwo
  <2>11. IsMachine(u) /\ u.mode = "done" /\ u.val = value /\ u.calls = s.calls /\ u.answers = s.answers
    <3> DEFINE y == q.regs[Rax]
    <3>1. y = value
      BY <1>8, <2>5
    <3>2. u = [q EXCEPT !.mode = "done", !.val = value]
      BY <3>1
    <3> HIDE DEF u, value
    <3>3. u.mode = "done" /\ u.val = value /\ u.calls = q.calls /\ u.answers = q.answers /\ u.regs = q.regs
      BY <2>6, <3>2 DEF IsMachine
    <3>4. IsMachine(u)
      BY <2>6, <3>2, <3>3 DEF IsMachine
    <3> QED
      BY <2>6, <3>3, <3>4
  <2> HIDE DEF t, n, value, u
  <2>12. Linked(t, n, b, i + 1)
    BY <1>6, <2>10, <2>11 DEF Linked
  <2> HIDE DEF inst
  <2> QED
    BY <1>2, <2>8, <2>9, <2>12 DEF inst, n
<1> QED
  BY <1>7, <1>8

\* The registers of the arguments are six.
LEMMA ArgumentRegisters ==
  /\ Len(ArgRegs) = 6
  /\ \A k \in 1..6 : ArgRegs[k] \in Registers
  /\ \A j, k \in 1..6 : ArgRegs[j] = ArgRegs[k] => j = k
BY DEF ArgRegs, Registers

\* The registers for arguments hold what the call is given.
ArgumentsPassed(s, n, inst) ==
  \A k \in DOMAIN inst.args : n.regs[ArgRegs[k]] = IR!ValueIn(s, inst.args[k])

\* The arguments of a call are in their registers.
LEMMA ArgumentsMoved ==
  ASSUME Placed, NEW b \in Block, NEW i \in Nat, i + 1 \in DOMAIN blocks[b].code,
         blocks[b].code[i + 1].op = "call", ~ArgumentOverwritten(blocks[b].code[i + 1]),
         NEW s, NEW m, Holds(s, m, b, i), IsMachine(m), m.mode = "run"
  PROVE  LET inst == blocks[b].code[i + 1]
             text == FlattenSeq([k \in DOMAIN inst.args |-> ArgMove(inst, k)])
             n == Ran(m, text)
         IN /\ IsText(text) /\ IsMachine(n)
            /\ n.mode = "run" /\ n.calls = m.calls /\ n.answers = m.answers
            /\ Len(inst.args) <= 6
            /\ ArgumentsPassed(s, n, inst)
<1> DEFINE inst == blocks[b].code[i + 1]
           seqs == [k \in DOMAIN inst.args |-> ArgMove(inst, k)]
           J == DOMAIN inst.args
           src == [k \in J |-> GetOperand(inst.args[k])]
           text == FlattenSeq(seqs)
           n == Ran(m, text)
<1>0. IsFunction(blocks)
  BY DEF Placed
<1>1. Len(inst.args) \in Nat /\ J = 1..Len(inst.args)
  BY <1>0, OperandsOf
<1>2. /\ Len(inst.args) <= 6
      /\ \A j, k \in J : j < k => src[k] # Register(ArgRegs[j])
  BY <1>1, ArgumentRegisters DEF ArgumentOverwritten
<1>3. ASSUME NEW k \in J
      PROVE  /\ k \in 1..6 /\ ArgRegs[k] \in Registers /\ IsSource(src[k])
             /\ seqs[k] = <<Mov(ArgRegs[k], src[k])>>
             /\ Read(m, src[k]) = IR!ValueIn(s, inst.args[k])
  <2> DEFINE x == inst.args[k]
             p == <<b, i + 1>>
  <2>1. k \in 1..6
    BY <1>1, <1>2
  <2>2. LoadSpilled(x) = <<>> /\ Read(m, src[k]) = IR!ValueIn(s, x)
    BY ArgumentRead
  <2>3. /\ x \in Operands /\ p \in IR!Positions(blocks) /\ Temps(<<x>>) \subseteq MentionedAt(p)
    BY <1>0, ArgumentMentioned
  <2> HIDE DEF x, p
  <2>4. \/ GetOperand(x) = Number(x[2])
        \/ GetOperand(x) = Register(valueToReg[x[2]]) /\ valueToReg[x[2]] \in Registers
    BY <2>3, OperandPlace
  <2>5. IsSource(GetOperand(x))
    BY <2>4 DEF IsSource, Number, Register
  <2>6. seqs[k] = <<>> \o <<Mov(ArgRegs[k], GetOperand(x))>>
    <3>1. ~(k > Len(ArgRegs))
      BY <2>1, ArgumentRegisters
    <3> QED
      BY <2>2, <3>1 DEF ArgMove, x
  <2>7. <<>> \o <<Mov(ArgRegs[k], GetOperand(x))>> = <<Mov(ArgRegs[k], GetOperand(x))>>
    <3> DEFINE a == Mov(ArgRegs[k], GetOperand(x))
    <3> HIDE DEF a
    <3>1. <<>> \o <<a>> = <<a>>
      BY ShortTexts, NothingBefore
    <3> QED
      BY <3>1 DEF a
  <2>8. src[k] = GetOperand(x)
    BY DEF x
  <2> HIDE DEF seqs, src
  <2> QED
    BY <2>1, <2>2, <2>5, <2>6, <2>7, <2>8, ArgumentRegisters DEF x
<1>4. IsText(seqs) /\ Len(seqs) = Len(inst.args)
  <2> DEFINE T == {seqs[k] : k \in J}
             len == Len(inst.args)
  <2>1. seqs \in [1..len -> T] /\ len \in Nat
    BY <1>1
  <2> HIDE DEF T, seqs, len
  <2>2. seqs \in Seq(T) /\ Len(seqs) = len
    BY <2>1
  <2> QED
    BY <2>2 DEF IsText, len
<1>5. Moves(seqs, J, ArgRegs, src)
  <2> HIDE DEF seqs, src
  <2> QED
    BY <1>1, <1>2, <1>3, <1>4 DEF Moves
<1> HIDE DEF seqs, src
<1>6. IsText(text) /\ Moved(m, n, J, ArgRegs, src)
  BY <1>5, MovesRan
<1> HIDE DEF n, text
<1>7. ASSUME NEW k \in J PROVE n.regs[ArgRegs[k]] = IR!ValueIn(s, inst.args[k])
  <2>1. \A j \in J : k < j => ArgRegs[j] # ArgRegs[k]
    <3> SUFFICES ASSUME NEW j \in J, k < j, ArgRegs[j] = ArgRegs[k] PROVE FALSE
      OBVIOUS
    <3>1. j \in 1..6 /\ k \in 1..6
      BY <1>3
    <3> QED
      BY <3>1, ArgumentRegisters
  <2>2. n.regs[ArgRegs[k]] = Read(m, src[k])
    BY <1>6, <2>1 DEF Moved
  <2> QED
    BY <1>3, <2>2
<1>8. IsMachine(n) /\ n.mode = "run" /\ n.calls = m.calls /\ n.answers = m.answers
  BY <1>6 DEF Moved, Changed
<1>9. ArgumentsPassed(s, n, inst)
  BY <1>7 DEF ArgumentsPassed
<1> QED
  BY <1>2, <1>6, <1>8, <1>9 DEF n, text, seqs

\* A call is made with the same arguments, and its answer arrives in the register of the
\* result.
LEMMA CallLinked ==
  ASSUME Placed, NEW b \in Block, NEW i \in Nat, i + 1 \in DOMAIN blocks[b].code, Catered(b),
         blocks[b].code[i + 1].op = "call",
         NEW s, NEW m, Linked(s, m, b, i), s.mode = "run"
  PROVE  LET inst == blocks[b].code[i + 1]
         IN /\ IsText(Emit(inst, b))
            /\ Linked(IR!Executed(s, inst), Ran(m, Emit(inst, b)), b, i + 1)
<1> DEFINE inst == blocks[b].code[i + 1]
           moves == FlattenSeq([k \in DOMAIN inst.args |-> ArgMove(inst, k)])
           w == inst.res[2]
           res == valueToReg[w]
           len == Len(inst.args)
           call == <<"call", inst.callee, len>>
           mov == Mov(AllocResult(inst.res), Register(Rax))
           k == Ran(m, moves)
           n == Ran(m, Emit(inst, b))
           t == IR!Executed(s, inst)
<1>0. IsFunction(blocks)
  BY DEF Placed
<1>1. WellFormed(inst) /\ inst.res \in Temporaries \cup {IR!Null} /\ len \in Nat /\ DOMAIN inst.args = 1..len
  BY <1>0, OperandsOf
<1>2. inst.res \in Temporaries
  BY <1>1 DEF WellFormed
<1>3. w \in Value /\ Result(inst) = {w} /\ AllocResult(inst.res) = res /\ res \in Registers
  BY <1>2, ResultPlace
<1>4. /\ ~ArgumentOverwritten(inst) /\ ~LostInCall(inst, Living(LivingAtStarts, b, i + 1))
  BY DEF Catered
<1>5. /\ Holds(s, m, b, i) /\ IsMachine(m) /\ m.mode = "run" /\ IsState(s)
      /\ m.calls = s.calls /\ m.answers = s.answers
  BY DEF Linked
<1>6. /\ IsText(moves) /\ IsMachine(k) /\ k.mode = "run" /\ k.calls = s.calls /\ k.answers = s.answers
      /\ len <= 6
      /\ \A a \in DOMAIN inst.args : k.regs[ArgRegs[a]] = IR!ValueIn(s, inst.args[a])
  <2>1. inst.op = "call" /\ ~ArgumentOverwritten(inst) /\ Holds(s, m, b, i) /\ IsMachine(m) /\ m.mode = "run"
    BY <1>4, <1>5
  <2>2. /\ IsText(moves) /\ IsMachine(k) /\ k.mode = "run" /\ k.calls = m.calls /\ k.answers = m.answers
        /\ len <= 6 /\ ArgumentsPassed(s, k, inst)
    BY <2>1, ArgumentsMoved
  <2>3. \A a \in DOMAIN inst.args : k.regs[ArgRegs[a]] = IR!ValueIn(s, inst.args[a])
    BY <2>2 DEF ArgumentsPassed
  <2> QED
    BY <1>5, <2>2, <2>3
<1>7. Emit(inst, b) = moves \o <<call, mov>>
  BY DEF Emit, EmitCall, IR!BinaryOperators, IR!Relations, IR!Equalities, IR!BitOperators
<1> HIDE DEF moves
<1>8. IsText(<<call, mov>>)
  <2> HIDE DEF call, mov
  <2> QED
    BY ShortTexts
<1>9. n = Step(Step(k, call), mov) /\ IsText(Emit(inst, b))
  <2> HIDE DEF call, mov
  <2>1. n = Ran(k, <<call, mov>>)
    BY <1>6, <1>7, <1>8, RanThen
  <2> QED
    BY <1>6, <1>7, <1>8, <2>1, RanTwo, TextThen
<1>10. Step(k, call) = AfterCall(k, inst.callee, len)
  BY <1>6, CallStep
<1> HIDE DEF k, n, call
<1> SUFFICES Linked(t, n, b, i + 1)
  BY <1>9 DEF n
<1>11. CASE s.answers = <<>>
  <2> DEFINE q == [k EXCEPT !.mode = "stuck"]
             u == [s EXCEPT !.mode = "stuck"]
  <2>1. t = u
    BY <1>11 DEF IR!Executed, IR!BinaryOperators, IR!Relations, IR!Equalities, IR!BitOperators
  <2>2. Step(k, call) = q
    BY <1>6, <1>10, <1>11 DEF AfterCall
  <2>q. q = [k EXCEPT !.mode = "stuck"] /\ u = [s EXCEPT !.mode = "stuck"]
    OBVIOUS
  <2> HIDE DEF q, u
  <2>3. q.mode = "stuck" /\ q.calls = k.calls /\ q.answers = k.answers /\ q.regs = k.regs
    BY <1>6, <2>q DEF IsMachine
  <2>4. IsMachine(q)
    BY <1>6, <2>q, <2>3 DEF IsMachine
  <2>5. u.mode = "stuck" /\ u.calls = s.calls /\ u.answers = s.answers /\ u.env = s.env
    BY <1>5, <2>q DEF IsState
  <2>6. IsState(u)
    BY <1>5, <2>q, <2>5 DEF IsState
  <2> HIDE DEF mov, t
  <2>7. Step(q, mov) = q
    BY <2>3, Zenon DEF Step
  <2> QED
    BY <1>6, <1>9, <2>1, <2>2, <2>3, <2>4, <2>5, <2>6, <2>7 DEF Linked
<1>12. CASE s.answers # <<>>
  <2> DEFINE answer == Head(s.answers)
             rest == Tail(s.answers)
             passed == <<inst.callee, [a \in DOMAIN inst.args |-> IR!ValueIn(s, inst.args[a])]>>
             calls == Append(s.calls, passed)
             regs == [r \in Registers |-> IF r = Rax THEN answer ELSE IR!Undefined]
             d == IR!Defined(s, inst, answer)
             u == [d EXCEPT !.answers = rest, !.calls = calls]
             q == [k EXCEPT !.answers = rest, !.calls = calls, !.regs = regs]
             p == Write(q, res, Read(q, Register(Rax)))
  <2>0. Rax \in Registers
    BY DEF Rax, Registers
  <2>1. /\ IsState(d) /\ d.env[w] = answer
        /\ d.mode = s.mode /\ d.calls = s.calls /\ d.answers = s.answers
    <3> HIDE DEF answer, inst
    <3> QED
      BY <1>2, <1>5, DefinedKeeps
  <2>2. t = u
    <3>1. t = [d EXCEPT !.answers = Tail(d.answers), !.calls = Append(d.calls, passed)]
      BY <1>12 DEF IR!Executed, IR!BinaryOperators, IR!Relations, IR!Equalities, IR!BitOperators
    <3> HIDE DEF d, passed
    <3> QED
      BY <2>1, <3>1
  <2>3. Step(k, call) = q
    <3> DEFINE sent == <<inst.callee, [a \in 1..len |-> IF a > Len(ArgRegs) THEN IR!Undefined
                                                        ELSE k.regs[ArgRegs[a]]]>>
    <3>1. sent = passed
      <4>1. ASSUME NEW a \in 1..len
            PROVE  (IF a > Len(ArgRegs) THEN IR!Undefined ELSE k.regs[ArgRegs[a]])
                     = IR!ValueIn(s, inst.args[a])
        <5>1. ~(a > Len(ArgRegs))
          BY <1>1, <1>6, ArgumentRegisters
        <5> QED
          BY <1>1, <1>6, <5>1
      <4>2. [a \in 1..len |-> IF a > Len(ArgRegs) THEN IR!Undefined ELSE k.regs[ArgRegs[a]]]
              = [a \in DOMAIN inst.args |-> IR!ValueIn(s, inst.args[a])]
        BY <1>1, <4>1
      <4> QED
        BY <4>2
    <3>2. AfterCall(k, inst.callee, len)
            = [k EXCEPT !.answers = Tail(k.answers), !.calls = Append(k.calls, sent),
                        !.regs = [r \in Registers |-> IF r = Rax THEN Head(k.answers)
                                                      ELSE IR!Undefined]]
      <4>1. k.answers # <<>>
        BY <1>6, <1>12
      <4> QED
        BY <4>1 DEF AfterCall
    <3> HIDE DEF sent, passed
    <3> QED
      BY <1>6, <1>10, <3>1, <3>2
  <2> HIDE DEF rest, calls, d, answer
  <2>4. /\ regs = [r \in Registers |-> regs[r]] /\ regs[Rax] = answer
    BY <2>0
  <2> HIDE DEF regs
  <2>q. /\ q = [k EXCEPT !.answers = rest, !.calls = calls, !.regs = regs]
        /\ u = [d EXCEPT !.answers = rest, !.calls = calls]
    OBVIOUS
  <2> HIDE DEF q, u, t
  <2>5. /\ q.mode = "run" /\ q.calls = calls /\ q.answers = rest /\ q.regs = regs
    BY <1>6, <2>q DEF IsMachine
  <2>6. IsMachine(q)
    BY <1>6, <2>q, <2>4, <2>5 DEF IsMachine
  <2>7. u.mode = s.mode /\ u.calls = calls /\ u.answers = rest /\ u.env = d.env
    BY <2>1, <2>q DEF IsState
  <2>8. IsState(u)
    BY <2>1, <2>q, <2>7 DEF IsState
  <2>9. Step(q, mov) = p
    <3>1. mov = Mov(res, Register(Rax))
      BY <1>3
    <3> HIDE DEF mov
    <3> QED
      BY <2>5, <3>1, MovStep
  <2>10. Read(q, Register(Rax)) = answer
    BY <2>4, <2>5 DEF Read, Register
  <2>11. Changed(q, p, {res}) /\ p.regs[res] = answer
    <3> HIDE DEF res
    <3> QED
      BY <1>3, <2>6, <2>10, WriteChanges
  <2> HIDE DEF p
  <2>12. IsMachine(p) /\ p.mode = "run" /\ p.calls = calls /\ p.answers = rest
    BY <2>5, <2>11 DEF Changed
  <2>13. ASSUME NEW v \in Living(LivingAtStarts, b, i + 1) PROVE p.regs[valueToReg[v]] = u.env[v]
    <3>1. v = w
      BY <1>3, <1>4 DEF LostInCall
    <3> QED
      BY <2>1, <2>7, <2>11, <3>1
  <2>14. ASSUME NEW j \in LeadingPhis(b), i + 1 < j PROVE FALSE
    <3>1. i + 1 <= j
      BY <1>0, <2>14, FunctionShape DEF LeadingPhis, Block
    <3> QED
      BY <1>0, <3>1, PastPhis
  <2>15. Holds(u, p, b, i + 1)
    BY <2>13, <2>14 DEF Holds
  <2>16. Linked(u, p, b, i + 1)
    BY <2>7, <2>8, <2>12, <2>15 DEF Linked
  <2> QED
    BY <1>9, <2>2, <2>3, <2>9, <2>16
<1> QED
  BY <1>11, <1>12

\* What is live before leading phi nodes and not defined by them is so behind them.
LEMMA PhisPassed ==
  ASSUME IsFunction(blocks), NEW b \in Block, NEW i \in Nat, NEW j \in LeadingPhis(b), i < j,
         NEW starts, NEW v \in Living(starts, b, i)
  PROVE  v \in Living(starts, b, j) /\ v \notin Result(blocks[b].code[j])
<1>1. j \in DOMAIN blocks[b].code /\ DOMAIN blocks[b].code = 1..Len(blocks[b].code)
      /\ Len(blocks[b].code) \in Nat
  BY FunctionShape DEF LeadingPhis, Block
<1>2. \A k \in 1..j : blocks[b].code[k].op = "phi"
  BY DEF LeadingPhis
<1>3. ASSUME NEW k \in Nat, k < j, v \in Living(starts, b, k)
      PROVE  v \in Living(starts, b, k + 1) /\ v \notin Result(blocks[b].code[k + 1])
  <2> DEFINE inst == blocks[b].code[k + 1]
             n == Len(blocks[b].code)
  <2>1. k + 1 \in 1..j /\ k + 1 \in 1..n
    BY <1>1, <1>3
  <2>2. UsedBy(inst) = {}
    BY <1>2, <2>1 DEF UsedBy
  <2>3. Living(starts, b, k) \ UsedBy(inst) \subseteq Living(starts, b, k + 1) \ Result(inst)
    BY <1>1, <2>1, LivingStep
  <2> HIDE DEF inst
  <2>4. v \in Living(starts, b, k + 1) /\ v \notin Result(inst)
    BY <1>3, <2>2, <2>3
  <2> QED
    BY <2>4 DEF inst
<1> DEFINE Good == {d \in Nat : i + d < j => v \in Living(starts, b, i + d)}
<1>4. 0 \in Good
  <2>1. i + 0 = i
    OBVIOUS
  <2> QED
    BY <2>1
<1>5. ASSUME NEW d \in Nat, d \in Good PROVE d + 1 \in Good
  <2> SUFFICES ASSUME i + (d + 1) < j PROVE v \in Living(starts, b, i + (d + 1))
    OBVIOUS
  <2> DEFINE k == i + d
  <2>1. k \in Nat /\ k < j /\ k + 1 = i + (d + 1) /\ i + d = k
    BY <1>1
  <2>2. v \in Living(starts, b, i + d)
    BY <1>5, <2>1
  <2> HIDE DEF k
  <2>3. v \in Living(starts, b, k + 1)
    BY <1>3, <2>1, <2>2
  <2> QED
    BY <2>1, <2>3
<1>6. \A d \in Nat : d \in Good
  <2>1. 1 \in Nat \ {0}
    OBVIOUS
  <2> HIDE DEF Good
  <2> QED
    BY <1>4, <1>5, <2>1, Paths!CountingUp
<1> DEFINE d == j - 1 - i
           k == i + d
<1>7. d \in Nat /\ k < j /\ k + 1 = j /\ k \in Nat /\ i + d = k
  BY <1>1
<1> HIDE DEF d
<1>8. v \in Living(starts, b, k)
  BY <1>6, <1>7
<1> HIDE DEF k
<1> QED
  BY <1>3, <1>7, <1>8

\* After the moves of an edge all that the block it leads to needs is in place.
LEMMA MovesArrive ==
  ASSUME Placed, NEW b \in Block, NEW to \in Successors(b),
         ~MoveMissing(b, to), ~MovesClash(b, to), Catered(to),
         NEW s, NEW m, IsMachine(m), m.mode = "run",
         \A v \in Living(LivingAtStarts, b, Len(blocks[b].code)) :
           valueToReg[v] # NoReg => m.regs[valueToReg[v]] = s.env[v]
  PROVE  LET n == Ran(m, EmitPhiMoves(b, to))
         IN /\ IsText(EmitPhiMoves(b, to)) /\ NoLabels(EmitPhiMoves(b, to))
            /\ IsMachine(n) /\ n.mode = "run" /\ n.calls = m.calls /\ n.answers = m.answers
            /\ Arrives(s, n, b, to)
<1> DEFINE len == Len(blocks[to].code)
           seqs == [i \in DOMAIN blocks[to].code |-> PhiMove(b, to, i)]
           J == LeadingPhis(to)
           phi(k) == blocks[to].code[k]
           x(k) == Incoming(phi(k), b)
           dst == [k \in J |-> AllocResult(phi(k).res)]
           src == [k \in J |-> GetOperand(x(k))]
           text == EmitPhiMoves(b, to)
           n == Ran(m, text)
<1>0. IsFunction(blocks)
  BY DEF Placed
<1>1. to \in Block
  BY <1>0, SuccessorBlocks
<1>2. DOMAIN blocks[to].code = 1..len /\ len \in Nat
  BY <1>0, <1>1, FunctionShape DEF Block
<1>3. J \subseteq 1..len
  BY <1>2 DEF LeadingPhis
<1>4. ASSUME NEW k \in J
      PROVE  /\ phi(k).op = "phi" /\ phi(k).res \in Temporaries /\ b \in IR!ToSet(phi(k).from)
             /\ Result(phi(k)) = {phi(k).res[2]} /\ dst[k] = valueToReg[phi(k).res[2]]
             /\ dst[k] \in Registers /\ dst[k] # NoReg
  <2>1. k \in Nat \ {0} /\ k \in DOMAIN blocks[to].code
    BY <1>2, <1>3
  <2>2. k \in 1..k
    BY <2>1
  <2>3. phi(k).op = "phi"
    BY <2>2 DEF LeadingPhis
  <2>4. b \in IR!ToSet(phi(k).from)
    BY DEF MoveMissing
  <2>5. phi(k).res \in Temporaries
    BY <1>0, <1>1, <2>1, <2>3, <2>4, IncomingOperand
  <2>6. /\ Result(phi(k)) = {phi(k).res[2]} /\ AllocResult(phi(k).res) = valueToReg[phi(k).res[2]]
        /\ valueToReg[phi(k).res[2]] \in Registers /\ valueToReg[phi(k).res[2]] # NoReg
    BY <1>1, <2>1, <2>5, ResultPlace
  <2> QED
    BY <2>3, <2>4, <2>5, <2>6
<1>5. ASSUME NEW k \in J
      PROVE  /\ IsSource(src[k]) /\ seqs[k] = <<Mov(dst[k], src[k])>>
             /\ Read(m, src[k]) = IR!ValueIn(s, x(k))
  <2> DEFINE p == <<to, k>>
             y == x(k)
  <2>1. k \in DOMAIN blocks[to].code
    BY <1>2, <1>3
  <2>2. y \in Operands /\ Temps(<<y>>) \subseteq Temps(phi(k).args) \cap Value
    BY <1>0, <1>1, <1>4, <2>1, IncomingOperand
  <2>3. p \in IR!Positions(blocks) /\ IR!At(blocks, p) = phi(k)
    BY <1>0, <1>1, <2>1, OperandsOf
  <2>4. Temps(<<y>>) \subseteq MentionedAt(p)
    BY <2>2, <2>3 DEF MentionedAt
  <2>5. Temps(<<y>>) \subseteq ReadByPhis(b)
    BY <1>4, <2>2 DEF ReadByPhis
  <2>6. ASSUME NEW v \in Temps(<<y>>) PROVE m.regs[valueToReg[v]] = s.env[v]
    <3>1. v \in Living(LivingAtStarts, b, Len(blocks[b].code))
      BY <1>0, <2>5, LivingEnd
    <3>2. v \in Value /\ v \in MentionedAt(p)
      BY <2>2, <2>4
    <3>3. valueToReg[v] # NoReg
      BY <2>3, <3>2, InRegister
    <3> QED
      BY <3>1, <3>3
  <2> HIDE DEF y, p
  <2>7. Read(m, GetOperand(y)) = IR!ValueIn(s, y)
    BY <2>2, <2>3, <2>4, <2>6, OperandValue
  <2>8. /\ LoadSpilled(y) = <<>>
        /\ \/ GetOperand(y) = Number(y[2])
           \/ GetOperand(y) = Register(valueToReg[y[2]]) /\ valueToReg[y[2]] \in Registers
    BY <2>2, <2>3, <2>4, OperandPlace
  <2>9. IsSource(GetOperand(y))
    BY <2>8 DEF IsSource, Number, Register
  <2>10. seqs[k] = <<>> \o <<Mov(AllocResult(phi(k).res), GetOperand(y))>>
    BY <1>4, <2>1, <2>8 DEF PhiMove, y
  <2>11. <<>> \o <<Mov(AllocResult(phi(k).res), GetOperand(y))>> = <<Mov(AllocResult(phi(k).res), GetOperand(y))>>
    <3> DEFINE a == Mov(AllocResult(phi(k).res), GetOperand(y))
    <3> HIDE DEF a
    <3>1. <<>> \o <<a>> = <<a>>
      BY ShortTexts, NothingBefore
    <3> QED
      BY <3>1 DEF a
  <2>12. src[k] = GetOperand(y) /\ dst[k] = AllocResult(phi(k).res)
    BY DEF y
  <2> HIDE DEF seqs, src, dst
  <2> QED
    BY <2>7, <2>9, <2>10, <2>11, <2>12 DEF y
<1>6. IsText(seqs) /\ Len(seqs) = len
  <2> DEFINE T == {seqs[k] : k \in 1..len}
  <2>1. seqs \in [1..len -> T] /\ len \in Nat
    BY <1>2
  <2> HIDE DEF T, seqs, len
  <2>2. seqs \in Seq(T) /\ Len(seqs) = len
    BY <2>1
  <2> QED
    BY <2>2 DEF IsText
<1>7. ASSUME NEW k \in 1..len, k \notin J PROVE seqs[k] = <<>>
  BY <1>2, <1>7 DEF PhiMove
<1>8. ASSUME NEW j \in J, NEW k \in J, j < k PROVE src[k] # Register(dst[j])
  BY <1>8 DEF MovesClash
<1>9. Moves(seqs, J, dst, src)
  <2> HIDE DEF seqs, src, dst, J, len
  <2> QED
    BY <1>3, <1>4, <1>5, <1>6, <1>7, <1>8 DEF Moves
<1>10. text = FlattenSeq(seqs)
  BY DEF EmitPhiMoves
<1> HIDE DEF seqs, src, text
<1>11. IsText(text) /\ NoLabels(text) /\ Moved(m, n, J, dst, src)
  BY <1>9, <1>10, MovesRan
<1> HIDE DEF n
<1>12. IsMachine(n) /\ n.mode = "run" /\ n.calls = m.calls /\ n.answers = m.answers
  BY <1>11 DEF Moved, Changed
<1>13. ASSUME NEW i \in Nat, NEW v \in Living(LivingAtStarts, to, i), valueToReg[v] # NoReg,
              NEW k \in J, i < k
       PROVE  dst[k] # valueToReg[v]
  <2>1. v \in Living(LivingAtStarts, to, k) /\ v \notin Result(phi(k))
    BY <1>0, <1>1, <1>13, PhisPassed
  <2>2. k \in DOMAIN blocks[to].code
    BY <1>2, <1>3
  <2>3. ~Overwrites(phi(k), Living(LivingAtStarts, to, k))
    BY <2>2 DEF Catered
  <2>4. phi(k).res[2] \in Result(phi(k)) /\ dst[k] = valueToReg[phi(k).res[2]]
    BY <1>4
  <2> HIDE DEF phi, dst
  <2> QED
    BY <1>13, <2>1, <2>3, <2>4 DEF Overwrites
<1>14. ASSUME NEW v \in Living(LivingAtStarts, to, 0), valueToReg[v] # NoReg
       PROVE  n.regs[valueToReg[v]] = s.env[v]
  <2>1. v \in Living(LivingAtStarts, b, Len(blocks[b].code))
    BY <1>0, <1>1, LivingStart, LivingEnd
  <2>2. v \in Value
    BY DEF Living, UsedAfter, KeptAfter
  <2>3. valueToReg[v] \in Registers
    BY <1>14, <2>2, AssignedRegister
  <2>4. valueToReg[v] \notin {dst[k] : k \in J}
    <3> SUFFICES ASSUME NEW k \in J PROVE dst[k] # valueToReg[v]
      OBVIOUS
    <3>1. 0 < k
      BY <1>2, <1>3
    <3> QED
      BY <1>13, <1>14, <3>1
  <2>5. n.regs[valueToReg[v]] = m.regs[valueToReg[v]]
    <3> HIDE DEF dst, J
    <3> QED
      BY <1>11, <2>3, <2>4 DEF Moved, Changed
  <2> QED
    BY <1>14, <2>1, <2>5
<1>15. ASSUME NEW j \in J, NEW v \in Result(phi(j)) \cap Living(LivingAtStarts, to, j)
       PROVE  n.regs[valueToReg[v]] = IR!ValueIn(s, x(j))
  <2>1. v = phi(j).res[2] /\ dst[j] = valueToReg[v] /\ valueToReg[v] # NoReg
    BY <1>4, <1>15
  <2>2. \A k \in J : j < k => dst[k] # dst[j]
    <3> SUFFICES ASSUME NEW k \in J, j < k PROVE dst[k] # dst[j]
      OBVIOUS
    <3>1. j \in Nat
      BY <1>2, <1>3
    <3> HIDE DEF dst, J, phi
    <3> QED
      BY <1>13, <1>15, <2>1, <3>1
  <2>3. n.regs[dst[j]] = Read(m, src[j])
    <3> HIDE DEF dst, J
    <3> QED
      BY <1>11, <2>2 DEF Moved
  <2> QED
    BY <1>5, <2>1, <2>3
<1>16. Arrives(s, n, b, to)
  <2>1. \A j \in J : b \in IR!ToSet(phi(j).from)
    BY <1>4
  <2> QED
    BY <1>14, <1>15, <2>1 DEF Arrives
<1> QED
  BY <1>11, <1>12, <1>16 DEF n, text

\* The moves to the blocks that b leads to are all there, and in an order that works.
Leads(b) ==
  \A to \in Successors(b) : ~MoveMissing(b, to) /\ ~MovesClash(b, to) /\ Catered(to)

\* What is live at the end of b is in its register.
Ready(s, m, b) ==
  \A v \in Living(LivingAtStarts, b, Len(blocks[b].code)) :
    valueToReg[v] # NoReg => m.regs[valueToReg[v]] = s.env[v]

\* A jump leaves in place all that the block it leads to needs.
LEMMA JumpLinked ==
  ASSUME Placed, NEW b \in Block, NEW to \in Successors(b), Leads(b),
         NEW s, IsState(s), NEW m, IsMachine(m), m.mode = "run",
         m.calls = s.calls, m.answers = s.answers, Ready(s, m, b), NEW i
  PROVE  LET t == [s EXCEPT !.mode = "next", !.to = to]
         IN /\ IsText(JumpTo(b, to)) /\ NoLabels(JumpTo(b, to))
            /\ Linked(t, Ran(m, JumpTo(b, to)), b, i)
<1> DEFINE t == [s EXCEPT !.mode = "next", !.to = to]
           moves == EmitPhiMoves(b, to)
           k == Ran(m, moves)
           jmp == <<"jmp", to>>
           n == [k EXCEPT !.mode = "next", !.to = to]
           text == JumpTo(b, to)
<1>1. /\ IsText(moves) /\ NoLabels(moves)
      /\ IsMachine(k) /\ k.mode = "run" /\ k.calls = m.calls /\ k.answers = m.answers
      /\ Arrives(s, k, b, to)
  BY MovesArrive DEF Leads, Ready
<1>2. text = moves \o <<jmp>>
  BY DEF JumpTo
<1>3. jmp[1] = "jmp"
  OBVIOUS
<1> HIDE DEF moves, text
<1>4. IsText(<<jmp>>) /\ NoLabels(<<jmp>>) /\ Step(k, jmp) = n
  <2>1. Step(k, jmp) = n
    BY <1>1, JmpStep
  <2> HIDE DEF jmp
  <2>2. NoLabels(<<jmp>>)
    BY <1>3 DEF NoLabels
  <2> HIDE DEF n
  <2> QED
    BY <2>1, <2>2, ShortTexts
<1>5. IsText(text) /\ NoLabels(text) /\ Ran(m, text) = n
  <2> HIDE DEF jmp, n
  <2>1. Ran(k, <<jmp>>) = n
    BY <1>4, RanOne
  <2>2. Ran(m, text) = n
    BY <1>1, <1>2, <1>4, <2>1, RanThen
  <2> QED
    BY <1>1, <1>2, <1>4, <2>2, TextThen, NoLabelsThen
<1>q. n = [k EXCEPT !.mode = "next", !.to = to] /\ t = [s EXCEPT !.mode = "next", !.to = to]
  OBVIOUS
<1> HIDE DEF k, n, t
<1>6. /\ n.mode = "next" /\ n.to = to /\ n.regs = k.regs /\ n.calls = k.calls /\ n.answers = k.answers
  BY <1>1, <1>q DEF IsMachine
<1>7. IsMachine(n)
  BY <1>1, <1>q, <1>6 DEF IsMachine
<1>8. t.mode = "next" /\ t.to = to /\ t.env = s.env /\ t.calls = s.calls /\ t.answers = s.answers
  BY <1>q DEF IsState
<1>9. IsState(t)
  BY <1>q, <1>8 DEF IsState
<1>10. Arrives(t, n, b, to)
  <2>1. \A x : IR!ValueIn(t, x) = IR!ValueIn(s, x)
    BY <1>8 DEF IR!ValueIn
  <2> QED
    BY <1>1, <1>6, <1>8, <2>1 DEF Arrives
<1>11. Linked(t, n, b, i)
  BY <1>1, <1>6, <1>7, <1>8, <1>9, <1>10 DEF Linked
<1> QED
  BY <1>5, <1>11 DEF t, text

\* A terminator defines nothing: what is live behind it is in its register.
LEMMA ReadyAtEnd ==
  ASSUME IsFunction(blocks), NEW b \in Block, NEW i \in Nat, i + 1 = Len(blocks[b].code),
         i + 1 \in DOMAIN blocks[b].code, IR!IsTerminator(blocks[b].code[i + 1]),
         NEW s, NEW m, Holds(s, m, b, i)
  PROVE  Ready(s, m, b) /\ Successors(b) = IR!ToSet(blocks[b].code[i + 1].to)
<1> DEFINE inst == blocks[b].code[i + 1]
<1>1. Result(inst) = {}
  <2>1. WellFormed(inst) /\ (inst.res = IR!Null => Result(inst) = {})
    BY OperandsOf
  <2>2. inst.res = IR!Null
    BY <2>1 DEF WellFormed, IR!IsTerminator, IR!BinaryOperators, IR!Relations, IR!Equalities, IR!BitOperators
  <2> QED
    BY <2>1, <2>2
<1>2. Living(LivingAtStarts, b, i + 1) \subseteq Living(LivingAtStarts, b, i)
  BY <1>1, LivingStep
<1>3. Ready(s, m, b)
  BY <1>2 DEF Ready, Holds
<1>4. IR!Terminated(blocks[b]) /\ IR!Targets(blocks[b]) = inst.to
  <2> DEFINE c == blocks[b].code
  <2>1. i + 1 \in DOMAIN c /\ i + 1 = Len(c) /\ IR!IsTerminator(c[Len(c)])
    OBVIOUS
  <2>2. blocks[b].code = c
    OBVIOUS
  <2> HIDE DEF c
  <2>3. c # <<>>
    BY <2>1
  <2>4. IR!Terminated(blocks[b])
    BY <2>1, <2>2, <2>3 DEF IR!Terminated, IR!Last
  <2>5. IR!Targets(blocks[b]) = c[Len(c)].to
    BY <2>2, <2>4 DEF IR!Targets, IR!Last
  <2> QED
    BY <2>1, <2>2, <2>4, <2>5
<1> QED
  BY <1>3, <1>4 DEF Successors

\* So does a conditional branch, whichever way it goes.
LEMMA BranchLinked ==
  ASSUME Placed, NEW b \in Block, NEW i \in Nat, i + 1 \in DOMAIN blocks[b].code,
         i + 1 = Len(blocks[b].code), Leads(b), blocks[b].code[i + 1].op = "br",
         NEW s, NEW m, Linked(s, m, b, i), s.mode = "run"
  PROVE  LET inst == blocks[b].code[i + 1]
         IN /\ IsText(Emit(inst, b))
            /\ Linked(IR!Executed(s, inst), Ran(m, Emit(inst, b)), b, i + 1)
<1> DEFINE inst == blocks[b].code[i + 1]
           to == inst.to[1]
           t == [s EXCEPT !.mode = "next", !.to = to]
<1>0. IsFunction(blocks)
  BY DEF Placed
<1>1. Holds(s, m, b, i) /\ IsMachine(m) /\ m.mode = "run" /\ IsState(s)
      /\ m.calls = s.calls /\ m.answers = s.answers
  BY DEF Linked
<1>2. Ready(s, m, b) /\ Successors(b) = IR!ToSet(inst.to)
  <2>1. IR!IsTerminator(inst)
    BY DEF IR!IsTerminator
  <2> QED
    BY <1>0, <1>1, <2>1, ReadyAtEnd
<1>3. to \in Successors(b)
  <2>1. WellFormed(inst) /\ inst \in IRInstruction(blocks) /\ inst.op = "br"
    BY <1>0, OperandsOf
  <2> HIDE DEF inst
  <2>2. Len(inst.to) = 1 /\ inst.to \in Seq(DOMAIN blocks)
    BY <2>1 DEF WellFormed, IRInstruction
  <2>3. 1 \in DOMAIN inst.to
    BY <2>2
  <2> QED
    BY <1>2, <2>3 DEF IR!ToSet
<1>4. IR!Executed(s, inst) = t
  BY DEF IR!Executed, IR!BinaryOperators, IR!Relations, IR!Equalities, IR!BitOperators
<1>5. Emit(inst, b) = JumpTo(b, to)
  BY DEF Emit, IR!BinaryOperators, IR!Relations, IR!Equalities, IR!BitOperators
<1>6. IsText(JumpTo(b, to)) /\ Linked(t, Ran(m, JumpTo(b, to)), b, i + 1)
  <2> HIDE DEF to
  <2> QED
    BY <1>1, <1>2, <1>3, JumpLinked
<1> QED
  BY <1>4, <1>5, <1>6

\* What the four parts of a conditional branch do, one after the other.
LEMMA PartsRan ==
  ASSUME NEW m, NEW a, IsText(a), NEW x, IsText(x), NEW c, IsText(c), NEW y, IsText(y)
  PROVE  /\ IsText(a \o x \o c \o y)
         /\ Ran(m, a \o x \o c \o y) = Ran(Ran(Ran(Ran(m, a), x), c), y)
<1> DEFINE ax == a \o x
           axc == ax \o c
<1>1. IsText(ax) /\ Ran(m, ax) = Ran(Ran(m, a), x)
  BY RanThen, TextThen
<1> HIDE DEF ax
<1>2. IsText(axc) /\ Ran(m, axc) = Ran(Ran(m, ax), c)
  BY <1>1, RanThen, TextThen
<1> HIDE DEF axc
<1>3. IsText(axc \o y) /\ Ran(m, axc \o y) = Ran(Ran(m, axc), y)
  BY <1>2, RanThen, TextThen
<1> QED
  BY <1>1, <1>2, <1>3 DEF ax, axc

\* The whole text of a conditional branch: test, moves and jump of one side, label, and
\* the other.
LEMMA ConditionLinked ==
  ASSUME Placed, NEW b \in Block, NEW i \in Nat, i + 1 \in DOMAIN blocks[b].code,
         i + 1 = Len(blocks[b].code), Leads(b), blocks[b].code[i + 1].op = "condbr",
         NEW s, NEW m, Linked(s, m, b, i), s.mode = "run"
  PROVE  LET inst == blocks[b].code[i + 1]
         IN /\ IsText(Emit(inst, b))
            /\ Linked(IR!Executed(s, inst), Ran(m, Emit(inst, b)), b, i + 1)
<1> DEFINE inst == blocks[b].code[i + 1]
           x == IR!ValueIn(s, inst.args[1])
           l == GetOperand(inst.args[1])
           jz == <<"jz", l>>
           label == <<"label">>
           text1 == JumpTo(b, inst.to[1])
           text2 == JumpTo(b, inst.to[2])
           t1 == [s EXCEPT !.mode = "next", !.to = inst.to[1]]
           t2 == [s EXCEPT !.mode = "next", !.to = inst.to[2]]
           text == <<jz>> \o text1 \o <<label>> \o text2
           n == Ran(m, text)
<1>0. IsFunction(blocks)
  BY DEF Placed
<1>1. Holds(s, m, b, i) /\ IsMachine(m) /\ m.mode = "run" /\ IsState(s)
      /\ m.calls = s.calls /\ m.answers = s.answers
  BY DEF Linked
<1>2. Ready(s, m, b) /\ Successors(b) = IR!ToSet(inst.to)
  <2>1. IR!IsTerminator(inst)
    BY DEF IR!IsTerminator
  <2> QED
    BY <1>0, <1>1, <2>1, ReadyAtEnd
<1>3. inst.to[1] \in Successors(b) /\ inst.to[2] \in Successors(b) /\ 1 \in DOMAIN inst.args
  <2>1. WellFormed(inst) /\ inst \in IRInstruction(blocks) /\ inst.op = "condbr"
        /\ DOMAIN inst.args = 1..Len(inst.args)
    BY <1>0, OperandsOf
  <2> HIDE DEF inst
  <2>2. Len(inst.to) = 2 /\ inst.to \in Seq(DOMAIN blocks) /\ Len(inst.args) = 1
    BY <2>1 DEF WellFormed, IRInstruction
  <2>3. 1 \in DOMAIN inst.to /\ 2 \in DOMAIN inst.to
    BY <2>2
  <2> QED
    BY <1>2, <2>1, <2>2, <2>3 DEF IR!ToSet
<1>4. Read(m, l) = x /\ LoadSpilled(inst.args[1]) = <<>>
  BY <1>1, <1>3, ArgumentRead
<1>5. IsText(text1) /\ NoLabels(text1) /\ Linked(t1, Ran(m, text1), b, i + 1)
  <2> DEFINE to == inst.to[1]
  <2>1. to \in Successors(b)
    BY <1>3
  <2> HIDE DEF to
  <2>2. IsText(JumpTo(b, to)) /\ NoLabels(JumpTo(b, to))
        /\ Linked([s EXCEPT !.mode = "next", !.to = to], Ran(m, JumpTo(b, to)), b, i + 1)
    BY <1>1, <1>2, <2>1, JumpLinked
  <2> QED
    BY <2>2 DEF to
<1>6. IsText(text2) /\ Linked(t2, Ran(m, text2), b, i + 1)
  <2> DEFINE to == inst.to[2]
  <2>1. to \in Successors(b)
    BY <1>3
  <2> HIDE DEF to
  <2>2. IsText(JumpTo(b, to))
        /\ Linked([s EXCEPT !.mode = "next", !.to = to], Ran(m, JumpTo(b, to)), b, i + 1)
    BY <1>1, <1>2, <2>1, JumpLinked
  <2> QED
    BY <2>2 DEF to
<1>7. Emit(inst, b) = text
  <2>1. Emit(inst, b) = EmitCondBr(inst, b)
    BY DEF Emit, IR!BinaryOperators, IR!Relations, IR!Equalities, IR!BitOperators
  <2>2. EmitCondBr(inst, b) = <<>> \o <<jz>> \o text1 \o <<label>> \o text2
    BY <1>4 DEF EmitCondBr
  <2>3. <<>> \o <<jz>> = <<jz>>
    <3> HIDE DEF jz
    <3> QED
      BY ShortTexts, NothingBefore
  <2> QED
    BY <2>1, <2>2, <2>3
<1>8. IR!Executed(s, inst) = IF x = IR!Undefined THEN [s EXCEPT !.mode = "stuck"]
                             ELSE IF x # 0 THEN t1 ELSE t2
  BY DEF IR!Executed, IR!BinaryOperators, IR!Relations, IR!Equalities, IR!BitOperators
<1>9. Step(m, jz) = AfterTest(m, x)
  BY <1>1, <1>4, JzStep
<1>10. label[1] = "label"
  OBVIOUS
<1> HIDE DEF text1, text2, t1, t2, jz, label
<1>11. IsText(text) /\ n = Ran(Ran(Ran(AfterTest(m, x), text1), <<label>>), text2)
  <2> DEFINE a == <<jz>>
             c == <<label>>
  <2>1. IsText(a) /\ IsText(c) /\ Ran(m, a) = Step(m, jz)
    BY ShortTexts, RanOne
  <2>2. text = a \o text1 \o c \o text2
    OBVIOUS
  <2> HIDE DEF a, c, text
  <2>3. IsText(text) /\ Ran(m, text) = Ran(Ran(Ran(Ran(m, a), text1), c), text2)
    BY <1>5, <1>6, <2>1, <2>2, PartsRan
  <2> QED
    BY <1>9, <2>1, <2>3 DEF c
<1>12. Len(text1) \in Nat /\ Len(text2) \in Nat /\ Len(<<label>>) \in Nat
  BY <1>5, <1>6, TextShape
<1>13. \A q : Ran(q, <<label>>) = Step(q, label)
  BY RanOne
<1> HIDE DEF n, text, x, l
<1>14. CASE x = IR!Undefined
  <2> DEFINE q == [m EXCEPT !.mode = "stuck"]
             u == [s EXCEPT !.mode = "stuck"]
  <2>1. AfterTest(m, x) = q /\ IR!Executed(s, inst) = u
    BY <1>8, <1>14 DEF AfterTest
  <2>q. q = [m EXCEPT !.mode = "stuck"] /\ u = [s EXCEPT !.mode = "stuck"]
    OBVIOUS
  <2> HIDE DEF q, u
  <2>2. q.mode = "stuck" /\ q.calls = m.calls /\ q.answers = m.answers /\ q.regs = m.regs
    BY <1>1, <2>q DEF IsMachine
  <2>3. IsMachine(q)
    BY <1>1, <2>q, <2>2 DEF IsMachine
  <2>4. u.mode = "stuck" /\ u.calls = s.calls /\ u.answers = s.answers /\ u.env = s.env
    BY <1>1, <2>q DEF IsState
  <2>5. IsState(u)
    BY <1>1, <2>q, <2>4 DEF IsState
  <2>6. Ran(q, text1) = q /\ Ran(q, text2) = q /\ Ran(q, <<label>>) = q
    BY <1>12, <2>2, RanIdle
  <2>7. n = q
    BY <1>11, <2>1, <2>6
  <2>8. Linked(u, q, b, i + 1)
    BY <1>1, <2>2, <2>3, <2>4, <2>5 DEF Linked
  <2> QED
    BY <1>7, <1>11, <2>1, <2>7, <2>8 DEF n
<1>15. CASE x # IR!Undefined /\ x = 0
  <2> DEFINE q == [m EXCEPT !.mode = "skip"]
  <2>1. AfterTest(m, x) = q /\ IR!Executed(s, inst) = t2
    BY <1>8, <1>15 DEF AfterTest
  <2>2. q.mode = "skip" /\ [q EXCEPT !.mode = "run"] = m
    BY <1>1 DEF IsMachine
  <2> HIDE DEF q
  <2>3. Ran(q, text1) = q
    BY <1>5, <1>12, <2>2, RanSkipping DEF NoLabels
  <2>4. Step(q, label) = m
    BY <1>10, <2>2 DEF Step
  <2>5. n = Ran(m, text2)
    BY <1>11, <1>13, <2>1, <2>3, <2>4
  <2> QED
    BY <1>6, <1>7, <1>11, <2>1, <2>5 DEF n
<1>16. CASE x # IR!Undefined /\ x # 0
  <2> DEFINE q == Ran(m, text1)
  <2>1. AfterTest(m, x) = m /\ IR!Executed(s, inst) = t1
    BY <1>8, <1>16 DEF AfterTest
  <2>2. q.mode = "next"
    <3>1. t1.mode = "next"
      BY <1>1 DEF IsState, t1
    <3> QED
      BY <1>5, <3>1 DEF Linked
  <2> HIDE DEF q
  <2>3. Ran(q, <<label>>) = q /\ Ran(q, text2) = q
    BY <1>12, <2>2, RanIdle
  <2>4. n = q
    BY <1>11, <2>1, <2>3 DEF q
  <2> QED
    BY <1>5, <1>7, <1>11, <2>1, <2>4 DEF n, q
<1> QED
  BY <1>14, <1>15, <1>16

\* What runs on both sides stays linked, whatever the instruction.
LEMMA RunningLinked ==
  ASSUME Placed, NEW b \in Block, Catered(b), Leads(b),
         NEW i \in Nat, i + 1 \in DOMAIN blocks[b].code,
         IR!IsTerminator(blocks[b].code[i + 1]) => i + 1 = Len(blocks[b].code),
         NEW s, NEW m, Linked(s, m, b, i), Truthful(s), s.mode = "run"
  PROVE  LET inst == blocks[b].code[i + 1]
         IN /\ IsText(Emit(inst, b))
            /\ Linked(IR!Executed(s, inst), Ran(m, Emit(inst, b)), b, i + 1)
<1> DEFINE inst == blocks[b].code[i + 1]
<1>0. IsFunction(blocks)
  BY DEF Placed
<1>1. inst.op \in Opcodes
  BY <1>0, OperandsOf
<1>2. inst.op \notin {"load", "store", "alloca"}
  <2>1. ~Untranslated(inst)
    BY DEF Catered
  <2> QED
    BY <2>1 DEF Untranslated
<1>3. CASE inst.op \in IR!BinaryOperators
  BY <1>3, BinaryLinked
<1>4. CASE inst.op = "not"
  BY <1>4, NegationLinked
<1>5. CASE inst.op = "phi"
  BY <1>5, PhiLinked
<1>6. CASE inst.op = "call"
  BY <1>6, CallLinked
<1>7. CASE inst.op = "label"
  BY <1>7, LabelLinked
<1>8. CASE inst.op = "ret"
  BY <1>8, ReturnLinked
<1>9. CASE inst.op = "br"
  <2>1. i + 1 = Len(blocks[b].code)
    BY <1>9 DEF IR!IsTerminator
  <2> QED
    BY <1>9, <2>1, BranchLinked
<1>10. CASE inst.op = "condbr"
  <2>1. i + 1 = Len(blocks[b].code)
    BY <1>10 DEF IR!IsTerminator
  <2> QED
    BY <1>10, <2>1, ConditionLinked
<1> QED
  BY <1>1, <1>2, <1>3, <1>4, <1>5, <1>6, <1>7, <1>8, <1>9, <1>10 DEF Opcodes

\* Where nothing has been computed yet, nothing differs.
LEMMA NothingComputed ==
  ASSUME Placed, NEW b \in Block, NEW i \in Nat, NEW answers
  PROVE  LET s == Entered(Execution(answers))
             m == [Machine(answers) EXCEPT !.mode = "run"]
         IN Linked(s, m, b, i) /\ Truthful(s) /\ s.mode = "run"
<1> DEFINE env == [v \in Value |-> IR!Undefined]
           regs == [r \in Registers |-> IR!Undefined]
           s == Entered(Execution(answers))
           m == [Machine(answers) EXCEPT !.mode = "run"]
<1>0. IsFunction(blocks)
  BY DEF Placed
<1>1. s = [mode |-> "run", to |-> 1, from |-> 0, env |-> env, entry |-> env, mem |-> env,
           answers |-> answers, calls |-> <<>>, val |-> IR!Undefined]
  <2> DEFINE e == Execution(answers)
  <2>1. e = [mode |-> "next", to |-> 1, from |-> 0, env |-> env, entry |-> <<>>, mem |-> env,
             answers |-> answers, calls |-> <<>>, val |-> IR!Undefined]
    BY DEF Execution
  <2>2. s = [e EXCEPT !.mode = "run", !.entry = e.env]
    BY DEF Entered
  <2> HIDE DEF e, s, env
  <2>3. e.env = env
    BY <2>1
  <2>4. s = [e EXCEPT !.mode = "run", !.entry = env]
    BY <2>2, <2>3
  <2> QED
    BY <2>1, <2>4
<1>2. m = [mode |-> "run", to |-> 1, regs |-> regs, flags |-> <<0, 0>>,
           answers |-> answers, calls |-> <<>>, val |-> IR!Undefined]
  BY DEF Machine
<1>3. \A v \in Value : env[v] = IR!Undefined
  OBVIOUS
<1>4. \A r \in Registers : regs[r] = IR!Undefined
  OBVIOUS
<1>5. env = [v \in Value |-> env[v]] /\ regs = [r \in Registers |-> regs[r]]
  OBVIOUS
<1> HIDE DEF env, regs, s, m
<1>6. s.mode = "run" /\ s.env = env /\ s.entry = env /\ s.from = 0 /\ s.calls = <<>> /\ s.answers = answers
  BY <1>1
<1>7. IsState(s)
  BY <1>1, <1>5, <1>6 DEF IsState
<1>8. m.mode = "run" /\ m.regs = regs /\ m.calls = <<>> /\ m.answers = answers
  BY <1>2
<1>9. IsMachine(m)
  BY <1>2, <1>5, <1>8 DEF IsMachine
<1>10. ASSUME NEW v \in Living(LivingAtStarts, b, i), valueToReg[v] # NoReg
       PROVE  m.regs[valueToReg[v]] = s.env[v]
  <2>1. v \in Value
    BY DEF Living, UsedAfter, KeptAfter
  <2>2. valueToReg[v] \in Registers
    BY <1>10, <2>1, AssignedRegister
  <2> QED
    BY <1>3, <1>4, <1>6, <1>8, <2>1, <2>2
<1>11. ASSUME NEW j \in LeadingPhis(b), NEW v \in Result(blocks[b].code[j])
       PROVE  m.regs[valueToReg[v]] = IR!IncomingFrom(s, blocks[b].code[j])
  <2> DEFINE phi == blocks[b].code[j]
             n == Len(blocks)
  <2>1. j \in DOMAIN blocks[b].code
    BY DEF LeadingPhis
  <2>2. phi \in IRInstruction(blocks) /\ v \in Value /\ <<b, j>> \in IR!Positions(blocks)
        /\ IR!At(blocks, <<b, j>>) = phi
    BY <1>0, <2>1, OperandsOf
  <2>3. v \in MentionedAt(<<b, j>>)
    BY <2>2 DEF MentionedAt
  <2>4. valueToReg[v] \in Registers
    BY <2>2, <2>3, InRegister
  <2>5. phi.from \in Seq(DOMAIN blocks) /\ DOMAIN blocks = 1..n /\ n \in Nat
    BY <1>0, <2>2, FunctionShape DEF IRInstruction
  <2> HIDE DEF n, phi
  <2>6. phi.from \in Seq(1..n)
    BY <2>5
  <2>7. 0 \notin IR!ToSet(phi.from)
    BY <2>5, <2>6 DEF IR!ToSet
  <2>8. IR!IncomingFrom(s, phi) = IR!Undefined
    BY <1>6, <2>7 DEF IR!IncomingFrom
  <2> QED
    BY <1>4, <1>8, <2>4, <2>8 DEF phi
<1>12. Holds(s, m, b, i)
  BY <1>10, <1>11 DEF Holds
<1>13. Linked(s, m, b, i)
  BY <1>6, <1>7, <1>8, <1>9, <1>12 DEF Linked
<1>14. Truthful(s)
  <2> SUFFICES ASSUME NEW v \in Truths PROVE s.env[v] = IR!Undefined
    BY DEF Truthful
  <2>1. PICK p \in IR!Positions(blocks) : v \in Result(IR!At(blocks, p))
    BY DEF Truths
  <2>2. v \in Value
    <3> DEFINE inst == IR!At(blocks, p)
    <3>1. p[1] \in Block /\ p[2] \in DOMAIN blocks[p[1]].code /\ inst = blocks[p[1]].code[p[2]]
      BY PositionShape DEF Block, IR!At
    <3>2. Result(blocks[p[1]].code[p[2]]) \subseteq Value
      BY <1>0, <3>1, OperandsOf
    <3> QED
      BY <2>1, <3>1, <3>2
  <2> QED
    BY <1>3, <1>6, <2>2
<1> QED
  BY <1>6, <1>13, <1>14 DEF s, m

\* Every instruction emits a text.
LEMMA EmitsText ==
  ASSUME Placed, NEW b \in Block, Catered(b), Leads(b),
         NEW i \in Nat, i + 1 \in DOMAIN blocks[b].code,
         IR!IsTerminator(blocks[b].code[i + 1]) => i + 1 = Len(blocks[b].code)
  PROVE  IsText(Emit(blocks[b].code[i + 1], b))
<1> DEFINE s == Entered(Execution(<<>>))
           m == [Machine(<<>>) EXCEPT !.mode = "run"]
<1>1. Linked(s, m, b, i) /\ Truthful(s) /\ s.mode = "run"
  BY NothingComputed
<1> HIDE DEF s, m
<1> QED
  BY <1>1, RunningLinked

\* The IR and the machine stay linked over an instruction and what is emitted for it.
LEMMA InstructionLinked ==
  ASSUME Placed, NEW b \in Block, Catered(b), Leads(b),
         NEW i \in Nat, i + 1 \in DOMAIN blocks[b].code,
         IR!IsTerminator(blocks[b].code[i + 1]) => i + 1 = Len(blocks[b].code),
         NEW s, NEW m, Linked(s, m, b, i), Truthful(s)
  PROVE  LET inst == blocks[b].code[i + 1]
         IN Linked(IR!Executed(s, inst), Ran(m, Emit(inst, b)), b, i + 1)
<1> DEFINE inst == blocks[b].code[i + 1]
           text == Emit(inst, b)
<1>1. CASE s.mode = "run"
  BY <1>1, RunningLinked
<1>2. CASE s.mode # "run"
  <2>1. IR!Executed(s, inst) = s
    BY <1>2 DEF IR!Executed
  <2>2. IsText(text)
    BY EmitsText
  <2> HIDE DEF text
  <2>3. m.mode \notin {"run", "skip"}
    BY <1>2 DEF Linked
  <2>4. Ran(m, text) = m
    BY <2>2, <2>3, TextShape, RanIdle
  <2>5. Linked(s, m, b, i + 1)
    BY <1>2 DEF Linked
  <2> QED
    BY <2>1, <2>4, <2>5 DEF text
<1> QED
  BY <1>1, <1>2

\* An instruction keeps what comparisons compute 0 or 1.
LEMMA TruthfulNext ==
  ASSUME IsFunction(blocks), NEW b \in Block, NEW i \in DOMAIN blocks[b].code,
         NEW s, IsState(s), Truthful(s)
  PROVE  Truthful(IR!Executed(s, blocks[b].code[i]))
<1> DEFINE inst == blocks[b].code[i]
           t == IR!Executed(s, inst)
           q == <<b, i>>
<1>1. /\ inst \in IRInstruction(blocks) /\ WellFormed(inst)
      /\ q \in IR!Positions(blocks) /\ IR!At(blocks, q) = inst
  BY OperandsOf
<1>2. Effect(s, inst, t)
  BY <1>1, ExecutedEffect
<1> HIDE DEF t
<1> SUFFICES ASSUME NEW v \in Truths PROVE t.env[v] \in {0, 1, IR!Undefined}
  BY DEF Truthful, t
<1>3. s.env[v] \in {0, 1, IR!Undefined}
  BY DEF Truthful
<1>4. PICK p \in IR!Positions(blocks) : IR!At(blocks, p).op \in Relations /\ v \in Result(IR!At(blocks, p))
  BY DEF Truths
<1> DEFINE x == IR!At(blocks, p)
           w == <<"temp", v>>
<1>5. /\ v \in Value /\ x.res \in Temporaries /\ v = x.res[2]
  <2>1. p[1] \in Block /\ p[2] \in DOMAIN blocks[p[1]].code /\ x = blocks[p[1]].code[p[2]]
    BY PositionShape DEF Block, IR!At
  <2>2. /\ Result(x) \subseteq Value /\ (x.res \in Temporaries => Result(x) = {x.res[2]})
        /\ x.res \in Temporaries \cup {IR!Null} /\ (x.res = IR!Null => Result(x) = {})
    <3> DEFINE y == blocks[p[1]].code[p[2]]
    <3>1. /\ Result(y) \subseteq Value /\ (y.res \in Temporaries => Result(y) = {y.res[2]})
          /\ y.res \in Temporaries \cup {IR!Null} /\ (y.res = IR!Null => Result(y) = {})
      BY <2>1, OperandsOf
    <3> HIDE DEF x, y
    <3> QED
      BY <2>1, <3>1 DEF y
  <2> QED
    BY <1>4, <2>2
<1>6. w = x.res /\ w \in Temporaries /\ w[2] = v
  BY <1>5, TemporaryShape
<1> HIDE DEF x, w, inst, q
<1>7. CASE s.mode # "run" \/ w # inst.res
  <2>1. t.env[v] = s.env[v]
    BY <1>2, <1>6, <1>7 DEF Effect
  <2> QED
    BY <1>3, <2>1
<1>8. CASE s.mode = "run" /\ w = inst.res
  <2>1. p = q
    BY <1>1, <1>5, <1>6, <1>8, OneDefinition DEF x
  <2>2. inst.op \in Relations
    BY <1>1, <1>4, <2>1
  <2>3. IR!IsPure(inst)
    BY <2>2 DEF IR!IsPure, Relations, IR!BinaryOperators, IR!Relations, IR!Equalities
  <2>4. t.env[v] = PureValue(s, inst)
    BY <1>2, <1>6, <1>8, <2>3 DEF Effect
  <2> DEFINE l == IR!ValueIn(s, inst.args[1])
             r == IR!ValueIn(s, inst.args[2])
  <2>5. PureValue(s, inst) = IR!Applied(inst.op, l, r)
    BY <2>2 DEF PureValue, Relations
  <2> HIDE DEF l, r
  <2>6. IR!Applied(inst.op, l, r) \in {0, 1, IR!Undefined}
    BY <2>2 DEF IR!Applied, Relations
  <2> QED
    BY <2>4, <2>5, <2>6
<1> QED
  BY <1>7, <1>8

\* Where a block is entered with all that it needs in place, all is in place.
LEMMA EnteredLinked ==
  ASSUME Placed, NEW s, IsState(s), NEW m, IsMachine(m), m.calls = s.calls, m.answers = s.answers,
         s.to \in Block, Arrives(s, m, s.from, s.to)
  PROVE  Linked(Entered(s), [m EXCEPT !.mode = "run"], s.to, 0)
<1> DEFINE b == s.to
           env == s.env
           t == [s EXCEPT !.mode = "run", !.entry = env]
           k == [m EXCEPT !.mode = "run"]
<1>q. k = [m EXCEPT !.mode = "run"] /\ t = [s EXCEPT !.mode = "run", !.entry = env] /\ Entered(s) = t
  BY DEF Entered
<1> HIDE DEF t, k
<1>1. k.mode = "run" /\ k.regs = m.regs /\ k.calls = m.calls /\ k.answers = m.answers
  BY <1>q DEF IsMachine
<1>2. IsMachine(k)
  BY <1>q, <1>1 DEF IsMachine
<1> HIDE DEF env
<1>3. /\ t.mode = "run" /\ t.env = s.env /\ t.entry = env /\ t.from = s.from
      /\ t.calls = s.calls /\ t.answers = s.answers
  BY <1>q DEF IsState
<1>4. IsState(t)
  BY <1>q, <1>3 DEF IsState
<1>5. ASSUME NEW j \in LeadingPhis(b)
      PROVE  IR!IncomingFrom(t, blocks[b].code[j]) = IR!ValueIn(s, Incoming(blocks[b].code[j], s.from))
  <2> DEFINE phi == blocks[b].code[j]
             x == phi.args[IR!EntryFor(phi, s.from)]
             e == [t EXCEPT !.env = t.entry]
  <2>1. s.from \in IR!ToSet(phi.from)
    BY DEF Arrives
  <2>2. IR!IncomingFrom(t, phi) = IR!ValueIn(e, x)
    BY <1>3, <2>1 DEF IR!IncomingFrom
  <2>3. e.env = s.env
    BY <1>3, <1>4 DEF IsState, env
  <2>4. Incoming(phi, s.from) = x
    BY DEF Incoming
  <2> HIDE DEF e, x
  <2>5. IR!ValueIn(e, x) = IR!ValueIn(s, x)
    BY <2>3 DEF IR!ValueIn
  <2> QED
    BY <2>2, <2>4, <2>5
<1>6. Holds(t, k, b, 0)
  BY <1>1, <1>3, <1>5 DEF Holds, Arrives
<1>7. Linked(t, k, b, 0)
  BY <1>1, <1>2, <1>3, <1>4, <1>6 DEF Linked
<1> QED
  BY <1>7, <1>q DEF k

\* The lines for a block.
Lines(b) == [i \in DOMAIN blocks[b].code |-> Emit(blocks[b].code[i], b)]

LEMMA LinesText ==
  ASSUME Placed, NEW b \in Enterable(blocks), Catered(b), Leads(b)
  PROVE  /\ b \in Block /\ IsText(Lines(b)) /\ Len(Lines(b)) = Len(blocks[b].code)
         /\ Len(blocks[b].code) \in Nat \ {0} /\ DOMAIN blocks[b].code = 1..Len(blocks[b].code)
         /\ \A i \in 1..Len(blocks[b].code) :
              /\ Lines(b)[i] = Emit(blocks[b].code[i], b) /\ IsText(Lines(b)[i])
              /\ IR!IsTerminator(blocks[b].code[i]) <=> i = Len(blocks[b].code)
<1> DEFINE n == Len(blocks[b].code)
           lines == Lines(b)
<1>0. IsFunction(blocks)
  BY DEF Placed
<1>1. /\ b \in Block /\ n \in DOMAIN blocks[b].code /\ DOMAIN blocks[b].code = 1..n /\ n \in Nat
      /\ IR!IsTerminator(blocks[b].code[n])
      /\ \A i \in DOMAIN blocks[b].code : i # n => ~IR!IsTerminator(blocks[b].code[i])
  BY <1>0, TerminatorLast, FunctionShape DEF Block
<1>2. n # 0
  BY <1>1
<1>3. ASSUME NEW i \in 1..n PROVE lines[i] = Emit(blocks[b].code[i], b) /\ IsText(lines[i])
  <2> DEFINE k == i - 1
  <2>1. k \in Nat /\ k + 1 = i /\ i \in DOMAIN blocks[b].code
    BY <1>1
  <2> HIDE DEF k
  <2>2. IR!IsTerminator(blocks[b].code[k + 1]) => k + 1 = n
    BY <1>1, <2>1
  <2>3. IsText(Emit(blocks[b].code[k + 1], b))
    BY <1>1, <2>1, <2>2, EmitsText
  <2> QED
    BY <2>1, <2>3 DEF Lines
<1>4. IsText(lines) /\ Len(lines) = n
  <2> DEFINE T == {lines[i] : i \in 1..n}
  <2>1. lines \in [1..n -> T] /\ n \in Nat
    BY <1>1 DEF Lines
  <2> HIDE DEF T, lines, n
  <2>2. lines \in Seq(T) /\ Len(lines) = n
    BY <2>1
  <2> QED
    BY <2>2 DEF IsText
<1> QED
  BY <1>1, <1>2, <1>3, <1>4

\* Over a block the IR and the machine stay linked.
LEMMA BlockLinked ==
  ASSUME Placed, NEW b \in Enterable(blocks), Catered(b), Leads(b),
         NEW s, s.to = b, NEW m, Linked(Entered(s), m, b, 0), Truthful(Entered(s)),
         Entered(s).mode = "run"
  PROVE  LET t == IR!ExecuteBlock(blocks, s)
         IN /\ Linked(t, Ran(m, FlattenSeq(Lines(b))), b, 0) /\ Truthful(t) /\ t.from = b
            /\ t.mode \in {"next", "done", "stuck"}
<1> DEFINE n == Len(blocks[b].code)
           seqs == Lines(b)
           t == IR!ExecuteBlock(blocks, s)
           inst(i) == blocks[b].code[i]
<1>0. IsFunction(blocks)
  BY DEF Placed
<1>1. /\ b \in Block /\ IsText(seqs) /\ Len(seqs) = n /\ n \in Nat \ {0} /\ DOMAIN blocks[b].code = 1..n
      /\ \A i \in 1..n : IsText(seqs[i]) /\ seqs[i] = Emit(inst(i), b)
                         /\ (IR!IsTerminator(inst(i)) <=> i = n)
  BY LinesText
<1> HIDE DEF seqs
<1>2. PICK F : Joins(F, seqs) /\ FlattenSeq(seqs) = F[n]
  BY <1>1, FlattenJoins
<1>3. /\ F[0] = <<>>
      /\ \A i \in 1..n : F[i] = F[i - 1] \o seqs[i]
      /\ \A i \in 0..n : IsText(F[i])
  BY <1>1, <1>2 DEF Joins
<1>4. PICK w : IsTrace(w, blocks, s, n) /\ t = [w[n] EXCEPT !.from = b]
  <2>1. n \in Nat /\ n = Len(blocks[s.to].code)
    BY <1>1
  <2> HIDE DEF n
  <2> QED
    BY <2>1, BlockRun
<1>5. /\ w[0] = Entered(s)
      /\ \A i \in 1..n : w[i] = IR!Executed(w[i - 1], inst(i))
  BY <1>4 DEF IsTrace
<1> DEFINE Good == {i \in Nat : i <= n =>
                      /\ Linked(w[i], Ran(m, F[i]), b, i) /\ Truthful(w[i])
                      /\ i < n => w[i].mode \in {"run", "stuck"}
                      /\ i = n => w[i].mode \in {"next", "done", "stuck"}}
<1>6. 0 \in Good
  <2>1. Ran(m, F[0]) = m
    BY <1>3, RanNothing
  <2>2. 0 # n
    BY <1>1
  <2> HIDE DEF n
  <2> QED
    BY <1>5, <2>1, <2>2
<1>7. ASSUME NEW i \in Nat, i \in Good PROVE i + 1 \in Good
  <2> SUFFICES ASSUME i + 1 <= n
               PROVE  /\ Linked(w[i + 1], Ran(m, F[i + 1]), b, i + 1) /\ Truthful(w[i + 1])
                      /\ i + 1 < n => w[i + 1].mode \in {"run", "stuck"}
                      /\ i + 1 = n => w[i + 1].mode \in {"next", "done", "stuck"}
    OBVIOUS
  <2> DEFINE j == i + 1
             u == w[i]
             k == Ran(m, F[i])
             x == inst(j)
  <2>1. j \in 1..n /\ j - 1 = i /\ i < n /\ i <= n /\ i \in 0..n /\ j \in DOMAIN blocks[b].code
    BY <1>1
  <2>2. Linked(u, k, b, i) /\ Truthful(u) /\ u.mode \in {"run", "stuck"} /\ IsState(u)
    BY <1>7, <2>1 DEF Linked
  <2>3. w[j] = IR!Executed(u, x)
    BY <1>5, <2>1
  <2>4. F[j] = F[i] \o seqs[j] /\ IsText(F[i]) /\ IsText(seqs[j]) /\ seqs[j] = Emit(x, b)
    BY <1>1, <1>3, <2>1
  <2>5. Ran(m, F[j]) = Ran(k, Emit(x, b))
    BY <2>4, RanThen
  <2>6. Linked(IR!Executed(u, x), Ran(k, Emit(x, b)), b, j)
    <3>1. i + 1 \in DOMAIN blocks[b].code
      BY <2>1
    <3>2. IR!IsTerminator(blocks[b].code[i + 1]) => i + 1 = Len(blocks[b].code)
      BY <1>1, <2>1
    <3> HIDE DEF u, k, n
    <3> QED
      BY <1>1, <2>2, <3>1, <3>2, InstructionLinked
  <2>7. Truthful(w[j])
    <3> HIDE DEF u
    <3> QED
      BY <1>0, <1>1, <2>1, <2>2, <2>3, TruthfulNext
  <2>8. Effect(u, x, w[j])
    <3>1. x \in IRInstruction(blocks) /\ WellFormed(x)
      BY <1>0, <1>1, <2>1, OperandsOf
    <3> HIDE DEF u, x
    <3> QED
      BY <1>0, <2>2, <2>3, <3>1, ExecutedEffect
  <2>9. IR!IsTerminator(x) <=> j = n
    BY <1>1, <2>1
  <2> HIDE DEF j, x, u, k, n
  <2>10. /\ j < n => w[j].mode \in {"run", "stuck"}
         /\ j = n => w[j].mode \in {"next", "done", "stuck"}
    <3>1. j < n => j # n
      BY <1>1, <2>1
    <3> QED
      BY <2>2, <2>8, <2>9, <3>1 DEF Effect
  <2> QED
    BY <2>3, <2>5, <2>6, <2>7, <2>10 DEF j
<1>8. \A i \in Nat : i \in Good
  <2>1. 1 \in Nat \ {0}
    OBVIOUS
  <2> HIDE DEF Good
  <2> QED
    BY <1>6, <1>7, <2>1, Paths!CountingUp
<1> DEFINE u == w[n]
           k == Ran(m, F[n])
<1>9. Linked(u, k, b, n) /\ Truthful(u) /\ u.mode \in {"next", "done", "stuck"}
  <2>1. n \in Nat /\ n <= n
    BY <1>1
  <2> HIDE DEF n
  <2> QED
    BY <1>8, <2>1
<1>10. IsState(u) /\ t = [u EXCEPT !.from = b]
  BY <1>4, <1>9 DEF Linked
<1> HIDE DEF u, k, t, n
<1>11. /\ t.from = b /\ t.env = u.env /\ t.mode = u.mode /\ t.to = u.to /\ t.val = u.val
       /\ t.calls = u.calls /\ t.answers = u.answers
  BY <1>10 DEF IsState
<1>12. IsState(t)
  BY <1>10, <1>11 DEF IsState
<1>13. Truthful(t)
  BY <1>9, <1>11 DEF Truthful
<1>14. \A x : IR!ValueIn(t, x) = IR!ValueIn(u, x)
  BY <1>11 DEF IR!ValueIn
<1>15. Linked(t, k, b, 0)
  BY <1>9, <1>11, <1>12, <1>14 DEF Linked, Arrives
<1> QED
  BY <1>2, <1>9, <1>11, <1>13, <1>15 DEF k, t, seqs, n

-----------------------------------------------------------------------------
(* The function has none of the gaps.                                      *)

\* As FaithfulCode demands.
NoGaps == (IF Loops \/ ~DefinedOnEveryWay THEN gaps ELSE gaps \ {"intervals"}) = {}

\* What it means for the values and the instructions to have none of the gaps.
LEMMA GapsClosed ==
  ASSUME gaps = Gaps, NoGaps
  PROVE  /\ \A v \in Value : valueToStackSlot[v] = NoSlot
         /\ \A p \in IR!Positions(blocks) :
              LET inst == IR!At(blocks, p)
                  living == Living(LivingAtStarts, p[1], p[2])
              IN /\ ~Untranslated(inst) /\ ~NotEncodable(inst)
                 /\ ~ScratchTaken(inst, living) /\ ~ArgumentOverwritten(inst) /\ ~LostInCall(inst, living)
                 /\ ~Misplaced(p)
                 /\ Loops \/ ~DefinedOnEveryWay => ~Overwrites(inst, living)
         /\ \A b \in Block : \A to \in Successors(b) : ~MoveMissing(b, to) /\ ~MovesClash(b, to)
<1> DEFINE inst(p) == IR!At(blocks, p)
           living(p) == Living(LivingAtStarts, p[1], p[2])
           Positions == IR!Positions(blocks)
<1>1. /\ "spills" \notin gaps /\ "operations" \notin gaps /\ "operands" \notin gaps
      /\ "scratch" \notin gaps /\ "arguments" \notin gaps /\ "calls" \notin gaps /\ "moves" \notin gaps
      /\ Loops \/ ~DefinedOnEveryWay => "intervals" \notin gaps
  BY DEF NoGaps
<1>2. "operations" \in Gaps <=> \E p \in Positions : Untranslated(inst(p))
  BY DEF Gaps
<1>3. "operands" \in Gaps <=> \E p \in Positions : NotEncodable(inst(p))
  BY DEF Gaps
<1>4. "scratch" \in Gaps <=> \E p \in Positions : ScratchTaken(inst(p), living(p))
  BY DEF Gaps
<1>5. "arguments" \in Gaps <=> \E p \in Positions : ArgumentOverwritten(inst(p))
  BY DEF Gaps
<1>6. "calls" \in Gaps <=> \E p \in Positions : LostInCall(inst(p), living(p))
  BY DEF Gaps
<1>7. "intervals" \in Gaps <=> \E p \in Positions : Overwrites(inst(p), living(p))
  BY DEF Gaps
<1>8. "moves" \in Gaps <=> \/ \E p \in Positions : Misplaced(p)
                           \/ \E b \in Block : \E to \in Successors(b) :
                                MoveMissing(b, to) \/ MovesClash(b, to)
  BY DEF Gaps
<1>9. "spills" \in Gaps <=> \E v \in Value : valueToStackSlot[v] # NoSlot
  BY DEF Gaps
<1> HIDE DEF inst, living, Positions
<1>10. \A v \in Value : valueToStackSlot[v] = NoSlot
  BY <1>1, <1>9
<1>11. ASSUME NEW p \in Positions
       PROVE  /\ ~Untranslated(inst(p)) /\ ~NotEncodable(inst(p))
              /\ ~ScratchTaken(inst(p), living(p)) /\ ~ArgumentOverwritten(inst(p))
              /\ ~LostInCall(inst(p), living(p))
              /\ ~Misplaced(p)
              /\ Loops \/ ~DefinedOnEveryWay => ~Overwrites(inst(p), living(p))
  BY <1>1, <1>2, <1>3, <1>4, <1>5, <1>6, <1>7, <1>8
<1>12. \A b \in Block : \A to \in Successors(b) : ~MoveMissing(b, to) /\ ~MovesClash(b, to)
  BY <1>1, <1>8
<1> QED
  BY <1>10, <1>11, <1>12 DEF inst, living, Positions

\* What control may enter: with no loop, what is live there is defined above.
Open(b) == ~Loops /\ DefinedOnEveryWay => DefinedAbove(b)

\* The instructions of a block that can be entered are all catered for.
LEMMA OpenCatered ==
  ASSUME Placed, gaps = Gaps, NoGaps, NEW b \in Block, Open(b)
  PROVE  Catered(b)
<1>0. IsFunction(blocks)
  BY DEF Placed
<1> SUFFICES ASSUME NEW i \in DOMAIN blocks[b].code
             PROVE  LET inst == blocks[b].code[i]
                        living == Living(LivingAtStarts, b, i)
                    IN /\ ~Untranslated(inst) /\ ~NotEncodable(inst)
                       /\ ~ScratchTaken(inst, living) /\ ~ArgumentOverwritten(inst)
                       /\ ~LostInCall(inst, living) /\ ~Overwrites(inst, living)
                       /\ inst.op = "phi" => i \in LeadingPhis(b)
  BY DEF Catered
<1> DEFINE p == <<b, i>>
           inst == blocks[b].code[i]
           living == Living(LivingAtStarts, b, i)
<1>1. p \in IR!Positions(blocks) /\ IR!At(blocks, p) = inst
  BY <1>0, OperandsOf
<1>2. p[1] = b /\ p[2] = i
  OBVIOUS
<1> HIDE DEF p
<1>3. /\ ~Untranslated(inst) /\ ~NotEncodable(inst)
      /\ ~ScratchTaken(inst, living) /\ ~ArgumentOverwritten(inst) /\ ~LostInCall(inst, living)
      /\ ~Misplaced(p)
      /\ Loops \/ ~DefinedOnEveryWay => ~Overwrites(inst, living)
  BY <1>1, <1>2, GapsClosed
<1>4. ~Overwrites(inst, living)
  <2>1. CASE Loops \/ ~DefinedOnEveryWay
    BY <1>3, <2>1
  <2>2. CASE ~Loops /\ DefinedOnEveryWay
    <3>1. Undisturbed(b)
      BY <2>2, NothingOverwritten DEF Open
    <3> QED
      BY <3>1 DEF Undisturbed
  <2> QED
    BY <2>1, <2>2
<1>5. inst.op = "phi" => i \in LeadingPhis(b)
  BY <1>1, <1>2, <1>3 DEF Misplaced
<1> QED
  BY <1>3, <1>4, <1>5

\* So are the jumps to its successors, which can be entered, too.
LEMMA OpenLeads ==
  ASSUME Placed, gaps = Gaps, NoGaps, NEW b \in Block, Open(b)
  PROVE  Leads(b) /\ \A to \in Successors(b) : to \in Enterable(blocks) /\ Open(to)
<1>0. IsFunction(blocks)
  BY DEF Placed
<1>1. ASSUME NEW to \in Successors(b)
      PROVE  /\ ~MoveMissing(b, to) /\ ~MovesClash(b, to) /\ Catered(to)
             /\ to \in Enterable(blocks) /\ Open(to)
  <2>1. to \in Block
    BY <1>0, SuccessorBlocks
  <2>2. Open(to)
    BY <1>0, DefinedOnTheWay DEF Open
  <2>3. Catered(to)
    BY <2>1, <2>2, OpenCatered
  <2>4. to \in Enterable(blocks)
    <3> DEFINE n == Len(blocks[b].code)
    <3>1. /\ n \in Nat /\ DOMAIN blocks[b].code = 1..n /\ blocks[b].code \in Seq(IRInstruction(blocks))
      BY <1>0, FunctionShape DEF Block
    <3>2. IR!Terminated(blocks[b]) /\ to \in IR!ToSet(blocks[b].code[n].to)
      <4>1. IR!Terminated(blocks[b])
        BY DEF Successors, IR!Targets, IR!ToSet
      <4> QED
        BY <4>1 DEF Successors, IR!Targets, IR!Last
    <3>3. n \in DOMAIN blocks[b].code
      <4>1. blocks[b].code # <<>>
        BY <3>2 DEF IR!Terminated
      <4> QED
        BY <3>1, <4>1
    <3> QED
      BY <1>0, <3>2, <3>3, BranchTargets DEF Block
  <2> QED
    BY <2>1, <2>2, <2>3, <2>4, GapsClosed
<1> QED
  BY <1>1 DEF Leads

-----------------------------------------------------------------------------
(* The run.                                                                *)

\* Between two blocks the IR and the machine have come equally far, and the machine
\* has what the next block needs.
InStep(s, m) ==
  /\ IsState(s) /\ IsMachine(m) /\ Truthful(s)
  /\ s.mode \in {"next", "done", "stuck"}
  /\ m.mode = s.mode /\ m.calls = s.calls /\ m.answers = s.answers
  /\ s.mode = "done" => m.val = s.val
  /\ s.mode = "next" => /\ m.to = s.to /\ s.to \in Enterable(blocks) /\ Open(s.to)
                        /\ Linked(Entered(s), [m EXCEPT !.mode = "run"], s.to, 0)

\* The call of the function puts both in step.
LEMMA InStepStart ==
  ASSUME Placed, NEW answers
  PROVE  InStep(Execution(answers), Machine(answers))
<1> DEFINE s == Execution(answers)
           m == Machine(answers)
           env == [v \in Value |-> IR!Undefined]
           regs == [r \in Registers |-> IR!Undefined]
<1>0. IsFunction(blocks)
  BY DEF Placed
<1>1. s = [mode |-> "next", to |-> 1, from |-> 0, env |-> env, entry |-> <<>>, mem |-> env,
           answers |-> answers, calls |-> <<>>, val |-> IR!Undefined]
  BY DEF Execution
<1>2. m = [mode |-> "next", to |-> 1, regs |-> regs, flags |-> <<0, 0>>,
           answers |-> answers, calls |-> <<>>, val |-> IR!Undefined]
  BY DEF Machine
<1>3. env = [v \in Value |-> env[v]] /\ regs = [r \in Registers |-> regs[r]]
  OBVIOUS
<1>4. 1 \in Block /\ 1 \in Enterable(blocks)
  BY <1>0, FunctionShape DEF Enterable, Block
<1>5. Linked(Entered(s), [m EXCEPT !.mode = "run"], 1, 0) /\ Truthful(Entered(s))
  BY <1>4, NothingComputed
<1> HIDE DEF s, m, env, regs
<1>6. /\ s.mode = "next" /\ s.to = 1 /\ s.env = env /\ s.calls = <<>> /\ s.answers = answers
      /\ m.mode = "next" /\ m.to = 1 /\ m.regs = regs /\ m.calls = <<>> /\ m.answers = answers
  BY <1>1, <1>2
<1>7. IsState(s)
  BY <1>1, <1>3, <1>6 DEF IsState
<1>8. IsMachine(m)
  BY <1>2, <1>3, <1>6 DEF IsMachine
<1>9. Truthful(s)
  <2> DEFINE e == Entered(s)
  <2>1. e.env = s.env
    BY <1>7 DEF IsState, Entered
  <2> HIDE DEF e
  <2>2. Truthful(e)
    BY <1>5 DEF e
  <2> QED
    BY <2>1, <2>2 DEF Truthful
<1>10. Open(1)
  BY DEF Open, DefinedOnEveryWay, DefinedAbove
<1>11. InStep(s, m)
  BY <1>4, <1>5, <1>6, <1>7, <1>8, <1>9, <1>10 DEF InStep
<1> QED
  BY <1>11 DEF s, m

\* A block keeps both in step.
LEMMA InStepNext ==
  ASSUME Placed, gaps = Gaps, NoGaps, asm = GenerateFunction,
         NEW s, NEW m, InStep(s, m), s.mode = "next"
  PROVE  InStep(IR!ExecuteBlock(blocks, s), RunAsm(m))
<1> DEFINE b == s.to
           k == [m EXCEPT !.mode = "run"]
           t == IR!ExecuteBlock(blocks, s)
           n == Ran(k, FlattenSeq(Lines(b)))
           e == Entered(s)
<1>0. IsFunction(blocks)
  BY DEF Placed
<1>1. /\ m.to = b /\ b \in Enterable(blocks) /\ Open(b) /\ Linked(e, k, b, 0)
      /\ IsState(s) /\ Truthful(s)
  BY DEF InStep
<1>2. b \in Block
  BY <1>1 DEF Enterable, Block
<1>3. Catered(b) /\ Leads(b) /\ \A to \in Successors(b) : to \in Enterable(blocks) /\ Open(to)
  BY <1>1, <1>2, OpenCatered, OpenLeads
<1>4. RunAsm(m) = n
  <2>1. asm[b] = FlattenSeq(Lines(b))
    BY <1>2 DEF GenerateFunction, Lines, Block
  <2> QED
    BY <1>1, <2>1 DEF RunAsm
<1>5. e.mode = "run" /\ e.env = s.env
  BY <1>1 DEF IsState, Entered
<1>6. Truthful(e)
  <2> HIDE DEF e
  <2> QED
    BY <1>1, <1>5 DEF Truthful
<1>7. Linked(t, n, b, 0) /\ Truthful(t) /\ t.from = b /\ t.mode \in {"next", "done", "stuck"}
  <2> HIDE DEF k
  <2> QED
    BY <1>1, <1>3, <1>5, <1>6, BlockLinked
<1> HIDE DEF b, k, t, n, e
<1>8. /\ IsState(t) /\ IsMachine(n) /\ n.mode = t.mode /\ n.calls = t.calls /\ n.answers = t.answers
      /\ t.mode = "done" => n.val = t.val
      /\ t.mode = "next" => n.to = t.to /\ t.to \in Successors(b) /\ Arrives(t, n, b, t.to)
  BY <1>7 DEF Linked
<1>9. ASSUME t.mode = "next"
      PROVE  t.to \in Enterable(blocks) /\ Open(t.to) /\ Linked(Entered(t), [n EXCEPT !.mode = "run"], t.to, 0)
  <2>1. t.to \in Block
    BY <1>0, <1>2, <1>8, <1>9, SuccessorBlocks
  <2> QED
    BY <1>3, <1>7, <1>8, <1>9, <2>1, EnteredLinked
<1>10. InStep(t, n)
  BY <1>7, <1>8, <1>9 DEF InStep
<1> QED
  BY <1>4, <1>10 DEF t

\* Once the assembly is there, the function, the places and the assembly stay.
FaithfulInv ==
  /\ source # <<>> => code = Compiled(blocks)
  /\ asm # <<>> => phase = "done" /\ asm = GenerateFunction /\ gaps = Gaps
  /\ Running => asm # <<>>
  /\ Running /\ NoGaps => \A s, m : s = run.ir /\ m = run.machine => InStep(s, m)

\* The allocator has placed the values of a function without gaps.
LEMMA PlacedThen ==
  ASSUME IInv, Recorded, BackendInv, FaithfulInv, asm # <<>>, NoGaps
  PROVE  Placed
<1>1. source # <<>> /\ source \in Functions /\ blocks = IR!Optimized(source)
  BY DEF BackendInv
<1>2. IsFunction(blocks)
  BY <1>1, FunctionsAssumption, OptimizedIs, NumberedFunction
<1>3. gaps = Gaps /\ phase = "done" /\ code = Compiled(blocks)
  BY <1>1 DEF FaithfulInv
<1>4. \A v \in Value : valueToStackSlot[v] = NoSlot
  BY <1>3, GapsClosed
<1> QED
  BY <1>2, <1>3, <1>4 DEF Placed

\* What is emitted depends on nothing but these.
Frozen == UNCHANGED <<blocks, valueToReg, valueToStackSlot>>

LEMMA FrozenGaps ==
  ASSUME Frozen
  PROVE  Gaps' = Gaps
  BY DEF Frozen, Gaps, LivingAtStarts, ReadByPhis, LeadingPhis, Successors, UsedAfter, KeptAfter,
         Block, Living, LivingOut, Untranslated, NotEncodable, Truths, ScratchTaken, RegsOf,
         ArgumentOverwritten, LostInCall, Overwrites, Misplaced, MoveMissing, MovesClash,
         GetOperand, AllocResult, IsSpilled

LEMMA FrozenText ==
  ASSUME Frozen
  PROVE  GenerateFunction' = GenerateFunction
  BY DEF Frozen, GenerateFunction, Emit, EmitBinary, EmitCall, EmitNot, EmitCondBr, EmitRet,
         JumpTo, EmitPhiMoves, PhiMove, ArgMove, LeadingPhis, GetOperand, AllocResult, IsSpilled,
         LoadSpilled

LEMMA FrozenInStep ==
  ASSUME Frozen, NEW s, NEW m
  PROVE  InStep(s, m)' = InStep(s, m)
  BY DEF Frozen, InStep, Truthful, Truths, Linked, Holds, Arrives, Open, Loops, DefinedOnEveryWay,
         DefinedAbove, LivingAtStarts, ReadByPhis, LeadingPhis, Successors, UsedAfter, KeptAfter,
         Block, Living, LivingOut

LEMMA FrozenNoGaps ==
  ASSUME Frozen, gaps' = gaps
  PROVE  NoGaps' = NoGaps
  BY DEF Frozen, NoGaps, Loops, DefinedOnEveryWay, LivingAtStarts, ReadByPhis, LeadingPhis,
         Successors, UsedAfter, KeptAfter, Block

LEMMA FaithfulStart == BackendInit => FaithfulInv
<1> SUFFICES ASSUME BackendInit PROVE FaithfulInv
  OBVIOUS
<1>1. ~Running /\ asm = <<>>
  BY DEF BackendInit, NotRunning, Running
<1>2. source # <<>> => code = Compiled(blocks)
  BY DEF BackendInit
<1> QED
  BY <1>1, <1>2 DEF FaithfulInv

\* FaithfulInv is inductive, together with what is known of passes and allocator.
LEMMA FaithfulStep ==
  IInv /\ Recorded /\ BackendInv /\ FaithfulInv /\ [BackendNext]_<<vars, backend>> => FaithfulInv'
<1> SUFFICES ASSUME IInv, Recorded, BackendInv, FaithfulInv, [BackendNext]_<<vars, backend>>
             PROVE  FaithfulInv'
  OBVIOUS
<1>1. ASSUME UNCHANGED <<vars, backend>> PROVE FaithfulInv'
  <2>1. /\ source' = source /\ code' = code /\ blocks' = blocks /\ phase' = phase /\ asm' = asm
        /\ gaps' = gaps /\ run' = run
    BY <1>1 DEF vars, backend
  <2>2. Frozen
    BY <1>1 DEF vars, backend, Frozen
  <2>3. Running' = Running
    BY <2>1 DEF Running
  <2>4. ASSUME Running, NoGaps, NEW s, NEW m, s = run.ir, m = run.machine PROVE InStep(s, m)'
    <3>1. InStep(s, m)
      BY <2>4 DEF FaithfulInv
    <3> QED
      BY <2>2, <3>1, FrozenInStep
  <2> QED
    BY <2>1, <2>2, <2>3, <2>4, FrozenGaps, FrozenText, FrozenNoGaps DEF FaithfulInv
<1>2. CASE Allocate
  <2>1. /\ source' = source /\ blocks' = blocks /\ asm' = asm /\ gaps' = gaps /\ run' = run
    BY <1>2 DEF Allocate, backend
  <2>2. code' = code /\ phase # "done"
    BY <1>2 DEF Allocate, Next, VisitInstruction, ComputeLiveIntervals, AllocateRegister,
                SpillCandidate, SpillCurrent, NextInterval, Finish
  <2>3. asm = <<>>
    BY <2>2 DEF FaithfulInv
  <2>4. ~Running /\ Running' = Running
    BY <2>1, <2>3 DEF FaithfulInv, Running
  <2> QED
    BY <2>1, <2>2, <2>3, <2>4 DEF FaithfulInv
<1>3. CASE GenerateAssembly
  <2>1. /\ source' = source /\ code' = code /\ blocks' = blocks /\ phase' = phase /\ run' = run
        /\ phase = "done" /\ asm = <<>> /\ asm' = GenerateFunction /\ gaps' = Gaps
    BY <1>3 DEF GenerateAssembly, vars
  <2>2. Frozen
    BY <1>3 DEF GenerateAssembly, vars, Frozen
  <2>3. ~Running /\ Running' = Running
    BY <2>1 DEF FaithfulInv, Running
  <2> QED
    BY <2>1, <2>2, <2>3, FrozenGaps, FrozenText DEF FaithfulInv
<1>4. CASE Execute
  <2>1. /\ source' = source /\ code' = code /\ blocks' = blocks /\ phase' = phase /\ asm' = asm
        /\ gaps' = gaps /\ asm # <<>>
    BY <1>4 DEF Execute, vars
  <2>2. Frozen
    BY <1>4 DEF Execute, vars, Frozen
  <2>3. PICK answers \in Answers :
          run' = [turns |-> 1, source |-> Execution(answers), ir |-> Execution(answers),
                  machine |-> Machine(answers)]
    BY <1>4 DEF Execute
  <2>4. run'.ir = Execution(answers) /\ run'.machine = Machine(answers)
    BY <2>3
  <2>5. ASSUME NoGaps, NEW s, NEW m, s = run'.ir, m = run'.machine PROVE InStep(s, m)'
    <3>1. InStep(s, m)
      BY <2>1, <2>4, <2>5, PlacedThen, InStepStart
    <3> QED
      BY <2>2, <3>1, FrozenInStep
  <2> QED
    BY <2>1, <2>2, <2>5, FrozenGaps, FrozenText, FrozenNoGaps DEF FaithfulInv
<1>5. CASE ExecuteBlock
  <2>1. /\ source' = source /\ code' = code /\ blocks' = blocks /\ phase' = phase /\ asm' = asm
        /\ gaps' = gaps
    BY <1>5 DEF ExecuteBlock, vars
  <2>2. Frozen
    BY <1>5 DEF ExecuteBlock, vars, Frozen
  <2>3. Running
    BY <1>5 DEF ExecuteBlock, Running
  <2>4. asm # <<>>
    BY <2>3 DEF FaithfulInv
  <2> DEFINE t == run.ir
             n == run.machine
  <2>5. /\ run'.ir = IF t.mode = "next" THEN IR!ExecuteBlock(blocks, t) ELSE t
        /\ run'.machine = IF n.mode = "next" THEN RunAsm(n) ELSE n
    BY <1>5 DEF ExecuteBlock, Advanced
  <2>6. ASSUME NoGaps, NEW s, NEW m, s = run'.ir, m = run'.machine PROVE InStep(s, m)'
    <3>1. Placed /\ gaps = Gaps /\ asm = GenerateFunction
      BY <2>4, <2>6, PlacedThen DEF FaithfulInv
    <3>2. InStep(t, n)
      BY <2>3, <2>6 DEF FaithfulInv
    <3>3. n.mode = t.mode
      BY <3>2 DEF InStep
    <3> HIDE DEF t, n
    <3>4. InStep(s, m)
      <4>1. CASE t.mode = "next"
        <5>1. InStep(IR!ExecuteBlock(blocks, t), RunAsm(n))
          BY <2>6, <3>1, <3>2, <4>1, InStepNext
        <5> QED
          BY <2>5, <2>6, <3>3, <4>1, <5>1
      <4>2. CASE t.mode # "next"
        BY <2>5, <2>6, <3>2, <3>3, <4>2
      <4> QED
        BY <4>1, <4>2
    <3> QED
      BY <2>2, <3>4, FrozenInStep
  <2> QED
    BY <2>1, <2>2, <2>4, <2>6, FrozenGaps, FrozenText, FrozenNoGaps DEF FaithfulInv
<1> QED
  BY <1>1, <1>2, <1>3, <1>4, <1>5 DEF BackendNext

\* A function with none of the gaps runs as its IR does, whatever it calls and
\* however often control branches.
THEOREM FaithfulTheorem == BackendSpec => []FaithfulCode
<1>1. FaithfulInv => FaithfulCode
  <2> SUFFICES ASSUME FaithfulInv, Running, NoGaps PROVE Same(run.ir, run.machine)
    BY DEF FaithfulCode, NoGaps
  <2>1. InStep(run.ir, run.machine)
    BY DEF FaithfulInv
  <2> QED
    BY <2>1 DEF InStep, Same
<1>2. BackendSpec => []IInv
  BY BackendAllocates, Invariance, PTL
<1>3. BackendSpec => []Recorded
  BY BackendAllocates, RangesRecorded, PTL
<1>4. BackendSpec => []BackendInv
  BY BackendStart, BackendStep, PTL DEF BackendSpec
<1> QED
  BY <1>1, <1>2, <1>3, <1>4, FaithfulStart, FaithfulStep, PTL DEF BackendSpec

\* What is proved of the passes over instructions and of the backend together: if
\* what DCE, GVN and DCE have left of a function has none of the gaps (and so no
\* variable: loads and stores are a gap), the machine does block by block what the
\* function before them does.  It is nothing about SimplifyCFG, Mem2Reg and LICM,
\* which main runs as well.
THEOREM ScalarPassesAndMachineAlike ==
  BackendSpec => [](Running /\ NoGaps => Same(run.source, run.machine))
<1>1. PassesKeepMeaning /\ FaithfulCode => (Running /\ NoGaps => Same(run.source, run.machine))
  <2> SUFFICES ASSUME PassesKeepMeaning, FaithfulCode, Running, NoGaps
               PROVE  Same(run.source, run.machine)
    OBVIOUS
  <2>1. Same(run.source, run.ir)
    BY DEF PassesKeepMeaning
  <2>2. Same(run.ir, run.machine)
    BY DEF FaithfulCode, NoGaps
  <2> QED
    BY <2>1, <2>2 DEF Same
<1> QED
  BY <1>1, PassesKeepMeaningTheorem, FaithfulTheorem, PTL
=============================================================================
