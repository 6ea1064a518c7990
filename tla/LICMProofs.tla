----------------------------- MODULE LICMProofs -----------------------------
(***************************************************************************)
(* Proofs about LICM for functions of any size and shape without           *)
(* unreachable blocks, any number of loops, nested or not, and any order   *)
(* of them.                                                                *)
(***************************************************************************)
EXTENDS LICM, ControlFlowGraphProofs, SequenceTheorems

-----------------------------------------------------------------------------
(* Instructions in blocks.                                                 *)

Elems(s) == {s[i] : i \in DOMAIN s}
Once(s) == \A i, j \in DOMAIN s : s[i] = s[j] => i = j

\* What an instruction leaves when it is removed: all others, in their order.
LEMMA WithoutOne ==
  ASSUME NEW s \in Seq(Instr), Once(s), NEW v \in Elems(s)
  PROVE  /\ Without(s, v) \in Seq(Instr) /\ Once(Without(s, v))
         /\ Elems(Without(s, v)) = Elems(s) \ {v}
         /\ \A x, y : x # v /\ y # v /\ StandsBefore(s, x, y) => StandsBefore(Without(s, v), x, y)
<1> DEFINE k == CHOOSE i \in DOMAIN s : s[i] = v
           n == Len(s)
           t == [i \in 1..(n - 1) |-> IF i < k THEN s[i] ELSE s[i + 1]]
<1>1. Without(s, v) = t
  BY DEF Without
<1>2. n \in Nat /\ DOMAIN s = 1..n /\ s \in [1..n -> Instr]
  BY LenProperties
<1>3. k \in 1..n /\ s[k] = v
  BY <1>2 DEF Elems
<1>4. \A i, j \in 1..n : s[i] = s[j] => i = j
  BY <1>2 DEF Once
<1> HIDE DEF k, n
<1>5. DOMAIN t = 1..(n - 1) /\ t \in [1..(n - 1) -> Instr] /\ n - 1 \in Nat
  BY <1>2, <1>3
<1>6. t \in Seq(Instr)
  <2> HIDE DEF t
  <2> QED
    BY <1>5, SeqDef
<1>7. Once(t)
  BY <1>2, <1>3, <1>4, <1>5 DEF Once
<1> DEFINE now(i) == IF i < k THEN i ELSE i - 1
<1>8. \A i \in (1..n) \ {k} : now(i) \in 1..(n - 1) /\ t[now(i)] = s[i]
  BY <1>2, <1>3
<1>9. \A i, j \in (1..n) \ {k} : i < j => now(i) < now(j)
  BY <1>2, <1>3
<1>10. \A i \in 1..(n - 1) : t[i] \in {s[j] : j \in (1..n) \ {k}}
  BY <1>2, <1>3
<1>11. Elems(s) \ {v} = {s[j] : j \in (1..n) \ {k}}
  BY <1>2, <1>3, <1>4 DEF Elems
<1>12. Elems(t) = Elems(s) \ {v}
  <2> HIDE DEF t, now
  <2>1. \A i \in (1..n) \ {k} : \E m \in DOMAIN t : t[m] = s[i]
    BY <1>5, <1>8
  <2>2. \A m \in DOMAIN t : \E i \in (1..n) \ {k} : t[m] = s[i]
    BY <1>5, <1>10
  <2>3. \A e : e \in Elems(t) <=> e \in {s[j] : j \in (1..n) \ {k}}
    <3> TAKE e
    <3>1. e \in Elems(t) <=> \E m \in DOMAIN t : e = t[m]
      BY DEF Elems
    <3>2. e \in {s[j] : j \in (1..n) \ {k}} <=> \E i \in (1..n) \ {k} : e = s[i]
      OBVIOUS
    <3> QED
      BY <2>1, <2>2, <3>1, <3>2
  <2> QED
    BY <1>11, <2>3
<1>13. ASSUME NEW x, NEW y, x # v, y # v, StandsBefore(s, x, y) PROVE StandsBefore(t, x, y)
  <2>1. PICK i, j \in 1..n : i < j /\ s[i] = x /\ s[j] = y
    BY <1>2, <1>13 DEF StandsBefore
  <2>2. i # k /\ j # k
    BY <1>3, <1>13, <2>1
  <2>3. now(i) \in DOMAIN t /\ now(j) \in DOMAIN t /\ now(i) < now(j) /\ t[now(i)] = x /\ t[now(j)] = y
    <3> HIDE DEF t, now
    <3> QED
      BY <1>5, <1>8, <1>9, <2>1, <2>2
  <2> HIDE DEF t, now
  <2> QED
    BY <2>3 DEF StandsBefore
<1> QED
  BY <1>1, <1>6, <1>7, <1>12, <1>13

\* What is added behind them comes after all others.
LEMMA AppendOne ==
  ASSUME NEW s \in Seq(Instr), Once(s), NEW v \in Instr, v \notin Elems(s)
  PROVE  /\ Append(s, v) \in Seq(Instr) /\ Once(Append(s, v))
         /\ Elems(Append(s, v)) = Elems(s) \cup {v}
         /\ \A x, y : StandsBefore(s, x, y) => StandsBefore(Append(s, v), x, y)
         /\ \A x \in Elems(s) : StandsBefore(Append(s, v), x, v)
<1> DEFINE n == Len(s)
           t == Append(s, v)
<1>1. n \in Nat /\ DOMAIN s = 1..n
  BY LenProperties
<1>2. /\ t \in Seq(Instr) /\ DOMAIN t = 1..(n + 1)
      /\ \A i \in 1..n : t[i] = s[i]
      /\ t[n + 1] = v
  BY <1>1
<1>3. 1..(n + 1) = (1..n) \cup {n + 1} /\ \A i \in 1..n : i < n + 1
  BY <1>1
<1> HIDE DEF n, t
<1>4. Once(t) /\ Elems(t) = Elems(s) \cup {v}
  BY <1>1, <1>2, <1>3 DEF Once, Elems
<1>5. \A x, y : StandsBefore(s, x, y) => StandsBefore(t, x, y)
  BY <1>1, <1>2, <1>3 DEF StandsBefore
<1>6. \A x \in Elems(s) : StandsBefore(t, x, v)
  <2> TAKE x \in Elems(s)
  <2>1. PICK i \in 1..n : s[i] = x
    BY <1>1 DEF Elems
  <2>2. i \in DOMAIN t /\ n + 1 \in DOMAIN t /\ i < n + 1 /\ t[i] = x /\ t[n + 1] = v
    BY <1>2, <1>3, <2>1
  <2> QED
    BY <2>2 DEF StandsBefore
<1> QED
  BY <1>2, <1>4, <1>5, <1>6 DEF t

Owned(c) == c \in [Block -> Seq(Instr)] /\ InOnePlace(c)

\* In other words: no instruction is twice in a block, none is in two.
LEMMA OwnedParts ==
  ASSUME NEW c, c \in [Block -> Seq(Instr)]
  PROVE  Owned(c) <=>
           /\ \A v \in Instr : \E b \in Block : v \in Elems(c[b])
           /\ \A b \in Block : Once(c[b])
           /\ \A b, d \in Block : b # d => Elems(c[b]) \cap Elems(c[d]) = {}
<1>1. ASSUME Owned(c)
      PROVE  /\ \A v \in Instr : \E b \in Block : v \in Elems(c[b])
             /\ \A b \in Block : Once(c[b])
             /\ \A b, d \in Block : b # d => Elems(c[b]) \cap Elems(c[d]) = {}
  <2>1. /\ \A v \in Instr : \E b \in Block : v \in Elems(c[b])
        /\ \A b, d \in Block : \A i \in DOMAIN c[b], j \in DOMAIN c[d] :
             c[b][i] = c[d][j] => b = d /\ i = j
    BY <1>1, Zenon DEF Owned, InOnePlace, InstrsIn, Elems
  <2>2. \A b \in Block : Once(c[b])
    BY <2>1 DEF Once
  <2>3. \A b, d \in Block : b # d => Elems(c[b]) \cap Elems(c[d]) = {}
    BY <2>1 DEF Elems
  <2> QED
    BY <2>1, <2>2, <2>3
<1>2. ASSUME /\ \A v \in Instr : \E b \in Block : v \in Elems(c[b])
             /\ \A b \in Block : Once(c[b])
             /\ \A b, d \in Block : b # d => Elems(c[b]) \cap Elems(c[d]) = {}
      PROVE  Owned(c)
  <2>1. ASSUME NEW b \in Block, NEW d \in Block, NEW i \in DOMAIN c[b], NEW j \in DOMAIN c[d],
               c[b][i] = c[d][j]
        PROVE  b = d /\ i = j
    <3>1. c[b][i] \in Elems(c[b]) /\ c[d][j] \in Elems(c[d])
      BY DEF Elems
    <3>2. b = d
      BY <1>2, <2>1, <3>1
    <3> QED
      BY <1>2, <2>1, <3>2 DEF Once
  <2> QED
    BY <1>2, <2>1 DEF Owned, InOnePlace, InstrsIn, Elems
<1> QED
  BY <1>1, <1>2

\* The block of an instruction is the one it is in.
LEMMA BlockOf ==
  ASSUME NEW c, Owned(c), NEW v \in Instr
  PROVE  /\ BlockIn(c, v) \in Block /\ v \in Elems(c[BlockIn(c, v)])
         /\ \A b \in Block : v \in Elems(c[b]) => BlockIn(c, v) = b
<1>1. \E b \in Block : v \in InstrsIn(c, b)
  BY DEF Owned, InOnePlace
<1>2. BlockIn(c, v) \in Block /\ v \in InstrsIn(c, BlockIn(c, v))
  BY <1>1 DEF BlockIn
<1>3. \A b \in Block : InstrsIn(c, b) = Elems(c[b])
  BY DEF InstrsIn, Elems
<1>4. \A b, d \in Block : b # d => Elems(c[b]) \cap Elems(c[d]) = {}
  <2>1. c \in [Block -> Seq(Instr)]
    BY DEF Owned
  <2> QED
    BY <2>1, OwnedParts
<1>5. v \in Elems(c[BlockIn(c, v)])
  BY <1>2, <1>3
<1> HIDE DEF BlockIn
<1> QED
  BY <1>2, <1>4, <1>5

\* What hoistInstruction leaves of the blocks.
HoistedTo(x, p) == [Removed(x) EXCEPT ![p] = Append(@, x)]

\* Only the instruction that is hoisted changes its block, and the order of the
\* others stays as it is; in its new block it comes last.
LEMMA HoistedCode ==
  ASSUME Owned(code), NEW x \in Instr, NEW p \in Block, BlockIn(code, x) # p
  PROVE  /\ Owned(HoistedTo(x, p))
         /\ BlockIn(HoistedTo(x, p), x) = p
         /\ \A v \in Instr \ {x} : BlockIn(HoistedTo(x, p), v) = BlockIn(code, v)
         /\ \A v, w \in Instr \ {x}, b \in Block :
              StandsBefore(code[b], v, w) => StandsBefore(HoistedTo(x, p)[b], v, w)
         /\ \A v \in Instr : BlockIn(code, v) = p => StandsBefore(HoistedTo(x, p)[p], v, x)
<1> DEFINE c == HoistedTo(x, p)
           from == BlockIn(code, x)
<1>1. code \in [Block -> Seq(Instr)]
  BY DEF Owned
<1>2. /\ from \in Block /\ x \in Elems(code[from])
      /\ \A b \in Block : x \in Elems(code[b]) => b = from
  BY BlockOf
<1>3. /\ \A v \in Instr : \E b \in Block : v \in Elems(code[b])
      /\ \A b \in Block : Once(code[b])
      /\ \A b, d \in Block : b # d => Elems(code[b]) \cap Elems(code[d]) = {}
  BY <1>1, OwnedParts
<1>4. /\ c[from] = Without(code[from], x)
      /\ c[p] = Append(code[p], x)
      /\ \A b \in Block \ {from, p} : c[b] = code[b]
      /\ c = [b \in Block |-> c[b]]
  BY <1>1, <1>2 DEF HoistedTo, Removed
<1> HIDE DEF c, from
<1>5. /\ c[from] \in Seq(Instr) /\ Once(c[from]) /\ Elems(c[from]) = Elems(code[from]) \ {x}
      /\ \A v, w : v # x /\ w # x /\ StandsBefore(code[from], v, w) => StandsBefore(c[from], v, w)
  BY <1>1, <1>2, <1>3, <1>4, WithoutOne
<1>6. /\ c[p] \in Seq(Instr) /\ Once(c[p]) /\ Elems(c[p]) = Elems(code[p]) \cup {x}
      /\ \A v, w : StandsBefore(code[p], v, w) => StandsBefore(c[p], v, w)
      /\ \A v \in Elems(code[p]) : StandsBefore(c[p], v, x)
  <2>1. x \notin Elems(code[p])
    BY <1>2 DEF from
  <2> QED
    BY <1>1, <1>3, <1>4, <2>1, AppendOne
<1>7. c \in [Block -> Seq(Instr)]
  BY <1>1, <1>4, <1>5, <1>6
<1>8. from # p
  BY DEF from
<1>9. \A b \in Block : Elems(c[b]) = IF b = p THEN Elems(code[b]) \cup {x} ELSE Elems(code[b]) \ {x}
  BY <1>2, <1>4, <1>5, <1>6, <1>8
<1>10. Owned(c)
  <2>1. \A b \in Block : Once(c[b])
    BY <1>3, <1>4, <1>5, <1>6
  <2>2. \A v \in Instr : \E b \in Block : v \in Elems(c[b])
    BY <1>3, <1>9
  <2>3. \A b, d \in Block : b # d => Elems(c[b]) \cap Elems(c[d]) = {}
    BY <1>3, <1>9
  <2> QED
    BY <1>7, <2>1, <2>2, <2>3, OwnedParts
<1>11. BlockIn(c, x) = p
  BY <1>9, <1>10, BlockOf
<1>12. \A v \in Instr \ {x} : BlockIn(c, v) = BlockIn(code, v)
  <2> TAKE v \in Instr \ {x}
  <2>1. BlockIn(code, v) \in Block /\ v \in Elems(code[BlockIn(code, v)])
    BY BlockOf
  <2>2. v \in Elems(c[BlockIn(code, v)])
    BY <1>9, <2>1
  <2> QED
    BY <1>10, <2>1, <2>2, BlockOf
<1>13. \A v, w \in Instr \ {x}, b \in Block :
         StandsBefore(code[b], v, w) => StandsBefore(c[b], v, w)
  BY <1>4, <1>5, <1>6
<1>14. \A v \in Instr : BlockIn(code, v) = p => StandsBefore(c[p], v, x)
  BY <1>6, BlockOf
<1> QED
  BY <1>10, <1>11, <1>12, <1>13, <1>14 DEF c

-----------------------------------------------------------------------------
(* The function and its loops.                                             *)

Succs == program.graph.succs
Dom(d, b) == Dominates(program.graph, d, b)

LEMMA GraphFacts ==
  ASSUME program \in Programs
  PROVE  /\ program.graph \in Graphs /\ program.graph.succs \in [Block -> SUBSET Block]
         /\ ReachableBlocks(program.graph) = Block
         /\ \A b, p \in Block : p \in program.graph.preds[b] <=> b \in program.graph.succs[p]
         /\ \A b \in Block : program.graph.preds[b] \subseteq Block
<1> DEFINE g == program.graph
<1>1. g \in Graphs /\ g \in Graph /\ g = Built(g.succs) /\ ReachableBlocks(g) = Block
  BY ProgramsAssumption
<1> HIDE DEF g
<1>2. g.succs \in [Block -> SUBSET Block] /\ g.preds \in [Block -> SUBSET Block]
  BY <1>1 DEF Graph
<1>3. g.preds = [b \in Block |-> {p \in Block : b \in g.succs[p]}]
  BY <1>1 DEF Built
<1> QED
  BY <1>1, <1>2, <1>3 DEF g

LEMMA LoopFacts ==
  ASSUME program \in Programs, NEW h \in Headers
  PROVE  /\ h \in Block /\ BackEdgeSources(program.graph, h) # {}
         /\ LoopBlocks(h) = NaturalLoop(program.graph, h)
         /\ LoopBlocks(h) \subseteq Block
<1>1. program.graph \in Graphs
  BY GraphFacts
<1>2. Loops[program.graph] =
        [b \in {c \in Block : BackEdgeSources(program.graph, c) # {}} |-> NaturalLoop(program.graph, b)]
  BY <1>1 DEF Loops
<1>3. h \in Block /\ BackEdgeSources(program.graph, h) # {}
  BY <1>2 DEF Headers
<1>4. LoopBlocks(h) = NaturalLoop(program.graph, h)
  BY <1>2, <1>3 DEF LoopBlocks
<1>5. NaturalLoop(program.graph, h) \subseteq ReachableBlocks(program.graph)
  BY <1>3, GraphFacts, NaturalLoopIsLeast
<1> QED
  BY <1>3, <1>4, <1>5, GraphFacts

\* The preheader is a block in front of the loop.
LEMMA PreheaderFacts ==
  ASSUME program \in Programs, NEW h \in Headers, HasPreheader(h)
  PROVE  /\ InFrontOf(program.graph, h, Preheader(h))
         /\ Preheader(h) \in Block /\ Preheader(h) \notin LoopBlocks(h)
<1> DEFINE g == program.graph
           p == Preheader(h)
           L == NaturalLoop(g, h)
<1>1. /\ h \in Block /\ BackEdgeSources(g, h) # {} /\ LoopBlocks(h) = L
  BY LoopFacts
<1>2. OutsidePreds(h) = g.preds[h] \ L
  BY <1>1 DEF OutsidePreds
<1>3. PICK q : OutsidePreds(h) = {q}
  <2>1. IsFiniteSet(OutsidePreds(h))
    <3>1. OutsidePreds(h) \subseteq Block
      BY <1>1, <1>2, GraphFacts
    <3> QED
      BY <3>1, BlocksFinite, FS_Subset
  <2> QED
    BY <2>1, FS_Singleton DEF HasPreheader
<1>4. p = q
  BY <1>3 DEF Preheader
<1>5. p \in Block /\ p \notin L /\ h \in g.succs[p]
  BY <1>1, <1>2, <1>3, <1>4, GraphFacts
<1>6. ASSUME NEW o \in Block \ L, o # p, NEW c \in g.succs[o] \cap L PROVE FALSE
  <2>1. LoopClosed(g, h, L)
    BY <1>1, GraphFacts, NaturalLoopIsLeast
  <2>2. c = h
    BY <1>6, <2>1, GraphFacts DEF LoopClosed
  <2>3. o \in OutsidePreds(h)
    BY <1>1, <1>2, <1>6, <2>2, GraphFacts
  <2> QED
    BY <1>3, <1>4, <1>6, <2>3
<1> QED
  BY <1>1, <1>5, <1>6, GraphFacts DEF InFrontOf

\* Precedes, with Dominates for the table of it.
LEMMA PrecedesIs ==
  ASSUME program \in Programs, NEW c, Owned(c), NEW v \in Instr, NEW w \in Instr
  PROVE  Precedes(c, v, w) <=>
           IF BlockIn(c, v) = BlockIn(c, w) THEN StandsBefore(c[BlockIn(c, v)], v, w)
           ELSE Dom(BlockIn(c, v), BlockIn(c, w))
<1>1. BlockIn(c, v) \in Block /\ BlockIn(c, w) \in Block /\ program.graph \in Graphs
  BY BlockOf, GraphFacts
<1>2. \A d, b \in Block : b \in DominatedBy[program.graph][d] <=> Dom(d, b)
  BY <1>1 DEF DominatedBy, Dom
<1> QED
  BY <1>1, <1>2 DEF Precedes

-----------------------------------------------------------------------------
(* The invariant.                                                          *)

\* The operand that makes an instruction invariant.
Needed(v) == IF program.kind[v] = "binary" THEN program.rhs[v] ELSE program.lhs[v]

Typed ==
  /\ program \in Programs
  /\ phase \in {"loops", "find", "hoist", "done"}
  /\ todo \subseteq Headers
  /\ toHoist \in Seq(Instr)
  /\ Owned(code)

\* What is in work: the invariants that are not to be hoisted any more are in the
\* preheader, the others in the loop; whatever an instruction needs comes before it.
InWork ==
  /\ Once(toHoist)
  /\ phase \in {"find", "hoist"} =>
       /\ header \in Headers /\ HasPreheader(header)
       /\ Elems(toHoist) \subseteq invariants /\ invariants \subseteq Instr
       /\ \A v \in Elems(toHoist) : BlockIn(code, v) \in LoopBlocks(header)
       /\ \A v \in invariants \ Elems(toHoist) : BlockIn(code, v) = Preheader(header)
       /\ \A v \in Elems(toHoist) : program.kind[v] # "other"
       /\ \A i \in DOMAIN toHoist : Needed(toHoist[i]) # Literal =>
            /\ Needed(toHoist[i]) \in invariants
            /\ \A j \in DOMAIN toHoist : toHoist[j] = Needed(toHoist[i]) => j < i
  /\ phase = "find" => invariants = Elems(toHoist)

\* The block of every instruction dominates the one it was written in, and stays
\* the same outside of all loops.
Upwards == \A v \in Instr : Dom(BlockIn(code, v), BlockIn(program.code, v))
InNoLoop(b) == \A h \in Headers : b \notin LoopBlocks(h)
OutsideStays ==
  \A v \in Instr : InNoLoop(BlockIn(program.code, v)) => BlockIn(code, v) = BlockIn(program.code, v)

\* Operands are defined first at every step, not only between the loops.
InOrder == LeftOperandsOutside /\ DefinedFirst(program.code) => DefinedFirst(code)

IInv == Typed /\ InWork /\ Upwards /\ OutsideStays /\ InOrder

LEMMA InitInv == Init => IInv
<1> SUFFICES ASSUME Init PROVE IInv
  OBVIOUS
<1> USE DEF Init
<1>1. program.code \in [Block -> Seq(Instr)] /\ InOnePlace(program.code)
  BY ProgramsAssumption
<1>2. Typed
  BY <1>1 DEF Typed, Owned
<1>3. InWork
  BY DEF InWork, Once
<1>4. Upwards
  <2>1. \A b : Dom(b, b)
    BY GraphFacts, DominatesItself DEF Dom
  <2> QED
    BY <2>1 DEF Upwards
<1>5. OutsideStays /\ InOrder
  BY DEF OutsideStays, InOrder
<1> QED
  BY <1>2, <1>3, <1>4, <1>5 DEF IInv

\* Steps that neither move an instruction nor find one.
LEMMA SameCode ==
  ASSUME IInv, UNCHANGED <<program, code>>
  PROVE  Upwards' /\ OutsideStays' /\ InOrder'
<1>1. Upwards' /\ OutsideStays'
  BY DEF IInv, Upwards, OutsideStays, InNoLoop, Dom, Headers, LoopBlocks
<1>2. InOrder'
  BY DEF IInv, InOrder, LeftOperandsOutside, DefinedFirst, Precedes, Headers, LoopBlocks
<1> QED
  BY <1>1, <1>2

LEMMA StartLoopInv == ASSUME IInv, NEW h \in Block, StartLoop(h) PROVE IInv'
<1> USE DEF StartLoop
<1>1. Typed'
  BY DEF IInv, Typed, Owned, InOnePlace, InstrsIn, Headers
<1>2. InWork'
  <2>1. toHoist' = <<>> /\ invariants' = {}
    OBVIOUS
  <2>2. Once(toHoist)' /\ Elems(toHoist)' = {}
    BY <2>1 DEF Once, Elems
  <2>3. phase' \in {"find", "hoist"} => (header \in Headers)' /\ HasPreheader(header)'
    BY DEF IInv, Typed, Headers, HasPreheader, OutsidePreds, LoopBlocks
  <2> QED
    BY <2>1, <2>2, <2>3 DEF InWork
<1> QED
  BY <1>1, <1>2, SameCode DEF IInv

LEMMA FindInvariantInv == ASSUME IInv, NEW v \in Instr, FindInvariant(v) PROVE IInv'
<1> USE DEF FindInvariant
<1>1. /\ phase = "find" /\ phase' = "find" /\ v \notin invariants /\ IsLoopInvariant(v)
      /\ invariants' = invariants \cup {v} /\ toHoist' = Append(toHoist, v)
      /\ UNCHANGED <<program, code, header, todo>>
  BY DEF Candidates, ToHoistWith
<1>2. /\ program \in Programs /\ toHoist \in Seq(Instr) /\ Owned(code) /\ Once(toHoist)
      /\ header \in Headers /\ HasPreheader(header)
      /\ invariants = Elems(toHoist)
  BY <1>1 DEF IInv, Typed, InWork
<1>3. BlockIn(code, v) \in LoopBlocks(header)
  <2>1. PICK b \in LoopBlocks(header) : v \in InstrsIn(code, b)
    BY <1>1 DEF Candidates
  <2>2. b \in Block /\ v \in Elems(code[b])
    BY <1>2, <2>1, LoopFacts DEF InstrsIn, Elems
  <2> QED
    BY <1>2, <2>1, <2>2, BlockOf
<1>4. program.kind[v] # "other" /\ (Needed(v) = Literal \/ Needed(v) \in invariants)
  BY <1>1 DEF IsLoopInvariant, InvariantOperand, Needed
<1>5. /\ toHoist' \in Seq(Instr) /\ Once(toHoist') /\ Elems(toHoist') = Elems(toHoist) \cup {v}
      /\ Len(toHoist) \in Nat /\ DOMAIN toHoist = 1..Len(toHoist) /\ DOMAIN toHoist' = 1..(Len(toHoist) + 1)
      /\ \A i \in DOMAIN toHoist : toHoist'[i] = toHoist[i]
      /\ toHoist'[Len(toHoist) + 1] = v
  <2>1. Len(toHoist) \in Nat /\ DOMAIN toHoist = 1..Len(toHoist)
    BY <1>2, LenProperties
  <2>2. /\ DOMAIN toHoist' = 1..(Len(toHoist) + 1)
        /\ \A i \in DOMAIN toHoist : toHoist'[i] = toHoist[i]
        /\ toHoist'[Len(toHoist) + 1] = v
    BY <1>1, <1>2, <2>1
  <2> QED
    BY <1>1, <1>2, <2>1, <2>2, AppendOne
<1>6. Typed'
  BY <1>1, <1>5 DEF IInv, Typed, Owned, InOnePlace, InstrsIn, Headers
<1>7. \A i \in DOMAIN toHoist' : Needed(toHoist'[i]) # Literal =>
        /\ Needed(toHoist'[i]) \in invariants'
        /\ \A j \in DOMAIN toHoist' : toHoist'[j] = Needed(toHoist'[i]) => j < i
  <2> TAKE i \in DOMAIN toHoist'
  <2> HAVE Needed(toHoist'[i]) # Literal
  <2>1. CASE i \in DOMAIN toHoist
    <3>1. /\ Needed(toHoist[i]) \in invariants
          /\ \A j \in DOMAIN toHoist : toHoist[j] = Needed(toHoist[i]) => j < i
      BY <1>1, <1>5, <2>1 DEF IInv, InWork
    <3> QED
      BY <1>1, <1>5, <2>1, <3>1
  <2>2. CASE i = Len(toHoist) + 1
    BY <1>1, <1>4, <1>5, <2>2
  <2> QED
    BY <1>5, <2>1, <2>2
<1>8. InWork'
  <2>1. \A w \in Elems(toHoist) : BlockIn(code, w) \in LoopBlocks(header) /\ program.kind[w] # "other"
    BY <1>1 DEF IInv, InWork
  <2>2. UNCHANGED <<Headers, HasPreheader(header), LoopBlocks(header), Preheader(header)>>
    BY <1>1 DEF Headers, HasPreheader, LoopBlocks, Preheader, OutsidePreds
  <2>3. \A w : Needed(w)' = Needed(w) /\ BlockIn(code, w)' = BlockIn(code, w)
    BY <1>1 DEF Needed, BlockIn, InstrsIn
  <2>4. Elems(toHoist)' = invariants' /\ invariants' \subseteq Instr
    BY <1>1, <1>2, <1>5 DEF Elems
  <2>5. Once(toHoist)'
    BY <1>5 DEF Once
  <2>6. \A w \in invariants' : BlockIn(code, w)' \in LoopBlocks(header)' /\ program'.kind[w] # "other"
    BY <1>1, <1>2, <1>3, <1>4, <2>1, <2>2, <2>3
  <2>7. (header \in Headers)' /\ HasPreheader(header)'
    BY <1>1, <1>2, <2>2
  <2> QED
    BY <1>1, <1>7, <2>3, <2>4, <2>5, <2>6, <2>7 DEF InWork
<1> QED
  BY <1>1, <1>6, <1>8, SameCode DEF IInv

\* Steps that change nothing but the phase.
LEMMA PhaseInv ==
  ASSUME IInv, StartHoisting \/ FinishLoop \/ Finish
  PROVE  IInv'
<1>1. /\ UNCHANGED <<program, code, todo, header, invariants, toHoist>>
      /\ \/ phase = "find" /\ phase' = "hoist"
         \/ phase' \in {"loops", "done"}
  BY DEF StartHoisting, FinishLoop, Finish
<1>2. Typed'
  BY <1>1 DEF IInv, Typed, Owned, InOnePlace, InstrsIn, Headers
<1>3. InWork'
  <2>1. CASE phase = "find" /\ phase' = "hoist"
    BY <1>1, <2>1 DEF IInv, InWork, Once, Elems, Headers, HasPreheader, OutsidePreds, LoopBlocks,
                      BlockIn, InstrsIn, Needed
  <2>2. CASE phase' \in {"loops", "done"}
    BY <1>1, <2>2 DEF IInv, InWork, Once
  <2> QED
    BY <1>1, <2>1, <2>2
<1> QED
  BY <1>1, <1>2, <1>3, SameCode DEF IInv

\* What hoistInstruction does: the instruction comes out of the loop, and the
\* preheader dominates the block it was in.
LEMMA HoistFacts ==
  ASSUME IInv, Hoist
  PROVE  LET x == Head(toHoist)
             p == Preheader(header)
             n == Len(toHoist)
         IN /\ x \in Instr /\ x = toHoist[1] /\ x \in Elems(toHoist)
            /\ n \in Nat /\ n > 0 /\ DOMAIN toHoist = 1..n
            /\ program \in Programs /\ Owned(code) /\ header \in Headers
            /\ InFrontOf(program.graph, header, p) /\ p \in Block /\ p \notin LoopBlocks(header)
            /\ BlockIn(code, x) \in LoopBlocks(header) /\ BlockIn(code, x) # p
            /\ Dom(p, BlockIn(code, x))
            /\ code' = HoistedTo(x, p)
            /\ UNCHANGED <<program, phase, todo, header, invariants>>
<1> DEFINE x == Head(toHoist)
           p == Preheader(header)
           n == Len(toHoist)
<1>1. /\ phase = "hoist" /\ toHoist # <<>>
      /\ code' = HoistedTo(x, p)
      /\ UNCHANGED <<program, phase, todo, header, invariants>>
  BY DEF Hoist, HoistedTo
<1>2. program \in Programs /\ Owned(code) /\ toHoist \in Seq(Instr)
  BY DEF IInv, Typed
<1>3. /\ n \in Nat /\ n > 0 /\ DOMAIN toHoist = 1..n /\ x = toHoist[1] /\ x \in Instr
  <2>1. n \in Nat /\ DOMAIN toHoist = 1..n /\ toHoist \in [1..n -> Instr]
    BY <1>2, LenProperties
  <2>2. n # 0
    BY <1>1, <1>2, EmptySeq
  <2> QED
    BY <1>1, <1>2, <2>1, <2>2
<1>4. x \in Elems(toHoist)
  BY <1>3 DEF Elems
<1>5. header \in Headers /\ HasPreheader(header) /\ BlockIn(code, x) \in LoopBlocks(header)
  BY <1>1, <1>4 DEF IInv, InWork
<1>6. InFrontOf(program.graph, header, p) /\ p \in Block /\ p \notin LoopBlocks(header)
  BY <1>2, <1>5, PreheaderFacts
<1>7. Dom(p, BlockIn(code, x))
  BY <1>2, <1>5, <1>6, LoopFacts, GraphFacts, FrontDominatesLoop DEF Dom
<1> QED
  BY <1>1, <1>2, <1>3, <1>4, <1>5, <1>6, <1>7

LEMMA HoistWork == ASSUME IInv, Hoist PROVE Typed' /\ InWork'
<1> DEFINE x == Head(toHoist)
           p == Preheader(header)
           n == Len(toHoist)
<1>1. /\ x \in Instr /\ x = toHoist[1] /\ x \in Elems(toHoist)
      /\ n \in Nat /\ n > 0 /\ DOMAIN toHoist = 1..n
      /\ program \in Programs /\ Owned(code) /\ header \in Headers
      /\ p \in Block /\ p \notin LoopBlocks(header) /\ BlockIn(code, x) # p
      /\ code' = HoistedTo(x, p)
      /\ UNCHANGED <<program, phase, todo, header, invariants>>
  BY HoistFacts
<1>2. /\ toHoist' = Tail(toHoist) /\ phase = "hoist" /\ phase' = "hoist"
      /\ toHoist \in Seq(Instr) /\ Once(toHoist)
  BY DEF Hoist, IInv, Typed, InWork
<1>3. /\ toHoist' \in Seq(Instr) /\ DOMAIN toHoist' = 1..(n - 1)
      /\ \A i \in 1..(n - 1) : toHoist'[i] = toHoist[i + 1]
  <2>1. toHoist # <<>>
    BY DEF Hoist
  <2>2. toHoist' \in Seq(Instr) /\ Len(toHoist') = n - 1
    BY <1>1, <1>2, <2>1
  <2>3. \A i \in 1..(n - 1) : toHoist'[i] = toHoist[i + 1]
    BY <1>1, <1>2, <2>1
  <2> QED
    BY <2>2, <2>3, LenProperties
<1>4. \A i, j \in 1..n : toHoist[i] = toHoist[j] => i = j
  BY <1>1, <1>2 DEF Once
<1> HIDE DEF x, p, n
<1>5. Once(toHoist')
  BY <1>1, <1>3, <1>4 DEF Once
<1>6. Elems(toHoist') = Elems(toHoist) \ {x}
  <2>1. ASSUME NEW e \in Elems(toHoist') PROVE e \in Elems(toHoist) \ {x}
    <3>1. PICK i \in 1..(n - 1) : e = toHoist[i + 1]
      BY <1>3, <2>1 DEF Elems
    <3>2. i + 1 \in 1..n /\ i + 1 # 1
      BY <1>1
    <3> QED
      BY <1>1, <1>4, <3>1, <3>2 DEF Elems
  <2>2. ASSUME NEW e \in Elems(toHoist) \ {x} PROVE e \in Elems(toHoist')
    <3>1. PICK i \in 1..n : e = toHoist[i]
      BY <1>1, <2>2 DEF Elems
    <3>2. i # 1
      BY <1>1, <2>2, <3>1
    <3>3. i - 1 \in 1..(n - 1) /\ (i - 1) + 1 = i
      BY <1>1, <3>2
    <3>4. e = toHoist'[i - 1]
      BY <1>3, <3>1, <3>3
    <3> QED
      BY <1>3, <3>3, <3>4 DEF Elems
  <2> QED
    BY <2>1, <2>2
<1>7. /\ Owned(code') /\ BlockIn(code', x) = p
      /\ \A v \in Instr \ {x} : BlockIn(code', v) = BlockIn(code, v)
  BY <1>1, HoistedCode
<1>8. Typed'
  BY <1>1, <1>3, <1>7 DEF IInv, Typed, Headers, Owned, InOnePlace, InstrsIn
<1>9. /\ HasPreheader(header)
      /\ Elems(toHoist) \subseteq invariants /\ invariants \subseteq Instr
      /\ \A v \in Elems(toHoist) : BlockIn(code, v) \in LoopBlocks(header)
      /\ \A v \in invariants \ Elems(toHoist) : BlockIn(code, v) = p
      /\ \A v \in Elems(toHoist) : program.kind[v] # "other"
      /\ \A i \in 1..n : Needed(toHoist[i]) # Literal =>
            /\ Needed(toHoist[i]) \in invariants
            /\ \A j \in 1..n : toHoist[j] = Needed(toHoist[i]) => j < i
  BY <1>1, <1>2 DEF IInv, InWork, p
<1>10. \A i \in 1..(n - 1) : Needed(toHoist'[i]) # Literal =>
         /\ Needed(toHoist'[i]) \in invariants
         /\ \A j \in 1..(n - 1) : toHoist'[j] = Needed(toHoist'[i]) => j < i
  <2> TAKE i \in 1..(n - 1)
  <2> HAVE Needed(toHoist'[i]) # Literal
  <2>1. i + 1 \in 1..n /\ toHoist'[i] = toHoist[i + 1]
    BY <1>1, <1>3
  <2>2. /\ Needed(toHoist[i + 1]) \in invariants
        /\ \A j \in 1..n : toHoist[j] = Needed(toHoist[i + 1]) => j < i + 1
    BY <1>9, <2>1
  <2>3. ASSUME NEW j \in 1..(n - 1), toHoist'[j] = Needed(toHoist'[i]) PROVE j < i
    <3>1. j + 1 \in 1..n /\ toHoist'[j] = toHoist[j + 1]
      BY <1>1, <1>3
    <3>2. j + 1 < i + 1
      BY <2>1, <2>2, <2>3, <3>1
    <3> QED
      BY <1>1, <3>2
  <2> QED
    BY <2>1, <2>2, <2>3
<1>11. InWork'
  <2>1. /\ Headers' = Headers /\ HasPreheader(header)' = HasPreheader(header)
        /\ LoopBlocks(header)' = LoopBlocks(header) /\ Preheader(header)' = p
    BY <1>1 DEF Headers, HasPreheader, LoopBlocks, Preheader, OutsidePreds, p
  <2>2. \A v : Needed(v)' = Needed(v) /\ BlockIn(code, v)' = BlockIn(code', v)
    BY <1>1 DEF Needed, BlockIn, InstrsIn
  <2>3. \A v \in Elems(toHoist') : BlockIn(code', v) \in LoopBlocks(header)
    BY <1>6, <1>7, <1>9
  <2>4. \A v \in invariants \ Elems(toHoist') : BlockIn(code', v) = p
    BY <1>6, <1>7, <1>9
  <2>5. Elems(toHoist)' = Elems(toHoist') /\ Once(toHoist)'
    BY <1>5 DEF Elems, Once
  <2>6. Elems(toHoist') \subseteq invariants' /\ \A v \in Elems(toHoist') : program'.kind[v] # "other"
    BY <1>1, <1>6, <1>9
  <2> QED
    BY <1>1, <1>2, <1>3, <1>9, <1>10, <2>1, <2>2, <2>3, <2>4, <2>5, <2>6 DEF InWork
<1> QED
  BY <1>8, <1>11

LEMMA HoistUpwards == ASSUME IInv, Hoist PROVE Upwards' /\ OutsideStays'
<1> DEFINE x == Head(toHoist)
           p == Preheader(header)
<1>1. /\ x \in Instr
      /\ program \in Programs /\ Owned(code) /\ header \in Headers
      /\ p \in Block
      /\ BlockIn(code, x) \in LoopBlocks(header) /\ BlockIn(code, x) # p
      /\ Dom(p, BlockIn(code, x))
      /\ code' = HoistedTo(x, p) /\ program' = program
  BY HoistFacts
<1> HIDE DEF x, p
<1>2. /\ BlockIn(code', x) = p
      /\ \A v \in Instr \ {x} : BlockIn(code', v) = BlockIn(code, v)
  BY <1>1, HoistedCode
<1>3. Dom(p, BlockIn(program.code, x))
  <2>1. Dom(BlockIn(code, x), BlockIn(program.code, x))
    BY <1>1 DEF IInv, Upwards
  <2> QED
    BY <1>1, <2>1, GraphFacts, DominanceTransitive DEF Dom
<1>4. ASSUME NEW v \in Instr PROVE Dom(BlockIn(code', v), BlockIn(program.code, v))
  BY <1>2, <1>3 DEF IInv, Upwards
<1>5. ASSUME NEW v \in Instr, InNoLoop(BlockIn(program.code, v))
      PROVE  BlockIn(code', v) = BlockIn(program.code, v)
  <2>1. BlockIn(code, v) = BlockIn(program.code, v)
    BY <1>5 DEF IInv, OutsideStays
  <2>2. v # x
    BY <1>1, <1>5, <2>1 DEF InNoLoop
  <2> QED
    BY <1>2, <2>1, <2>2
<1>6. \A v : /\ BlockIn(code, v)' = BlockIn(code', v)
             /\ BlockIn(program.code, v)' = BlockIn(program.code, v)
  BY <1>1 DEF BlockIn, InstrsIn
<1>7. \A b : InNoLoop(b)' = InNoLoop(b)
  BY <1>1 DEF InNoLoop, Headers, LoopBlocks
<1>8. \A d, b : Dom(d, b)' = Dom(d, b)
  BY <1>1 DEF Dom
<1> QED
  BY <1>1, <1>4, <1>5, <1>6, <1>7, <1>8 DEF Upwards, OutsideStays

\* The instruction that is hoisted still comes after its operands: the one that
\* made it invariant has been hoisted before it, or is a constant; the left one
\* of a binary instruction never was in a loop.
LEMMA HoistedAfterOperands ==
  ASSUME IInv, Hoist, LeftOperandsOutside, DefinedFirst(code),
         NEW v \in {program.lhs[Head(toHoist)], program.rhs[Head(toHoist)]} \ {Literal}
  PROVE  v # Head(toHoist) /\ Precedes(code', v, Head(toHoist))
<1> DEFINE x == Head(toHoist)
           p == Preheader(header)
           n == Len(toHoist)
<1>1. /\ x \in Instr /\ x = toHoist[1] /\ x \in Elems(toHoist)
      /\ n \in Nat /\ n > 0 /\ DOMAIN toHoist = 1..n
      /\ program \in Programs /\ Owned(code) /\ header \in Headers
      /\ InFrontOf(program.graph, header, p) /\ p \in Block /\ p \notin LoopBlocks(header)
      /\ BlockIn(code, x) \in LoopBlocks(header) /\ BlockIn(code, x) # p
      /\ code' = HoistedTo(x, p)
      /\ UNCHANGED <<program, phase, todo, header, invariants>>
  BY HoistFacts
<1>2. phase = "hoist" /\ program.kind[x] # "other"
  BY <1>1 DEF Hoist, IInv, InWork
<1>3. v \in Instr /\ v \in {program.lhs[x], program.rhs[x]} \ {Literal}
  BY <1>1, ProgramsAssumption
<1>4. Precedes(code, v, x)
  BY <1>1, <1>2, <1>3 DEF DefinedFirst
<1> HIDE DEF x, p, n
<1>5. /\ Owned(code') /\ BlockIn(code', x) = p
      /\ \A w \in Instr \ {x} : BlockIn(code', w) = BlockIn(code, w)
      /\ \A w \in Instr : BlockIn(code, w) = p => StandsBefore(code'[p], w, x)
  BY <1>1, HoistedCode
<1>6. v # x /\ (BlockIn(code, v) = p \/ Dom(BlockIn(code, v), p))
  <2>1. CASE v = Needed(x)
    <3>1. /\ v \in invariants
          /\ \A j \in 1..n : toHoist[j] = v => j < 1
      <4>1. /\ Needed(toHoist[1]) \in invariants
            /\ \A j \in DOMAIN toHoist : toHoist[j] = Needed(toHoist[1]) => j < 1
        BY <1>1, <1>2, <1>3, <2>1 DEF IInv, InWork
      <4> QED
        BY <1>1, <2>1, <4>1
    <3>2. v \notin Elems(toHoist)
      BY <1>1, <3>1 DEF Elems
    <3>3. BlockIn(code, v) = p
      BY <1>2, <3>1, <3>2 DEF IInv, InWork, p
    <3> QED
      BY <1>1, <3>3
  <2>2. CASE v # Needed(x)
    <3>1. program.kind[x] = "binary" /\ v = program.lhs[x]
      BY <1>1, <1>2, <1>3, <2>2, ProgramsAssumption DEF Needed
    <3>2. InNoLoop(BlockIn(program.code, v))
      BY <1>1, <1>3, <3>1 DEF LeftOperandsOutside, InNoLoop
    <3>3. BlockIn(code, v) = BlockIn(program.code, v)
      BY <1>3, <3>2 DEF IInv, OutsideStays
    <3>4. BlockIn(code, v) \notin LoopBlocks(header)
      BY <1>1, <3>2, <3>3 DEF InNoLoop
    <3>5. Dom(BlockIn(code, v), BlockIn(code, x))
      BY <1>1, <1>3, <1>4, <3>4, PrecedesIs
    <3>6. Dom(BlockIn(code, v), p)
      BY <1>1, <3>4, <3>5, LoopFacts, GraphFacts, OutsideDominatesFront DEF Dom
    <3> QED
      BY <1>1, <3>4, <3>6
  <2> QED
    BY <2>1, <2>2
<1>7. BlockIn(code', v) = BlockIn(code, v)
  BY <1>3, <1>5, <1>6
<1>8. Precedes(code', v, x)
  <2>1. Precedes(code', v, x) <=>
           IF BlockIn(code', v) = BlockIn(code', x) THEN StandsBefore(code'[BlockIn(code', v)], v, x)
           ELSE Dom(BlockIn(code', v), BlockIn(code', x))
    BY <1>1, <1>3, <1>5, PrecedesIs
  <2> QED
    BY <1>3, <1>5, <1>6, <1>7, <2>1
<1> QED
  BY <1>6, <1>8 DEF x

\* And it comes before whatever it came before; the others keep their order.
LEMMA OthersAfterOperands ==
  ASSUME IInv, Hoist, NEW v \in Instr, NEW w \in Instr \ {Head(toHoist)}, Precedes(code, v, w)
  PROVE  Precedes(code', v, w)
<1> DEFINE x == Head(toHoist)
           p == Preheader(header)
<1>1. /\ x \in Instr
      /\ program \in Programs /\ Owned(code) /\ header \in Headers
      /\ p \in Block /\ p \notin LoopBlocks(header)
      /\ BlockIn(code, x) \in LoopBlocks(header) /\ BlockIn(code, x) # p
      /\ Dom(p, BlockIn(code, x))
      /\ code' = HoistedTo(x, p)
  BY HoistFacts
<1>2. w \in Instr /\ w # x
  OBVIOUS
<1> HIDE DEF x, p
<1>3. /\ Owned(code') /\ BlockIn(code', x) = p
      /\ \A u \in Instr \ {x} : BlockIn(code', u) = BlockIn(code, u)
      /\ \A t, u \in Instr \ {x}, b \in Block :
              StandsBefore(code[b], t, u) => StandsBefore(code'[b], t, u)
  BY <1>1, HoistedCode
<1>4. Precedes(code', v, w) <=>
        IF BlockIn(code', v) = BlockIn(code', w) THEN StandsBefore(code'[BlockIn(code', v)], v, w)
        ELSE Dom(BlockIn(code', v), BlockIn(code', w))
  BY <1>1, <1>2, <1>3, PrecedesIs
<1>5. IF BlockIn(code, v) = BlockIn(code, w) THEN StandsBefore(code[BlockIn(code, v)], v, w)
      ELSE Dom(BlockIn(code, v), BlockIn(code, w))
  BY <1>1, <1>2, PrecedesIs
<1>6. BlockIn(code, v) \in Block
  BY <1>1, BlockOf
<1>7. CASE v # x
  BY <1>2, <1>3, <1>4, <1>5, <1>6, <1>7
<1>8. CASE v = x
  <2>1. Dom(p, BlockIn(code, w))
    <3>1. CASE BlockIn(code, x) = BlockIn(code, w)
      BY <1>1, <3>1
    <3>2. CASE BlockIn(code, x) # BlockIn(code, w)
      BY <1>1, <1>5, <1>8, <3>2, GraphFacts, DominanceTransitive DEF Dom
    <3> QED
      BY <3>1, <3>2
  <2>2. BlockIn(code, w) # p
    <3> SUFFICES ASSUME BlockIn(code, w) = p PROVE FALSE
      OBVIOUS
    <3>1. Dom(BlockIn(code, x), p)
      BY <1>1, <1>5, <1>8
    <3> QED
      BY <1>1, <3>1, GraphFacts, DominanceAntisymmetric DEF Dom
  <2> QED
    BY <1>2, <1>3, <1>4, <1>8, <2>1, <2>2
<1> QED
  BY <1>7, <1>8

LEMMA HoistInv == IInv /\ Hoist => IInv'
<1> SUFFICES ASSUME IInv, Hoist PROVE IInv'
  OBVIOUS
<1>1. program' = program /\ program \in Programs
  BY HoistFacts
<1>2. InOrder'
  <2>1. LeftOperandsOutside' <=> LeftOperandsOutside
    BY <1>1 DEF LeftOperandsOutside, Headers, LoopBlocks
  <2>2. \A c, v, w : Precedes(c, v, w)' <=> Precedes(c, v, w)
    BY <1>1 DEF Precedes
  <2>3. DefinedFirst(program.code)' <=> DefinedFirst(program.code)
    BY <1>1 DEF DefinedFirst, Precedes
  <2> SUFFICES ASSUME LeftOperandsOutside, DefinedFirst(code) PROVE DefinedFirst(code)'
    BY <2>1, <2>3 DEF IInv, InOrder
  <2>4. ASSUME NEW w \in Instr, program.kind[w] # "other",
               NEW v \in {program.lhs[w], program.rhs[w]} \ {Literal}
        PROVE  Precedes(code', v, w)
    <3>1. v \in Instr
      BY <1>1, ProgramsAssumption
    <3>2. Precedes(code, v, w)
      BY <2>4 DEF DefinedFirst
    <3>3. CASE w = Head(toHoist)
      BY <3>3, HoistedAfterOperands
    <3>4. CASE w # Head(toHoist)
      BY <3>1, <3>2, <3>4, OthersAfterOperands
    <3> QED
      BY <3>3, <3>4
  <2>5. \A v, w : Precedes(code, v, w)' <=> Precedes(code', v, w)
    BY <1>1 DEF Precedes, BlockIn, InstrsIn
  <2> QED
    BY <1>1, <2>4, <2>5 DEF DefinedFirst
<1> QED
  BY <1>2, HoistWork, HoistUpwards DEF IInv

LEMMA StepInv == IInv /\ [Next]_vars => IInv'
<1> SUFFICES ASSUME IInv, [Next]_vars PROVE IInv'
  OBVIOUS
<1>1. ASSUME NEW h \in Block, StartLoop(h) PROVE IInv'
  BY <1>1, StartLoopInv
<1>2. ASSUME NEW v \in Instr, FindInvariant(v) PROVE IInv'
  BY <1>2, FindInvariantInv
<1>3. CASE StartHoisting \/ FinishLoop \/ Finish
  BY <1>3, PhaseInv
<1>4. CASE Hoist
  BY <1>4, HoistInv
<1>5. CASE UNCHANGED vars
  <2>1. Typed'
    BY <1>5 DEF vars, IInv, Typed, Owned, InOnePlace, InstrsIn, Headers
  <2>2. InWork'
    BY <1>5 DEF vars, IInv, InWork, Once, Elems, Headers, HasPreheader, OutsidePreds, LoopBlocks,
                Preheader, BlockIn, InstrsIn, Needed
  <2> QED
    BY <1>5, <2>1, <2>2, SameCode DEF IInv, vars
<1> QED
  BY <1>1, <1>2, <1>3, <1>4, <1>5 DEF Next

\* Whatever instructions are found invariant and in whatever order the loops are
\* taken, instructions stay in one place and only move up, behind what they need.
THEOREM LICMInvariant == Spec => []IInv
<1> QED
  BY InitInv, StepInv, PTL DEF Spec

\* Hoisting loses and doubles no instruction, and moves none to where it would run
\* less often: its block always dominates the one it was written in.
THEOREM OnlyMovesUp == Spec => []MovedUpOnly
<1>1. IInv => MovedUpOnly
  <2> SUFFICES ASSUME IInv PROVE MovedUpOnly
    OBVIOUS
  <2>1. program \in Programs /\ Owned(code)
    BY DEF IInv, Typed
  <2>2. Owned(program.code)
    BY <2>1, ProgramsAssumption DEF Owned
  <2>3. ASSUME NEW v \in Instr
        PROVE  BlockIn(program.code, v) \in DominatedBy[program.graph][BlockIn(code, v)]
    <3>1. BlockIn(program.code, v) \in Block /\ BlockIn(code, v) \in Block
      BY <2>1, <2>2, BlockOf
    <3>2. Dom(BlockIn(code, v), BlockIn(program.code, v))
      BY DEF IInv, Upwards
    <3> QED
      BY <2>1, <3>1, <3>2, GraphFacts DEF DominatedBy, Dom
  <2> QED
    BY <2>1, <2>3 DEF MovedUpOnly, Owned
<1> QED
  BY <1>1, LICMInvariant, PTL

\* If every operand of the function is defined before it is used, and no left
\* operand of a binary instruction is computed in a loop, so it is after the pass.
THEOREM OperandsStayFirst == Spec => []OperandsDefinedFirstIfOutside
<1>1. IInv => OperandsDefinedFirstIfOutside
  BY DEF IInv, InOrder, OperandsDefinedFirstIfOutside, OperandsDefinedFirst
<1> QED
  BY <1>1, LICMInvariant, PTL
=============================================================================
