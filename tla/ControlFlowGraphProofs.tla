----------------------- MODULE ControlFlowGraphProofs -----------------------
EXTENDS ControlFlowGraph, FiniteSetTheorems, WellFoundedInduction, TLAPS

-----------------------------------------------------------------------------
(* Counting.                                                               *)

\* A set of natural numbers has a least one: the intervals up to its elements
\* are well-founded under inclusion.
LEMMA LeastNumber ==
  ASSUME NEW T, T \subseteq Nat, T # {}
  PROVE  \E m \in T : \A k \in T : m <= k
<1> DEFINE Upto == {0..n : n \in T}
<1>1. Upto \subseteq FiniteSubsetsOf(Nat)
  <2>1. ASSUME NEW n \in T PROVE 0..n \in FiniteSubsetsOf(Nat)
    <3>1. IsFiniteSet(0..n)
      BY FS_Interval
    <3> QED
      BY <3>1 DEF FiniteSubsetsOf
  <2> QED
    BY <2>1
<1>2. PICK U \in Upto : \A V \in Upto : ~(<<V, U>> \in StrictSubsetOrdering(Nat))
  <2>1. Upto # {}
    OBVIOUS
  <2> HIDE DEF Upto
  <2> QED
    BY <1>1, <2>1, FS_StrictSubsetOrderingWellFounded, WFMin, Zenon
<1>3. PICK m \in T : U = 0..m
  OBVIOUS
<1>4. ASSUME NEW k \in T, k < m PROVE FALSE
  <2>1. 0..k \in Upto /\ 0..k \subseteq 0..m /\ m \in 0..m /\ m \notin 0..k
    BY <1>4
  <2>2. 0..k \subseteq Nat /\ 0..m \subseteq Nat
    OBVIOUS
  <2> QED
    BY <1>2, <1>3, <2>1, <2>2 DEF StrictSubsetOrdering
<1> QED
  BY <1>4

\* Induction, for what can be said with a set.
LEMMA CountingUp ==
  ASSUME NEW S, 0 \in S, \A n \in Nat : n \in S => n + 1 \in S
  PROVE  \A n \in Nat : n \in S
<1> SUFFICES ASSUME Nat \ S # {} PROVE FALSE
  OBVIOUS
<1>1. PICK m \in Nat \ S : \A k \in Nat \ S : m <= k
  BY LeastNumber
<1>2. m # 0 /\ m - 1 \in Nat
  BY <1>1
<1>3. m - 1 \in S
  BY <1>1, <1>2
<1> QED
  BY <1>1, <1>2, <1>3

-----------------------------------------------------------------------------
(* Growing sets: step says what one round makes of a subset of B.          *)

IsStep(B, step) == step \in [SUBSET B -> SUBSET B]

\* w has what the rounds leave, from the start to the n-th.
Rounds(w, B, step, start, n) ==
  /\ IsStep(B, step) /\ start \in SUBSET B /\ n \in Nat
  /\ w[0] = start
  /\ \A i \in 1..n : w[i - 1] \in SUBSET B => w[i] = step[w[i - 1]]

\* No round loses anything; every round stays inside of T.
Grows(B, step) == \A S \in SUBSET B : S \subseteq step[S]
Absorbs(T, B, step) == \A S \in SUBSET B : S \subseteq T => step[S] \subseteq T

\* The rounds can be made, any number of them.
LEMMA RoundsExist ==
  ASSUME NEW B, NEW step, NEW start \in SUBSET B, NEW n \in Nat, IsStep(B, step)
  PROVE  \E w \in [0..n -> SUBSET B] : Rounds(w, B, step, start, n)
<1> DEFINE Possible == {k \in Nat : \E w \in [0..k -> SUBSET B] : Rounds(w, B, step, start, k)}
<1> USE DEF Rounds, IsStep
<1>1. 0 \in Possible
  <2> DEFINE w == [i \in 0..0 |-> start]
  <2>1. w \in [0..0 -> SUBSET B] /\ Rounds(w, B, step, start, 0)
    OBVIOUS
  <2> QED
    BY <2>1
<1>2. ASSUME NEW k \in Nat, k \in Possible PROVE k + 1 \in Possible
  <2>1. PICK w \in [0..k -> SUBSET B] : Rounds(w, B, step, start, k)
    BY <1>2
  <2> DEFINE longer == [i \in 0..(k + 1) |-> IF i = k + 1 THEN step[w[k]] ELSE w[i]]
  <2>2. w[0] = start /\ \A i \in 1..k : w[i] = step[w[i - 1]]
    BY <2>1
  <2>3. longer \in [0..(k + 1) -> SUBSET B]
    OBVIOUS
  <2>4. longer[0] = start /\ \A i \in 1..(k + 1) : longer[i] = step[longer[i - 1]]
    BY <2>2
  <2> HIDE DEF longer
  <2>5. Rounds(longer, B, step, start, k + 1)
    BY <2>4
  <2> QED
    BY <2>3, <2>5
<1>3. \A k \in Nat : k \in Possible
  <2> HIDE DEF Possible
  <2> QED
    BY <1>1, <1>2, CountingUp
<1> QED
  BY <1>3

\* The rounds stay inside the set.
LEMMA RoundsStay ==
  ASSUME NEW w, NEW B, NEW step, NEW start, NEW n, Rounds(w, B, step, start, n)
  PROVE  /\ \A i \in 0..n : w[i] \in SUBSET B
         /\ \A i \in 0..n : i + 1 \in 1..n => w[i + 1] = step[w[i]]
<1> USE DEF Rounds, IsStep
<1> DEFINE Inside == {i \in Nat : i <= n => w[i] \in SUBSET B}
<1>1. 0 \in Inside
  OBVIOUS
<1>2. ASSUME NEW i \in Nat, i \in Inside, i + 1 <= n PROVE w[i + 1] = step[w[i]]
  <2>1. i + 1 \in 1..n /\ (i + 1) - 1 = i /\ w[i] \in SUBSET B
    BY <1>2
  <2> QED
    BY <2>1
<1>3. \A i \in Nat : i \in Inside
  <2>1. \A i \in Nat : i \in Inside => i + 1 \in Inside
    BY <1>2
  <2> HIDE DEF Inside
  <2> QED
    BY <1>1, <2>1, CountingUp
<1>4. \A i \in 0..n : w[i] \in SUBSET B
  BY <1>3
<1> QED
  BY <1>4

\* What they leave, of any function that satisfies the equations of the rounds.
\* When no round loses anything and there are as many as the set has elements, the
\* last one has not added anything.
LEMMA RoundsSettle ==
  ASSUME NEW w, NEW B, NEW step, NEW start, NEW n, Rounds(w, B, step, start, n),
         Grows(B, step), IsFiniteSet(B), Cardinality(B) <= n
  PROVE  w[n] \in SUBSET B /\ start \subseteq w[n] /\ step[w[n]] = w[n]
<1>0. step \in [SUBSET B -> SUBSET B] /\ start \in SUBSET B /\ n \in Nat /\ w[0] = start
  BY DEF Rounds, IsStep
<1>1. /\ \A i \in 0..n : w[i] \in SUBSET B
      /\ \A i \in 0..n : i + 1 \in 1..n => w[i + 1] = step[w[i]]
  BY RoundsStay
<1> DEFINE Above == {i \in Nat : i <= n => start \subseteq w[i]}
<1>2. \A i \in Nat : i \in Above
  <2>1. 0 \in Above
    BY <1>0, <1>1
  <2>2. ASSUME NEW i \in Nat, i \in Above PROVE i + 1 \in Above
    BY <1>0, <1>1, <2>2 DEF Grows
  <2> HIDE DEF Above
  <2> QED
    BY <2>1, <2>2, CountingUp
<1>3. ASSUME step[w[n]] # w[n] PROVE FALSE
  <2>1. ASSUME NEW i \in 0..n PROVE step[w[i]] # w[i]
    <3> SUFFICES ASSUME step[w[i]] = w[i] PROVE FALSE
      OBVIOUS
    <3> DEFINE Still == {k \in Nat : i + k <= n => w[i + k] = w[i]}
    <3>1. 0 \in Still
      OBVIOUS
    <3>2. ASSUME NEW k \in Nat, k \in Still, i + (k + 1) <= n PROVE w[i + (k + 1)] = w[i]
      <4>1. i + k \in 0..n /\ (i + k) + 1 \in 1..n /\ i + (k + 1) = (i + k) + 1
        BY <1>0, <3>2
      <4>2. w[(i + k) + 1] = step[w[i + k]] /\ w[i + k] = w[i]
        BY <1>1, <3>2, <4>1
      <4> QED
        BY <4>1, <4>2
    <3>3. \A k \in Nat : k \in Still
      <4>1. \A k \in Nat : k \in Still => k + 1 \in Still
        BY <3>2
      <4> HIDE DEF Still
      <4> QED
        BY <3>1, <4>1, CountingUp
    <3>4. n - i \in Still
      BY <1>0, <3>3
    <3> QED
      BY <1>0, <1>3, <3>4
  <2> DEFINE Grown == {i \in Nat : i <= n => Cardinality(w[i]) >= i}
  <2>2. \A S \in SUBSET B : IsFiniteSet(S) /\ Cardinality(S) \in Nat
    BY FS_Subset, FS_CardinalityType
  <2>3. ASSUME NEW S \in SUBSET B, step[S] # S
        PROVE  Cardinality(step[S]) > Cardinality(S)
    BY <1>0, <2>2, <2>3, FS_Subset DEF Grows
  <2>4. 0 \in Grown
    BY <1>0, <1>1, <2>2
  <2>5. ASSUME NEW i \in Nat, i \in Grown, i + 1 <= n PROVE Cardinality(w[i + 1]) >= i + 1
    <3>1. i \in 0..n /\ i + 1 \in 1..n
      BY <1>0, <2>5
    <3>2. w[i] \in SUBSET B /\ w[i + 1] = step[w[i]] /\ step[w[i]] # w[i]
      BY <1>1, <2>1, <3>1
    <3>3. Cardinality(w[i]) >= i /\ Cardinality(w[i + 1]) > Cardinality(w[i])
      BY <2>3, <2>5, <3>1, <3>2
    <3>4. Cardinality(w[i]) \in Nat /\ Cardinality(w[i + 1]) \in Nat
      BY <1>0, <2>2, <3>2
    <3> QED
      BY <3>3, <3>4
  <2>6. \A i \in Nat : i \in Grown
    <3>1. \A i \in Nat : i \in Grown => i + 1 \in Grown
      BY <2>5
    <3> HIDE DEF Grown
    <3> QED
      BY <2>4, <3>1, CountingUp
  <2>7. w[n] \in SUBSET B /\ step[w[n]] \in SUBSET B /\ Cardinality(w[n]) >= n
    BY <1>0, <1>1, <2>6
  <2>8. /\ Cardinality(step[w[n]]) > Cardinality(w[n])
        /\ Cardinality(step[w[n]]) <= Cardinality(B)
        /\ Cardinality(w[n]) \in Nat /\ Cardinality(step[w[n]]) \in Nat /\ Cardinality(B) \in Nat
    BY <1>3, <2>2, <2>3, <2>7, FS_Subset
  <2> QED
    BY <1>0, <2>7, <2>8
<1>4. n \in Above
  BY <1>0, <1>2
<1> QED
  BY <1>0, <1>1, <1>3, <1>4

\* Whatever contains the start and absorbs every round contains all they leave.
LEMMA RoundsAreLeast ==
  ASSUME NEW w, NEW B, NEW step, NEW start, NEW n, Rounds(w, B, step, start, n),
         NEW T, start \subseteq T, Absorbs(T, B, step)
  PROVE  w[n] \subseteq T
<1>0. step \in [SUBSET B -> SUBSET B] /\ start \in SUBSET B /\ n \in Nat /\ w[0] = start
  BY DEF Rounds, IsStep
<1>1. /\ \A i \in 0..n : w[i] \in SUBSET B
      /\ \A i \in 0..n : i + 1 \in 1..n => w[i + 1] = step[w[i]]
  BY RoundsStay
<1> DEFINE Within == {i \in Nat : i <= n => w[i] \subseteq T}
<1>2. 0 \in Within
  BY <1>0
<1>3. ASSUME NEW i \in Nat, i \in Within, i + 1 <= n PROVE w[i + 1] \subseteq T
  <2>1. i \in 0..n /\ i + 1 \in 1..n
    BY <1>0, <1>3
  <2>2. w[i + 1] = step[w[i]] /\ w[i] \in SUBSET B /\ w[i] \subseteq T
    BY <1>1, <1>3, <2>1
  <2> QED
    BY <2>2 DEF Absorbs
<1>4. \A i \in Nat : i \in Within
  <2>1. \A i \in Nat : i \in Within => i + 1 \in Within
    BY <1>3
  <2> HIDE DEF Within
  <2> QED
    BY <1>2, <2>1, CountingUp
<1>5. n \in Within
  BY <1>0, <1>4
<1> QED
  BY <1>0, <1>5

-----------------------------------------------------------------------------
(* What is reached.                                                        *)

ClosedUnder(next, B, S) == \A b \in S \cap B : next[b] \subseteq S

\* ReachedFrom is the least set that contains the start and with every node its
\* neighbours: as many rounds as there are nodes find all of them.
LEMMA ReachedIsLeast ==
  ASSUME NEW B, IsFiniteSet(B), NEW n \in Nat, Cardinality(B) <= n,
         NEW start \in SUBSET B, NEW next \in [B -> SUBSET B]
  PROVE  /\ ReachedFrom(start, next, n) \in SUBSET B
         /\ start \subseteq ReachedFrom(start, next, n)
         /\ ClosedUnder(next, B, ReachedFrom(start, next, n))
         /\ \A S : start \subseteq S /\ ClosedUnder(next, B, S) => ReachedFrom(start, next, n) \subseteq S
<1> DEFINE step == [S \in SUBSET B |-> S \cup UNION {next[b] : b \in S}]
           Within[k \in 0..n] ==
             IF k = 0 THEN start
             ELSE LET prev == Within[k - 1] IN prev \cup UNION {next[b] : b \in prev}
<1>1. ReachedFrom(start, next, n) = Within[n]
  BY DEF ReachedFrom
<1>2. IsStep(B, step) /\ Grows(B, step)
  <2>1. ASSUME NEW S \in SUBSET B PROVE S \cup UNION {next[b] : b \in S} \in SUBSET B
    OBVIOUS
  <2> QED
    BY <2>1 DEF IsStep, Grows
<1>3. PICK w \in [0..n -> SUBSET B] : Rounds(w, B, step, start, n)
  <2> HIDE DEF step
  <2> QED
    BY <1>2, RoundsExist
<1>4. w = [k \in 0..n |->
             IF k = 0 THEN start
             ELSE LET prev == w[k - 1] IN prev \cup UNION {next[b] : b \in prev}]
  <2>1. w[0] = start /\ \A k \in 1..n : w[k - 1] \in SUBSET B => w[k] = step[w[k - 1]]
    BY <1>3 DEF Rounds
  <2>2. ASSUME NEW k \in 0..n, k # 0
        PROVE  w[k] = w[k - 1] \cup UNION {next[b] : b \in w[k - 1]}
    <3>1. k \in 1..n /\ k - 1 \in 0..n
      BY <2>2
    <3>2. w[k] = step[w[k - 1]] /\ w[k - 1] \in SUBSET B
      BY <2>1, <3>1
    <3> QED
      BY <3>2
  <2> QED
    BY <2>1, <2>2
<1>5. Within = [k \in 0..n |->
                  IF k = 0 THEN start
                  ELSE LET prev == Within[k - 1] IN prev \cup UNION {next[b] : b \in prev}]
  BY <1>4
<1> HIDE DEF Within
<1>6. /\ Within[0] = start
      /\ \A k \in 1..n : Within[k] = Within[k - 1] \cup UNION {next[b] : b \in Within[k - 1]}
  <2>1. 0 \in 0..n /\ 1..n \subseteq (0..n) \ {0}
    OBVIOUS
  <2> QED
    BY <1>5, <2>1
<1>7. Rounds(Within, B, step, start, n)
  <2>1. ASSUME NEW k \in 1..n, Within[k - 1] \in SUBSET B
        PROVE  Within[k] = step[Within[k - 1]]
    BY <1>6, <2>1
  <2> QED
    BY <1>2, <1>6, <2>1 DEF Rounds
<1> DEFINE result == Within[n]
<1>8. result \in SUBSET B /\ start \subseteq result /\ step[result] = result
  <2> HIDE DEF step
  <2> QED
    BY <1>2, <1>7, RoundsSettle
<1> HIDE DEF result
<1>9. ClosedUnder(next, B, result)
  BY <1>8 DEF ClosedUnder
<1>10. ASSUME NEW S, start \subseteq S, ClosedUnder(next, B, S) PROVE result \subseteq S
  <2>1. Absorbs(S, B, step)
    <3>1. ASSUME NEW R \in SUBSET B, R \subseteq S, NEW c \in UNION {next[b] : b \in R} PROVE c \in S
      BY <1>10, <3>1 DEF ClosedUnder
    <3> QED
      BY <3>1 DEF Absorbs
  <2> HIDE DEF step
  <2> QED
    BY <1>7, <1>10, <2>1, RoundsAreLeast DEF result
<1> QED
  BY <1>1, <1>8, <1>9, <1>10 DEF result

-----------------------------------------------------------------------------
(* Reachability and dominance.                                             *)

LEMMA BlocksFinite == IsFiniteSet(Block) /\ Cardinality(Block) = NumBlocks /\ Entry \in Block
  BY NumBlocksAssumption, FS_Interval DEF Block, Entry

\* The entry is in S unless it is d, and S has all that its blocks lead to but d.
Escapes(g, d, S) ==
  /\ Entry \in S \cup {d}
  /\ \A b \in S : g.succs[b] \subseteq S \cup {d}

\* The blocks reached are the least such set without d.
LEMMA ReachableIsLeast ==
  ASSUME NEW g, g.succs \in [Block -> SUBSET Block], NEW d
  PROVE  /\ ReachableAvoiding(g, d) \in SUBSET (Block \ {d})
         /\ Escapes(g, d, ReachableAvoiding(g, d))
         /\ \A S \in SUBSET Block : Escapes(g, d, S) => ReachableAvoiding(g, d) \subseteq S
<1> DEFINE start == {Entry} \ {d}
           next == [b \in Block |-> g.succs[b] \ {d}]
           R == ReachedFrom(start, next, NumBlocks)
<1>1. start \in SUBSET Block /\ next \in [Block -> SUBSET Block]
  BY BlocksFinite
<1>2. IsFiniteSet(Block) /\ NumBlocks \in Nat /\ Cardinality(Block) <= NumBlocks
  BY BlocksFinite, NumBlocksAssumption
<1>3. /\ R \in SUBSET Block /\ start \subseteq R
      /\ ClosedUnder(next, Block, R)
      /\ \A S : start \subseteq S /\ ClosedUnder(next, Block, S) => R \subseteq S
  <2> HIDE DEF next, start
  <2> QED
    BY <1>1, <1>2, ReachedIsLeast
<1>4. R = ReachableAvoiding(g, d)
  BY DEF ReachableAvoiding
<1> HIDE DEF R
<1>5. R \subseteq Block \ {d}
  <2>1. ClosedUnder(next, Block, Block \ {d})
    BY DEF ClosedUnder
  <2>2. {Entry} \ {d} \subseteq Block \ {d}
    BY BlocksFinite
  <2> HIDE DEF next
  <2> QED
    BY <1>3, <2>1, <2>2
<1>6. Escapes(g, d, R)
  BY <1>3 DEF Escapes, ClosedUnder
<1>7. ASSUME NEW S \in SUBSET Block, Escapes(g, d, S) PROVE R \subseteq S
  <2>1. {Entry} \ {d} \subseteq S /\ ClosedUnder(next, Block, S)
    BY <1>7 DEF Escapes, ClosedUnder
  <2> HIDE DEF next
  <2> QED
    BY <1>3, <2>1
<1> QED
  BY <1>4, <1>5, <1>6, <1>7

\* What escapes d contains all that is reached without it: outside of it, d
\* dominates every block.
LEMMA EscapesContains ==
  ASSUME NEW g, g.succs \in [Block -> SUBSET Block], NEW d, NEW S \in SUBSET Block,
         Escapes(g, d, S), NEW b, b \notin S
  PROVE  Dominates(g, d, b)
  BY ReachableIsLeast DEF Dominates

\* A block that is not dominated by d leads only to such blocks and to d.
LEMMA AvoidingLeadsOn ==
  ASSUME NEW g, g.succs \in [Block -> SUBSET Block], NEW d, NEW b \in Block, NEW c \in g.succs[b],
         ~Dominates(g, d, b), c # d
  PROVE  ~Dominates(g, d, c)
  BY ReachableIsLeast DEF Dominates, Escapes

\* What is reached without d is reached.
LEMMA AvoidingIsReached ==
  ASSUME NEW g, g.succs \in [Block -> SUBSET Block], NEW d, NEW b, ~Dominates(g, d, b)
  PROVE  b \in ReachableBlocks(g)
<1>1. Escapes(g, d, ReachableBlocks(g)) /\ ReachableBlocks(g) \in SUBSET Block
  <2>1. Escapes(g, 0, ReachableBlocks(g)) /\ ReachableBlocks(g) \in SUBSET Block
    BY ReachableIsLeast DEF ReachableBlocks
  <2>2. 0 \notin Block
    BY DEF Block
  <2> QED
    BY <2>1, <2>2, BlocksFinite DEF Escapes
<1> QED
  BY <1>1, EscapesContains

\* What contains the entry and the successors of all its blocks has every
\* reachable block.
LEMMA ReachedContained ==
  ASSUME NEW g, g.succs \in [Block -> SUBSET Block], NEW S \in SUBSET Block,
         Entry \in S, \A b \in S : g.succs[b] \subseteq S
  PROVE  ReachableBlocks(g) \subseteq S
<1>1. Escapes(g, 0, S)
  BY DEF Escapes
<1> QED
  BY <1>1, ReachableIsLeast DEF ReachableBlocks

\* The reachable blocks: the entry and what they lead to.
LEMMA ReachableLeadOn ==
  ASSUME NEW g, g.succs \in [Block -> SUBSET Block]
  PROVE  /\ ReachableBlocks(g) \in SUBSET Block /\ Entry \in ReachableBlocks(g)
         /\ \A b \in ReachableBlocks(g) : g.succs[b] \subseteq ReachableBlocks(g)
<1>1. Escapes(g, 0, ReachableBlocks(g)) /\ ReachableBlocks(g) \in SUBSET Block
  BY ReachableIsLeast DEF ReachableBlocks
<1>2. 0 \notin Block
  BY DEF Block
<1> QED
  BY <1>1, <1>2, BlocksFinite DEF Escapes

\* Every block dominates itself, and the entry dominates every block; only the
\* entry dominates the entry.
LEMMA DominatesItself ==
  ASSUME NEW g, g.succs \in [Block -> SUBSET Block], NEW b
  PROVE  Dominates(g, b, b)
  BY ReachableIsLeast DEF Dominates

LEMMA EntryDominates ==
  ASSUME NEW g, g.succs \in [Block -> SUBSET Block], NEW b
  PROVE  Dominates(g, Entry, b)
<1>1. Escapes(g, Entry, {})
  BY DEF Escapes
<1> QED
  BY <1>1, EscapesContains

LEMMA OnlyEntryDominatesEntry ==
  ASSUME NEW g, g.succs \in [Block -> SUBSET Block], NEW d, Dominates(g, d, Entry)
  PROVE  d = Entry
  BY ReachableIsLeast DEF Dominates, Escapes

\* A block that d dominates takes nothing along that d does not.
LEMMA DominatedAvoidsLess ==
  ASSUME NEW g, g.succs \in [Block -> SUBSET Block], NEW d, NEW e, Dominates(g, d, e)
  PROVE  ReachableAvoiding(g, d) \subseteq ReachableAvoiding(g, e)
<1> DEFINE D == ReachableAvoiding(g, d)
           E == ReachableAvoiding(g, e)
<1>1. /\ D \in SUBSET (Block \ {d}) /\ E \in SUBSET (Block \ {e})
      /\ Escapes(g, d, D) /\ Escapes(g, e, E)
      /\ \A S \in SUBSET Block : Escapes(g, d, S) => D \subseteq S
  BY ReachableIsLeast
<1>2. e \notin D
  BY DEF Dominates
<1> HIDE DEF D, E
<1>3. Escapes(g, d, D \cap E)
  BY <1>1, <1>2 DEF Escapes
<1> QED
  BY <1>1, <1>3 DEF D, E

\* Dominance is transitive.
LEMMA DominanceTransitive ==
  ASSUME NEW g, g.succs \in [Block -> SUBSET Block], NEW d, NEW e, NEW b,
         Dominates(g, d, e), Dominates(g, e, b)
  PROVE  Dominates(g, d, b)
  BY DominatedAvoidsLess DEF Dominates

\* Two reachable blocks do not dominate each other.
LEMMA DominanceAntisymmetric ==
  ASSUME NEW g, g.succs \in [Block -> SUBSET Block], NEW d \in ReachableBlocks(g), NEW e,
         Dominates(g, d, e), Dominates(g, e, d)
  PROVE  d = e
<1> SUFFICES ASSUME d # e PROVE FALSE
  OBVIOUS
<1> DEFINE D == ReachableAvoiding(g, d)
           E == ReachableAvoiding(g, e)
<1>1. D \in SUBSET (Block \ {d}) /\ Escapes(g, d, D) /\ Escapes(g, e, E)
  BY ReachableIsLeast
<1>2. D = E
  <2>1. D \subseteq E
    BY DominatedAvoidsLess
  <2>2. E \subseteq D
    BY DominatedAvoidsLess
  <2> QED
    BY <2>1, <2>2
<1> HIDE DEF D, E
<1>3. Entry \in D /\ \A b \in D : g.succs[b] \subseteq D
  BY <1>1, <1>2 DEF Escapes
<1>4. ReachableBlocks(g) \subseteq D
  BY <1>1, <1>3, ReachedContained
<1> QED
  BY <1>1, <1>4

\* The dominators of a reachable block dominate each other.
LEMMA DominatorsInLine ==
  ASSUME NEW g, g.succs \in [Block -> SUBSET Block], NEW b \in ReachableBlocks(g), NEW d, NEW e,
         Dominates(g, d, b), Dominates(g, e, b), ~Dominates(g, d, e)
  PROVE  Dominates(g, e, d)
<1> SUFFICES ASSUME ~Dominates(g, e, d) PROVE FALSE
  OBVIOUS
<1> DEFINE D == ReachableAvoiding(g, d)
           E == ReachableAvoiding(g, e)
<1>1. /\ D \in SUBSET Block /\ E \in SUBSET Block
      /\ Escapes(g, d, D) /\ Escapes(g, e, E)
  BY ReachableIsLeast
<1>2. b \notin D /\ b \notin E /\ e \in D /\ d \in E
  BY DEF Dominates
<1> HIDE DEF D, E
<1>3. Entry \in D \cup E /\ \A c \in D \cup E : g.succs[c] \subseteq D \cup E
  BY <1>1, <1>2 DEF Escapes
<1>4. ReachableBlocks(g) \subseteq D \cup E
  BY <1>1, <1>3, ReachedContained
<1> QED
  BY <1>2, <1>4

\* Every other dominator of a block dominates the reachable blocks that lead to it.
LEMMA DominatesPredecessor ==
  ASSUME NEW g, g.succs \in [Block -> SUBSET Block], NEW d, NEW b, NEW p \in Block,
         b \in g.succs[p], Dominates(g, d, b), d # b
  PROVE  Dominates(g, d, p)
  BY AvoidingLeadsOn

\* And what dominates all of those dominates the block.
LEMMA DominatesPredecessors ==
  ASSUME NEW g, g.succs \in [Block -> SUBSET Block], NEW d, NEW b \in Block \ {Entry},
         \A p \in ReachableBlocks(g) : b \in g.succs[p] => Dominates(g, d, p)
  PROVE  Dominates(g, d, b)
<1> DEFINE D == ReachableAvoiding(g, d)
<1>1. D \in SUBSET Block /\ Escapes(g, d, D)
  BY ReachableIsLeast
<1>2. \A p \in D : p \in ReachableBlocks(g) /\ ~Dominates(g, d, p)
  BY AvoidingIsReached DEF Dominates
<1> HIDE DEF D
<1>3. Escapes(g, d, D \ {b})
  BY <1>1, <1>2 DEF Escapes
<1> QED
  BY <1>1, <1>3, EscapesContains

-----------------------------------------------------------------------------
(* The dominators of a block.                                              *)

DominatorsOf(g, b) == {d \in Block : Dominates(g, d, b)}

\* Only reachable blocks dominate reachable blocks.
LEMMA DominatorReached ==
  ASSUME NEW g, g.succs \in [Block -> SUBSET Block], NEW b \in ReachableBlocks(g), NEW d,
         Dominates(g, d, b)
  PROVE  d \in ReachableBlocks(g)
<1> SUFFICES ASSUME d \notin ReachableBlocks(g) PROVE FALSE
  OBVIOUS
<1> DEFINE D == ReachableAvoiding(g, d)
           S == D \cap ReachableBlocks(g)
<1>1. D \in SUBSET Block /\ Escapes(g, d, D) /\ b \notin D
  BY ReachableIsLeast DEF Dominates
<1>2. /\ ReachableBlocks(g) \in SUBSET Block /\ Entry \in ReachableBlocks(g)
      /\ \A c \in ReachableBlocks(g) : g.succs[c] \subseteq ReachableBlocks(g)
  BY ReachableLeadOn
<1> HIDE DEF D
<1>3. S \in SUBSET Block /\ Entry \in S /\ \A c \in S : g.succs[c] \subseteq S
  BY <1>1, <1>2 DEF Escapes
<1> HIDE DEF S
<1>4. ReachableBlocks(g) \subseteq S
  BY <1>3, ReachedContained
<1> QED
  BY <1>1, <1>4 DEF S

LEMMA DominatorsFinite ==
  ASSUME NEW g, NEW b
  PROVE  IsFiniteSet(DominatorsOf(g, b)) /\ Cardinality(DominatorsOf(g, b)) \in Nat
  BY BlocksFinite, FS_Subset, FS_CardinalityType DEF DominatorsOf

\* A strict dominator of a block has fewer dominators than the block.
LEMMA FewerDominators ==
  ASSUME NEW g, g.succs \in [Block -> SUBSET Block], NEW b \in ReachableBlocks(g), NEW d,
         Dominates(g, d, b), d # b
  PROVE  Cardinality(DominatorsOf(g, d)) < Cardinality(DominatorsOf(g, b))
<1>1. b \in Block /\ d \in Block /\ d \in ReachableBlocks(g)
  BY DominatorReached, ReachableLeadOn
<1>2. DominatorsOf(g, d) \subseteq DominatorsOf(g, b)
  BY DominanceTransitive DEF DominatorsOf
<1>3. DominatorsOf(g, d) # DominatorsOf(g, b)
  <2>1. b \in DominatorsOf(g, b)
    BY <1>1, DominatesItself DEF DominatorsOf
  <2>2. b \notin DominatorsOf(g, d)
    BY <1>1, DominanceAntisymmetric DEF DominatorsOf
  <2> QED
    BY <2>1, <2>2
<1>4. /\ Cardinality(DominatorsOf(g, d)) <= Cardinality(DominatorsOf(g, b))
      /\ Cardinality(DominatorsOf(g, d)) # Cardinality(DominatorsOf(g, b))
  BY <1>2, <1>3, DominatorsFinite, FS_Subset
<1> QED
  BY <1>4, DominatorsFinite

\* Of some dominators of a block, one is dominated by all of them: one with as many
\* dominators as any of them.
LEMMA LowestDominator ==
  ASSUME NEW g, g.succs \in [Block -> SUBSET Block], NEW b \in ReachableBlocks(g),
         NEW S, S # {}, \A d \in S : Dominates(g, d, b)
  PROVE  \E d \in S : \A e \in S : Dominates(g, e, d)
<1> DEFINE missing(d) == Cardinality(DominatorsOf(g, b)) - Cardinality(DominatorsOf(g, d))
           T == {missing(d) : d \in S}
<1>1. /\ Cardinality(DominatorsOf(g, b)) \in Nat
      /\ \A d : Cardinality(DominatorsOf(g, d)) \in Nat
  BY DominatorsFinite
<1>2. ASSUME NEW d \in S PROVE missing(d) \in Nat
  <2>1. CASE d = b
    BY <1>1, <2>1
  <2>2. CASE d # b
    BY <1>1, <2>2, FewerDominators
  <2> QED
    BY <2>1, <2>2
<1>3. T \subseteq Nat /\ T # {}
  BY <1>2
<1>4. PICK m \in T : \A k \in T : m <= k
  <2> HIDE DEF T
  <2> QED
    BY <1>3, LeastNumber
<1>5. PICK d \in S : m = missing(d)
  OBVIOUS
<1>6. ASSUME NEW e \in S PROVE Dominates(g, e, d)
  <2> SUFFICES ASSUME ~Dominates(g, e, d) PROVE FALSE
    OBVIOUS
  <2>1. Dominates(g, d, e) /\ d # e /\ e \in ReachableBlocks(g)
    BY DominatorsInLine, DominatorReached, DominatesItself
  <2>2. Cardinality(DominatorsOf(g, d)) < Cardinality(DominatorsOf(g, e))
    BY <2>1, FewerDominators
  <2>3. m <= missing(e)
    BY <1>4
  <2> QED
    BY <1>1, <1>5, <2>2, <2>3
<1> QED
  BY <1>6

-----------------------------------------------------------------------------
(* Natural loops.                                                          *)

\* S has the header and its latches and with every other block the reachable
\* predecessors of it.
LoopClosed(g, h, S) ==
  /\ h \in S
  /\ BackEdgeSources(g, h) \subseteq S
  /\ \A b \in S \ {h} : \A p \in ReachableBlocks(g) : b \in g.succs[p] => p \in S

\* The natural loop is the least such set of reachable blocks.
LEMMA NaturalLoopIsLeast ==
  ASSUME NEW g, g.succs \in [Block -> SUBSET Block], NEW h \in Block, BackEdgeSources(g, h) # {}
  PROVE  /\ NaturalLoop(g, h) \subseteq ReachableBlocks(g)
         /\ LoopClosed(g, h, NaturalLoop(g, h))
         /\ \A S \in SUBSET Block : LoopClosed(g, h, S) => NaturalLoop(g, h) \subseteq S
<1> DEFINE Re == ReachableBlocks(g)
           sources == BackEdgeSources(g, h)
           before == [b \in Block |-> {p \in Block \ {h} : b \in g.succs[p]}]
           body == ReachedFrom(sources \ {h}, before, NumBlocks)
<1>1. /\ Re \in SUBSET Block
      /\ \A b \in Re : g.succs[b] \subseteq Re
  BY ReachableLeadOn
<1>2. sources \subseteq Re /\ \A b \in sources : h \in g.succs[b]
  BY DEF BackEdgeSources
<1>3. h \in Re
  BY <1>1, <1>2
<1>4. before \in [Block -> SUBSET Block]
  OBVIOUS
<1>5. IsFiniteSet(Block) /\ NumBlocks \in Nat /\ Cardinality(Block) <= NumBlocks
  BY BlocksFinite, NumBlocksAssumption
<1>6. NaturalLoop(g, h) = {h} \cup (body \cap Re)
  BY DEF NaturalLoop
<1> HIDE DEF sources
<1>7. /\ body \in SUBSET Block /\ sources \ {h} \subseteq body
      /\ ClosedUnder(before, Block, body)
      /\ \A S : sources \ {h} \subseteq S /\ ClosedUnder(before, Block, S) => body \subseteq S
  <2>1. sources \ {h} \in SUBSET Block
    BY <1>1, <1>2
  <2> HIDE DEF before
  <2> QED
    BY <1>4, <1>5, <2>1, ReachedIsLeast
<1> HIDE DEF body
<1>8. LoopClosed(g, h, {h} \cup (body \cap Re))
  <2>1. sources \subseteq {h} \cup (body \cap Re)
    BY <1>2, <1>7
  <2>2. ASSUME NEW b \in body \cap Re, NEW p \in Re, b \in g.succs[p] PROVE p \in {h} \cup (body \cap Re)
    BY <1>1, <1>7, <2>2 DEF ClosedUnder
  <2> HIDE DEF Re
  <2> QED
    BY <2>1, <2>2 DEF LoopClosed, sources, Re
<1>9. ASSUME NEW S \in SUBSET Block, LoopClosed(g, h, S) PROVE {h} \cup (body \cap Re) \subseteq S
  <2> DEFINE T == (S \ {h}) \cup (Block \ Re)
  <2>1. h \in S /\ sources \subseteq S /\ \A b \in S \ {h} : \A p \in Re : b \in g.succs[p] => p \in S
    BY <1>9 DEF LoopClosed, sources
  <2>2. sources \ {h} \subseteq T
    BY <2>1
  <2>3. ASSUME NEW b \in T \cap Block, NEW p \in before[b] PROVE p \in T
    <3>1. p \in Block \ {h} /\ b \in g.succs[p]
      OBVIOUS
    <3>2. p \in Re => b \in Re
      BY <1>1, <3>1
    <3>3. p \in Re => p \in S
      BY <2>1, <3>1, <3>2
    <3> QED
      BY <3>1, <3>3
  <2>4. ClosedUnder(before, Block, T)
    <3> HIDE DEF before, T
    <3> QED
      BY <2>3 DEF ClosedUnder
  <2>5. body \subseteq T
    <3> HIDE DEF before, T
    <3> QED
      BY <1>7, <2>2, <2>4
  <2> QED
    BY <2>1, <2>5
<1> HIDE DEF before
<1> QED
  BY <1>1, <1>3, <1>6, <1>7, <1>8, <1>9

\* The header of a loop dominates the blocks of it.
LEMMA HeaderDominatesLoop ==
  ASSUME NEW g, g.succs \in [Block -> SUBSET Block], NEW h \in Block, BackEdgeSources(g, h) # {},
         NEW b \in NaturalLoop(g, h)
  PROVE  Dominates(g, h, b)
<1> DEFINE S == {c \in Block : Dominates(g, h, c)}
<1>1. h \in S
  BY DominatesItself
<1>2. BackEdgeSources(g, h) \subseteq S
  BY ReachableLeadOn DEF BackEdgeSources
<1>3. ASSUME NEW c \in S \ {h}, NEW p \in ReachableBlocks(g), c \in g.succs[p] PROVE p \in S
  <2>1. p \in Block
    BY ReachableLeadOn
  <2> QED
    BY <1>3, <2>1, DominatesPredecessor
<1>4. LoopClosed(g, h, S)
  <2> HIDE DEF S
  <2> QED
    BY <1>1, <1>2, <1>3 DEF LoopClosed
<1> HIDE DEF S
<1>5. NaturalLoop(g, h) \subseteq S
  BY <1>4, NaturalLoopIsLeast DEF S
<1> QED
  BY <1>5 DEF S

\* What the block in front of a loop is: outside of it, it leads to the header, and
\* no other reachable block outside of the loop leads into it.
InFrontOf(g, h, p) ==
  /\ p \in ReachableBlocks(g) \ NaturalLoop(g, h)
  /\ h \in g.succs[p]
  /\ \A q \in ReachableBlocks(g) \ NaturalLoop(g, h) : q # p => g.succs[q] \cap NaturalLoop(g, h) = {}

\* The function does not begin in a loop that has a block in front of it.
LEMMA EntryNotInLoop ==
  ASSUME NEW g, g.succs \in [Block -> SUBSET Block], NEW h \in Block, BackEdgeSources(g, h) # {},
         NEW p, InFrontOf(g, h, p)
  PROVE  Entry \notin NaturalLoop(g, h)
<1> SUFFICES ASSUME Entry \in NaturalLoop(g, h) PROVE FALSE
  OBVIOUS
<1>1. h = Entry
  BY HeaderDominatesLoop, OnlyEntryDominatesEntry
<1>2. p \in BackEdgeSources(g, h)
  BY <1>1, EntryDominates DEF InFrontOf, BackEdgeSources
<1> QED
  BY <1>2, NaturalLoopIsLeast DEF LoopClosed, InFrontOf

\* All ways to a loop lead over the block in front of it.
LEMMA FrontDominatesLoop ==
  ASSUME NEW g, g.succs \in [Block -> SUBSET Block], NEW h \in Block, BackEdgeSources(g, h) # {},
         NEW p, InFrontOf(g, h, p), NEW b \in NaturalLoop(g, h)
  PROVE  Dominates(g, p, b)
<1> DEFINE P == ReachableAvoiding(g, p)
           L == NaturalLoop(g, h)
<1>1. P \in SUBSET (Block \ {p}) /\ Escapes(g, p, P)
  BY ReachableIsLeast
<1>2. P \subseteq ReachableBlocks(g)
  BY AvoidingIsReached DEF Dominates
<1>3. \A q \in ReachableBlocks(g) \ L : q # p => g.succs[q] \cap L = {}
  BY DEF InFrontOf
<1>4. Entry \notin L
  BY EntryNotInLoop
<1> HIDE DEF P, L
<1>5. Escapes(g, p, P \ L)
  BY <1>1, <1>2, <1>3, <1>4 DEF Escapes
<1> QED
  BY <1>1, <1>5, EscapesContains DEF L

\* A block outside of a loop that dominates a block of the loop dominates the
\* header and the block in front of it.
LEMMA OutsideDominatesFront ==
  ASSUME NEW g, g.succs \in [Block -> SUBSET Block], NEW h \in Block, BackEdgeSources(g, h) # {},
         NEW p, InFrontOf(g, h, p), NEW b \in NaturalLoop(g, h),
         NEW d, d \notin NaturalLoop(g, h), Dominates(g, d, b)
  PROVE  Dominates(g, d, p)
<1> DEFINE D == ReachableAvoiding(g, d)
           L == NaturalLoop(g, h)
<1>1. D \in SUBSET Block /\ Escapes(g, d, D)
  BY ReachableIsLeast
<1>2. LoopClosed(g, h, L) /\ L \subseteq ReachableBlocks(g)
  BY NaturalLoopIsLeast
<1>3. /\ ReachableBlocks(g) \in SUBSET Block /\ Entry \in ReachableBlocks(g)
      /\ \A c \in ReachableBlocks(g) : g.succs[c] \subseteq ReachableBlocks(g)
  BY ReachableLeadOn
<1>4. Dominates(g, d, h)
  <2> SUFFICES ASSUME h \in D PROVE FALSE
    BY DEF Dominates
  <2> DEFINE S == ReachableBlocks(g) \cap (D \cup (Block \ L))
  <2>1. Entry \in S
    BY <1>1, <1>3, EntryNotInLoop DEF Escapes
  <2>2. ASSUME NEW c \in S, NEW e \in g.succs[c] PROVE e \in S
    <3>1. e \in ReachableBlocks(g) /\ e \in Block /\ c \in Block
      BY <1>3
    <3> SUFFICES ASSUME e \in L PROVE e \in D
      BY <3>1
    <3>2. CASE c \in D
      BY <1>1, <3>2 DEF Escapes
    <3>3. CASE c \notin L
      <4>1. e = h
        BY <1>2, <3>3 DEF LoopClosed
      <4> QED
        BY <4>1
    <3> QED
      BY <3>2, <3>3
  <2>3. S \in SUBSET Block
    BY <1>3
  <2> HIDE DEF S
  <2>4. ReachableBlocks(g) \subseteq S
    BY <2>1, <2>2, <2>3, ReachedContained
  <2>5. b \in D
    BY <1>2, <2>4 DEF S
  <2> QED
    BY <2>5 DEF Dominates
<1>5. d # h /\ h \in g.succs[p] /\ p \in Block
  BY <1>2, <1>3 DEF InFrontOf, LoopClosed
<1> QED
  BY <1>4, <1>5, DominatesPredecessor
====
